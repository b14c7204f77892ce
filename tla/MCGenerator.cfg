SPECIFICATION GeneratorSpec
CONSTANTS
  MaxParts = 3
  MaxLength = 4
  Octets = 256
  RULE_REPETITION_INFTY = 16
  Tried <- FewDraws
  Deepest = 21
  Elements <- SomeElements
  environment <- WithoutChaos
  ConnectionRules <- ConnectionFile
  ProtocolRules <- OtherFiles
  Program <- Statements
  Layers <- BottomUp
  Levels = {0, 1, 2, 3, 4}
  Methods = {"start_ok", "tune_ok", "open", "close", "close_ok"}
INVARIANTS CopiesFit ResultIsTheParts
  BoundsAreKept  StringsTellTheirLength
  LengthsAreTrue  RawShare RulesAreRead
PROPERTY Ends
