\* Every command line of up to two options, and the battery it asks for.
SPECIFICATION FairProgramSpec
CONSTANTS
  Criteria = {0, 2, 5}
  MaxPerSession = 5
  CommandLines <- UpToTwo
  DefaultPort = 5672
  Start = 10
  MaxWaiting = 5
INVARIANTS DeltaIsSane DoneMeansEnough OvershootBound
   OneCriterion HellIsWaiting TimeIsUp StopsOnTime
PROPERTY ProgramEnds
