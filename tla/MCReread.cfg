\* abnf/grammar-connection: START is answered once.
SPECIFICATION Spec
CONSTANTS
  PACKET_CHAOS = 0
  Strategy = "n"
  StratVal = 3
  MaxMissedPolls = 2
  SockBuf = 3
  Unsolicited = {}
  MaxUnsolicited = 0
  BrokerMayFail = FALSE
  Fragmenting = FALSE
  MaxRereads = 1
PROPERTY ImplementsGrammar
