\* The client follows the protocol; the broker answers what it is asked, or dies.
SPECIFICATION Spec
CONSTANTS
  PACKET_CHAOS = 0
  Strategy = "n"
  StratVal = 3
  MaxMissedPolls = 2
  SockBuf = 3
  Unsolicited = {}
  MaxUnsolicited = 0
  BrokerMayFail = TRUE
  Fragmenting = FALSE
  MaxRereads = 0
INVARIANTS TypeOK NoFrameLost
PROPERTIES ImplementsGrammar ImplementsFuzzCall
