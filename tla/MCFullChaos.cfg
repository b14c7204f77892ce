\* README.md: at level 4 every packet is chosen at random.
SPECIFICATION Spec
CONSTANTS
  PACKET_CHAOS = 4
  Strategy = "n"
  StratVal = 1
  MaxMissedPolls = 1
  SockBuf = 1
  Unsolicited = {}
  MaxUnsolicited = 0
  BrokerMayFail = FALSE
  Fragmenting = FALSE
  MaxRereads = 0
INVARIANT AlwaysRandomAtFour
