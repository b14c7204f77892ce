\* README.md: the stop criterion ends the program.
SPECIFICATION FairSpec
CONSTANTS
  PACKET_CHAOS = 0
  Strategy = "n"
  StratVal = 3
  MaxMissedPolls = 2
  SockBuf = 3
  Unsolicited = {}
  MaxUnsolicited = 0
  BrokerMayFail = TRUE
  Fragmenting = FALSE
  MaxRereads = 0
PROPERTY SessionEnds
