\* README.md: the stop criterion is optional.
SPECIFICATION Spec
CONSTANTS
  PACKET_CHAOS = 0
  Strategy = "0"
  StratVal = 0
  MaxMissedPolls = 2
  SockBuf = 3
  Unsolicited = {}
  MaxUnsolicited = 0
  BrokerMayFail = FALSE
  Fragmenting = FALSE
  MaxRereads = 0
INVARIANT NoThreadOutlivesFuzz
