\* Liveness: the listener's loop ends, and so does a cancelled session.
SPECIFICATION FairSpec
CONSTANTS
  PACKET_CHAOS = 2
  Strategy = "n"
  StratVal = 2
  MaxMissedPolls = 1
  SockBuf = 1
  Unsolicited = {}
  MaxUnsolicited = 0
  BrokerMayFail = TRUE
  Fragmenting = FALSE
  MaxRereads = 0
INVARIANT CrashOnlyOnOddFrame
PROPERTIES  CancelledSessionEnds
