\* An ordered client against any frame, split or answered twice.
SPECIFICATION Spec
CONSTANTS
  PACKET_CHAOS = 1
  Strategy = "t"
  StratVal = 1
  MaxMissedPolls = 1
  SockBuf = 1
  Unsolicited <- OddFrames
  MaxUnsolicited = 1
  BrokerMayFail = TRUE
  Fragmenting = TRUE
  MaxRereads = 1
INVARIANTS IInv NoThreadOutlivesFuzz NoLostWakeup  AtMostOneLatePacket
PROPERTY FrameStableWhileAnswered
