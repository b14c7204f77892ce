\* AMQP.c:132: frames that come in bundles are separated.
SPECIFICATION Spec
CONSTANTS
  PACKET_CHAOS = 0
  Strategy = "n"
  StratVal = 3
  MaxMissedPolls = 2
  SockBuf = 3
  Unsolicited = {"CLOSE"}
  MaxUnsolicited = 1
  BrokerMayFail = FALSE
  Fragmenting = FALSE
  MaxRereads = 0
INVARIANT NoBundleLost
