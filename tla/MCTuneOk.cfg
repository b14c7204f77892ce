SPECIFICATION FairSpec
CONSTANTS
  Octets = 4
  MinFrame = 15
  Offers <- SomeOffers
INVARIANTS NeverAboveOffer CrashOnlyOnMinusOne ChannelMaxOnWire
PROPERTY TuneOkEnds
