SPECIFICATION Spec
CONSTANTS
  Frames = 3
  Sizes = {1, 3}
  MAXLINE = 9
  MaxSplits = 2
INVARIANTS DeliveredInOrder SplitOutcomes
PROPERTY FirstFrameIsDelivered
