CONSTANTS
  Target = 3
  BeginAbove = 2
  MIN_SEND_POINTS = 1
  Chunk = 2
  MAX_LATE_ACKS = 5
  FrameSizes = {3}
  Capacity = 4
  SndMax = 6
  DeferMax = 12
  MaxDelay = 2
  MaxEstops = 1
SPECIFICATION FairSpec
CHECK_DEADLOCK FALSE
INVARIANTS
  SendsTheFrame
