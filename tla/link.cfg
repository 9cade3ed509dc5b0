\* The link lost and found at any instruction.
CONSTANTS
  p = p
  s = s
  blank = blank
  gen = gen
  slow = slow
  fast = fast
  Blank = blank
  Generated = gen
  BootRate = slow
  DAC_BUFFER_POINTS = 3
  DAC_RATE_BUFFER_SIZE = 2
  Points <- OnePoint
  RatePoints <- NoPoints
  Rates <- OneRate
  MaxChunk = 1
  CountMod = 2
  Ops <- LinkOps
  LinkLoss = TRUE
SPECIFICATION FairSpec
INVARIANTS
  ShutterGuard
PROPERTY
  LinkComesBack
