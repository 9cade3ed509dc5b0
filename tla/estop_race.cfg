\* Link loss inside dac_prepare or dac_start.
CONSTANTS
  p = p
  s = s
  blank = blank
  gen = gen
  slow = slow
  fast = fast
  Blank = blank
  Generated = gen
  BootRate = slow
  DAC_BUFFER_POINTS = 2
  DAC_RATE_BUFFER_SIZE = 2
  Points <- OnePoint
  RatePoints <- NoPoints
  Rates <- OneRate
  MaxChunk = 1
  CountMod = 2
  Ops <- PlayOps
  LinkLoss = TRUE
SPECIFICATION Spec
INVARIANT
  EstopIsDark
