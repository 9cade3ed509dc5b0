\* Points and queued rates, their two rings, and a writer that falls silent.
CONSTANTS
  p = p
  s = s
  blank = blank
  gen = gen
  slow = slow
  fast = fast
  Blank = blank
  Generated = gen
  BootRate = slow
  DAC_BUFFER_POINTS = 3
  DAC_RATE_BUFFER_SIZE = 3
  Points <- TwoPoints
  RatePoints <- SwitchOnly
  Rates <- TwoRates
  MaxChunk = 2
  CountMod = 1
  Ops <- StreamOps
  LinkLoss = FALSE
SPECIFICATION FairSpec
PROPERTIES
  PlaysPointsInOrder
  RatesInOrder
  RateFollowsPoints
  DrainsToIdle
