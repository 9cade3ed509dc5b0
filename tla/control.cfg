\* Every control operation, no link loss.
CONSTANTS
  p = p
  s = s
  blank = blank
  gen = gen
  slow = slow
  fast = fast
  Blank = blank
  Generated = gen
  BootRate = slow
  DAC_BUFFER_POINTS = 3
  DAC_RATE_BUFFER_SIZE = 2
  Points <- OnePoint
  RatePoints <- NoPoints
  Rates <- OneRate
  MaxChunk = 2
  CountMod = 2
  Ops <- ControlOps
  LinkLoss = FALSE
SPECIFICATION Spec
INVARIANTS
  IdleIsDark
  EstopHolds
  PlaysItsSource
PROPERTY
  StopReasonSticks
