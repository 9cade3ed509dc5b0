CONSTANTS
  Universes = {1}
  DMX_CHANNELS = 2
  Values <- Levels
  MaxValue = 1
  LineErrors = FALSE
SPECIFICATION FairSpec
INVARIANTS
  NoChangeLost
PROPERTIES
  SteadyOnceRunning
  EnabledIsSent
