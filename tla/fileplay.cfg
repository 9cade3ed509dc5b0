SPECIFICATION Spec
CONSTANTS
  Files <- MCFiles
  Script <- MCScript
  Commands <- MCCommands
  MaxCommands = 2
  PointsPerFrame = {5}
  SMALL_FRAME_THRESHOLD = 2
  MAX_POINTS_PER_LOOP = 2
  DAC_BUFFER_POINTS = 5
  NearlyFull = 2
  CardFails = TRUE
INVARIANTS
  FramesInOrder
  PaceKept
PROPERTIES
  ReadIsPlayed
  ScriptEnds
CHECK_DEADLOCK FALSE
