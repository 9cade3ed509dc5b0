\* Every call, with failures; disconnect may hang (README, section 6).
CONSTANTS
  BUFFER_NFRAMES = 2
  Chunks = 2
  Repeats <- AllRepeats
  MaxFrames = 5
  MaxConnects = 2
  MaxStarts = 1
  Ops <- AllOps
  SocketFails = TRUE
  DacIdles = TRUE
SPECIFICATION FairSpec
INVARIANTS
  NoTornFrame
PROPERTIES
  FramesInOrder
  WriterGetsRoom
  StoppedFrameEnds
CHECK_DEADLOCK FALSE
