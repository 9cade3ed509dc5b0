\* Every command, alone or cut anywhere; one answer fits.
CONSTANTS
  PS_BUFFER_SIZE = 4
  PointSize = 4
  BeginSize = 3
  QueueSize = 2
  DataSize = 2
  PS_DEFERRED_ACK_MAX = 2
  SndMax = 1
  Capacity = 2
  Commands <- AllCommands
  MaxCommands = 3
SPECIFICATION FairSpec
INVARIANTS
  InStep
  AnsweredOnce
  RingInOrder
PROPERTIES
  ClosedIsFinal
  AllIsParsed
