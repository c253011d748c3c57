\* two windows, two faults of any kind
CONSTANTS
  Layouts <- MCLayouts
  MaxPushes = 2
  ChunkLen = 3
  QueueDepth = 2
  LineMax = 2
  FlushEvery = 2
  MaxFaults = 2
SPECIFICATION FairSpec
INVARIANTS TypeOK NoSplice IntactWindowsWhole LossBounded
PROPERTIES KeepsLog WindowsCounted
