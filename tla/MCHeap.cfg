CONSTANTS
  MAX_HEAP_MEMORY_SEGMENTS = 2
  GroupPages = 2
  FirstMegabyte = 1
  MemoryMaps <- MCMemoryMaps
SPECIFICATION HeapSpec
INVARIANTS
  SegmentsApart
  PagesServedOnce
  BitmapTruthful
\* allocPage that loops for ever stops the machine.
CHECK_DEADLOCK FALSE
