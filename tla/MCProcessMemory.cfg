CONSTANTS
  MAX_PROCESSES = 4
  MAX_STREAMS = 7
  PerPool = 2
  TablePages = 64
  KernelCode <- MCKernelCode
  FirstPage = 4
  IdentityPages = 56
  HeapStart = 64
  LoaderBase = 192
  StackStart = 448
  SharedPage = 512
  Programs <- MCPrograms
  MaxMisses = 1
  MaxStack = 2
SPECIFICATION Spec
INVARIANTS
  RingsWrap
  PointersShared
  SpacesApart
  StreamTableHasRoom
  ProgramInPlace
PROPERTIES
  NothingRemapped
