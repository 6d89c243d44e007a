SPECIFICATION Spec
CONSTANTS
  Levels = 3
  total_blocks = 7
  SectorNodes = 4
INVARIANTS
  TreeSummarises
  LiveBlocksKept
  SearchFindsFree
  CacheCoherent
