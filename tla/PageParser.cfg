SPECIFICATION FairSpec
CONSTANTS
  PageSize = 3
  CacheSize = 6
  FileSize = 12
  Media <- AllMedia
  BreakSets <- AllBreaks
  MaxIndexId = 5
  FilterIds <- AllFilters
  Faults <- AllFaults
INVARIANTS
  TypeOK
  OnlyCutPagesLost
  FilesApart
PROPERTIES
  CarvesPages
  Termination
