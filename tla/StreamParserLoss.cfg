SPECIFICATION Spec
CONSTANTS
  NCpu = 2
  PageSize = 3
  ZeroWord = 2
  CacheSize = 4
  FileSize = 11
  IbSize = 11
  FilterOption <- NoFilter
  Media <- OnePageMedia
  ShortReads = FALSE
  Faults <- NoFaults
INVARIANT EveryPageExtracted
