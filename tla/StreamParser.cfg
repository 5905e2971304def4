SPECIFICATION FairSpec
CONSTANTS
  NCpu = 2
  PageSize = 3
  ZeroWord = 2
  CacheSize = 4
  FileSize = 11
  IbSize = 11
  FilterOption <- NoFilter
  Media <- SmallMedia
  ShortReads = TRUE
  Faults <- AllFaults
INVARIANTS
  NoPageSkipped
  WorkerOrderInFile
  ReportAfterWorkers
PROPERTIES
  Termination
  CarvesPages
