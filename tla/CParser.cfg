SPECIFICATION Spec
CONSTANTS
  PageSize <- MCPageSize
  Half <- MCHalf
  Infimum = 3
  Supremum = 4
  Extra = 2
  FirstData = 4
  RecordBytes = 5
  OptionSets <- MCOptionSets
  Directories <- MCDirectories
  BlobPages <- MCBlobPages
  Faults = {"read", "stat", "malloc"}
INVARIANTS WalkAgreesWithCheck NoRowTwice TotalsAddUp
PROPERTY EndsButForEmptyCycle
