SPECIFICATION Spec
CONSTANTS
  Names <- MCNames
  Spaces <- MCSpaces
  HalfWord <- MCHalfWord
  Jobs <- MCJobs
  Faults <- MCFaults
  MaxRuns = 1
  Dictionaries <- HighDictionaries
PROPERTIES OneTableChanges
