SPECIFICATION Spec
CONSTANTS
  Names <- MCNames
  Spaces <- MCSpaces
  HalfWord <- MCHalfWord
  Jobs <- MCJobs
  Faults <- MCFaults
  MaxRuns = 3
  Dictionaries <- MCDictionaries
INVARIANTS TablesOwnSpaces SuccessConnects
PROPERTIES OneTableChanges IndexesFollowTable
