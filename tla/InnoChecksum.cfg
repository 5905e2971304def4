SPECIFICATION InnoSpec
CONSTANTS
  N = 2
  Lsns <- MCLsns
  FirstPages <- MCFirstPages
  Rest = FALSE
  MaxRuns = 2
  RunFaults <- MCFaults
INVARIANT PrefixValid
PROPERTY BodyKept
