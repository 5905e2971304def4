SPECIFICATION UpdateSpec
CONSTANTS
  Lsns <- MCLsns
  Sums <- MCSums
  Snapshots <- MCSnapshots
  Backups <- MCBackups
  Rest = FALSE
  MaxRuns = 2
  RunFaults <- MCFaults
INVARIANTS DonePagesCopied RestIsOld
