------------------------------ MODULE PageLoop ------------------------------
(***************************************************************************)
(* What InnoChecksum and IncrementalUpdate have in common: a program with  *)
(* one loop over the pages of a tablespace, one buffer, and exit codes,    *)
(* that is run again on what an earlier run has left.                      *)
(***************************************************************************)
EXTENDS Integers

CONSTANTS
  Lsns,        \* values of an LSN
  Rest,        \* the file goes on for less than a page after its last one
  MaxRuns,     \* bound on the number of runs
  RunFaults    \* what may happen to a run: a subset of RunFaultKinds

RunFaultKinds == {"read", "write", "kill"}

ASSUME RunsAssumption ==
  /\ Lsns \subseteq Nat /\ Rest \in BOOLEAN
  /\ MaxRuns \in Nat /\ RunFaults \subseteq RunFaultKinds

VARIABLES
  ct,       \* the page that is looked at, or the number of pages that are done
  p,        \* the buffer
  loop,     \* phase of the loop
  status,   \* what main returned, or -1
  runs      \* runs so far

Return(s) == loop' = "exit" /\ status' = s

=============================================================================
