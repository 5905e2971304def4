------------------------ MODULE MCIncrementalUpdate ------------------------
(* Snapshots and backups of up to three pages, for TLC. *)
EXTENDS IncrementalUpdate

MCLsns == {1, 2}
MCSums == {1, 2}

P(lsn, sum) == [lsn |-> lsn, sum |-> sum, end_lsn |-> lsn]
TornPage    == [lsn |-> 2, sum |-> 2, end_lsn |-> 1]
SomePages   == {P(1, 1), P(2, 1), P(2, 2), TornPage}

OfLength(n) == [1 .. n -> SomePages]

\* The backup is as long as the snapshot, longer or shorter.
MCSnapshots == OfLength(1) \cup OfLength(2)
MCBackups   == OfLength(1) \cup OfLength(2) \cup {<<>>, <<P(1, 1), TornPage, P(1, 1)>>}

MCFaults == RunFaultKinds
=============================================================================
