---------------------------- MODULE PageCarving ----------------------------
(***************************************************************************)
(* What a program that carves pages out of a medium promises: stream_parser*)
(* (undrop-for-innodb) and page_parser (the Percona toolkit) do no more    *)
(* and no less, whatever they do with caches, seeks and processes.         *)
(*                                                                         *)
(* Each scanner goes through the medium from its own starting point, never *)
(* backwards.  Where it stands it may save a valid page and step over it,  *)
(* or move on past positions at which no wanted page begins.  It finishes  *)
(* when no page that ends within its share is before it any more.          *)
(***************************************************************************)
EXTENDS Integers

CONSTANTS
  Scanners,
  PageSize,
  MediumSize, \* bytes on the medium
  From,       \* where each scanner starts
  Upto        \* where each scanner's share ends

VARIABLES
  valid,      \* the offsets at which a page can be saved
  wanted,     \* those whose page must be saved
  phase,      \* "idle", "scanning", "finished" or "failed"
  at,         \* the position of a scanner that is scanning or finished
  saved       \* the offsets each scanner has saved

vars == <<valid, wanted, phase, at, saved>>

Init ==
  /\ valid \in SUBSET Nat /\ wanted \in SUBSET valid
  /\ phase = [s \in Scanners |-> "idle"]
  /\ at = [s \in Scanners |-> 0]
  /\ saved = [s \in Scanners |-> {}]

Begin(s) ==
  /\ phase[s] = "idle"
  /\ phase' = [phase EXCEPT ![s] = "scanning"]
  /\ at' = [at EXCEPT ![s] = From[s]]
  /\ UNCHANGED <<valid, wanted, saved>>

\* No wanted page begins at any of the positions that s leaves behind.
Misses(s, positions) == positions \cap wanted = {}

Save(s) ==
  /\ phase[s] = "scanning" /\ at[s] \in valid
  /\ saved' = [saved EXCEPT ![s] = @ \cup {at[s]}]
  /\ at' = [at EXCEPT ![s] = @ + PageSize]
  /\ Misses(s, at[s] + 1 .. at'[s] - 1)
  /\ UNCHANGED <<valid, wanted, phase>>

Skip(s) ==
  /\ phase[s] = "scanning"
  /\ \E to \in at[s] + 1 .. MediumSize :
       /\ Misses(s, at[s] .. to - 1)
       /\ at' = [at EXCEPT ![s] = to]
  /\ UNCHANGED <<valid, wanted, phase, saved>>

Finish(s) ==
  /\ phase[s] = "scanning"
  /\ at[s] + PageSize > Upto[s] \/ at[s] + PageSize > MediumSize
  /\ phase' = [phase EXCEPT ![s] = "finished"]
  /\ UNCHANGED <<valid, wanted, at, saved>>

Fail(s) ==
  /\ phase[s] \in {"idle", "scanning"}
  /\ phase' = [phase EXCEPT ![s] = "failed"]
  /\ at' = [at EXCEPT ![s] = 0]
  /\ UNCHANGED <<valid, wanted, saved>>

Next == \E s \in Scanners : Begin(s) \/ Save(s) \/ Skip(s) \/ Finish(s) \/ Fail(s)

Spec == Init /\ [][Next]_vars

\* Nothing wanted in a finished scanner's share is missing.
Carved ==
  \A s \in Scanners : phase[s] = "finished" =>
    \A p \in wanted :
      From[s] <= p /\ p + PageSize <= Upto[s] /\ p + PageSize <= MediumSize => p \in saved[s]
=============================================================================
