---------------------------- MODULE MCPageParser ----------------------------
(***************************************************************************)
(* Small instances of PageParser: pages of three bytes, a cache of two, a  *)
(* file of three, and up to three images anywhere in it.                   *)
(***************************************************************************)
EXTENDS PageParser, FiniteSets

Image(kind, id, index) ==
  [kind |-> kind, id |-> id, index |-> index, text |-> kind = "INDEX", sum |-> kind = "BLOB"]

Places == {S \in SUBSET (0 .. FileSize - PageSize) : Cardinality(S) <= 3}

\* copies of an INDEX page; BLOB pages with one id; a page of a high index first
AllMedia ==
  {[p \in S |-> Image("INDEX", 1, 2)] : S \in Places}
    \cup {[p \in S |-> Image("BLOB", 1, 0)] : S \in Places}
    \cup {[p \in S |-> Image("INDEX", 1, IF \A q \in S : p <= q THEN 5 ELSE 2)] : S \in Places}

\* no break; one in, before and at the end of a window; two; and at every third byte,
\* as the limit of one read makes them
AllBreaks == {{}, {1}, {4}, {5}, {7}, {4, 9}, {3, 6, 9}}

AllFilters == {0, 2}
AllFaults == FaultKinds
=============================================================================
