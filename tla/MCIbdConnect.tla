---------------------------- MODULE MCIbdConnect ----------------------------
(* Small dictionaries for TLC. *)
EXTENDS IbdConnect

MCHalfWord == 2
MCNames  == {"d/a", "d/b", "d/c"}
MCSpaces == 0 .. 3

Small(n) == [high |-> 0, low |-> n]
T(n, i, s) == [name |-> n, id |-> i, space |-> s]
I(i, s)    == [table_id |-> i, space |-> s]

D(ts, is) == [tables |-> ts, indexes |-> is]

a == Small(1)
b == Small(3)

\* One page each; two pages each, with the indexes of a table on both; a
\* table without indexes and one with the id 0.
MCDictionaries ==
  { D(<<<<T("d/a", a, 1), T("d/b", b, 2)>>>>,
      <<<<I(a, 1), I(b, 2), I(b, 2)>>>>),
    D(<<<<T("d/a", a, 0)>>, <<T("d/b", b, 2), T("d/c", Small(0), 0)>>>>,
      <<<<I(a, 0), I(b, 2)>>, <<I(b, 2)>>, <<I(a, 0)>>>>),
    D(<<<<>>, <<T("d/a", a, 1)>>>>, <<<<>>>>) }

MCJobs == {[name |-> n, space |-> s] : n \in MCNames, s \in {2, 3}}

\* The same ids with a high word: <<1, 0>> is read as <<0, 2>> is.
HighDictionaries ==
  { D(<<<<T("d/a", [high |-> 1, low |-> 0], 1), T("d/b", Small(2), 2)>>>>,
      <<<<I([high |-> 1, low |-> 0], 1), I(Small(2), 2)>>>>) }

MCFaults == FaultKinds
=============================================================================
