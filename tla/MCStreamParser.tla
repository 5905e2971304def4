--------------------------- MODULE MCStreamParser ---------------------------
(***************************************************************************)
(* Small instances of StreamParser: pages of three bytes, a skipped word   *)
(* of two, and media of up to eleven bytes that hold up to three images.   *)
(***************************************************************************)
EXTENDS StreamParser

Image(kind, id, index) ==
  [kind |-> kind, id |-> id, index |-> index, text |-> kind # "BLOB", sum |-> kind = "BLOB"]

IndexPage == Image("INDEX", 1, 7)
OtherPage == Image("OTHER", 2, 9)
BlobPage  == Image("BLOB", 1, 0)
BadPage   == [IndexPage EXCEPT !.text = FALSE]

\* The images are aligned, shifted by a byte, or overlap each other.
Layouts == {
  [o \in {0, 3, 6} |-> IF o = 3 THEN BlobPage ELSE IndexPage],
  [o \in {1, 5, 8} |-> IF o = 5 THEN OtherPage ELSE IndexPage],
  [o \in {2, 4, 7} |-> IF o = 4 THEN BadPage ELSE IndexPage],
  [o \in {3, 4, 8} |-> IndexPage]}

ZeroSets == {{}, 0 .. 4, {3, 4, 5, 6}, {5, 6, 7}, 6 .. 10, 0 .. 10}

SmallMedia ==
  {[page |-> l, zero |-> z \cap Offsets] : l \in Layouts, z \in ZeroSets}

OnePageMedia ==
  {[page |-> [o \in {p} |-> IndexPage], zero |-> {}] : p \in 0 .. FileSize - PageSize}

NoFilter  == <<>>
NoFaults  == {}
AllFaults == FaultKinds
=============================================================================
