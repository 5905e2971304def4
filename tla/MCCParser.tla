----------------------------- MODULE MCCParser ------------------------------
(* Pages of 16 bytes with at most four records, for TLC. *)
EXTENDS CParser

MCPageSize == 16
MCHalf     == 32
R(size, deleted) == [size |-> size, deleted |-> deleted, extern |-> [page |-> 0, len |-> 0]]
Outside(size, n, len) == [R(size, FALSE) EXCEPT !.extern = [page |-> n, len |-> len]]

\* Chains that end, that come back with and without content, and that lead to a
\* page that is missing (99) or holds no BLOB header (8).
B(part_len, next) == [part_len |-> part_len, next |-> next]
MCBlobPages == (1 :> B(8, 2)) @@ (2 :> B(8, 0)) @@ (3 :> B(0, 3)) @@ (4 :> B(0, 5)) @@ (5 :> B(0, 4))
               @@ (6 :> B(0, 7)) @@ (7 :> B(3, 6)) @@ (8 :> B(17, 1)) @@ (9 :> B(4, 99)) @@ (10 :> B(8, 8))

\* The word before q holds the position of the next record, or the way to it.
Word(comp, q, target) == IF comp THEN target - q ELSE target

PageOf(id, comp, list, rows, n) ==
  [id |-> id, index |-> 1, comp |-> comp, leaf |-> TRUE,
   next |-> [q \in Position |-> IF q \in DOMAIN list THEN Word(comp, q, list[q]) ELSE 0],
   rows |-> rows, n_recs |-> n, free |-> 0, garbage |-> 0]

\* Lists that end, that turn back, that leave the page and that come to a
\* position too close to its end.
Lists == {(3 :> i) @@ (6 :> j) @@ (9 :> k) @@ (13 :> l) @@ (14 :> 4) :
            i \in {4, 6, 9}, j \in {3, 4, 6, 9, 13}, k \in {4, 6, 13, 14, 17}, l \in {1, 4, 9, 14}}

Rows1 == (6 :> R(2, FALSE)) @@ (9 :> R(4, FALSE)) @@ (13 :> R(1, FALSE))
Rows2 == (6 :> R(4, FALSE)) @@ (7 :> R(2, FALSE)) @@ (9 :> R(2, TRUE))

OnePage == {{<<PageOf(1, c, l, r, 2)>>} : c \in BOOLEAN, l \in Lists, r \in {Rows1, Rows2}}

Ends   == (3 :> 6) @@ (6 :> 9) @@ (9 :> 4)
Turns  == (3 :> 6) @@ (6 :> 9) @@ (9 :> 6)
Good(id)   == PageOf(id, TRUE, Ends, Rows1, 2)
Short(id)  == PageOf(id, TRUE, Ends, Rows2, 3)
Bad(id)    == PageOf(id, FALSE, Turns, Rows1, 2)
Free(id)   == [Good(id) EXCEPT !.free = 9, !.garbage = 4]
Other(id)  == [Good(id) EXCEPT !.index = 2]
Upper(id)  == [Bad(id) EXCEPT !.leaf = FALSE]

\* The rows of a good and of a bad page, with a column that begins on BLOB page n.
WithBlob(g, n, len) == [g EXCEPT !.rows = (6 :> Outside(2, n, len)) @@ (9 :> R(4, FALSE))]
Blobs == {{<<WithBlob(Good(1), n, len), Good(2)>>} : n \in (1 .. 10) \cup {99}, len \in {0, 8, 20}}
         \cup {{<<WithBlob(Bad(1), n, 20)>>, <<Good(2)>>} : n \in {1, 4, 6, 10}}

Pages(id) == {Good(id), Short(id), Bad(id), Free(id), Other(id), Upper(id)}
Pairs == {{<<a, b>>} : a \in Pages(1), b \in Pages(2)}
         \cup {{<<a, b>>, <<c>>} : a \in {Good(1), Bad(1)}, b \in {Other(2), Free(2)}, c \in Pages(3)}
         \cup {{}, {<<>>}}

MCDirectories == OnePage \cup Pairs \cup Blobs

O(d, D, U, f) == [deleted_pages_only |-> d, deleted_records_only |-> D,
                  undeleted_records_only |-> U, filter |-> f]
MCOptionSets == {O(FALSE, FALSE, TRUE, 0), O(FALSE, TRUE, FALSE, 0),
                 O(TRUE, FALSE, TRUE, 1), O(FALSE, TRUE, TRUE, 0)}
=============================================================================
