------------------------------ MODULE CParser -------------------------------
(***************************************************************************)
(* undrop-for-innodb/c_parser.c: dumping the records of one table from     *)
(* InnoDB pages.                                                           *)
(*                                                                         *)
(* For every page of every file, check_page follows the record list from   *)
(* infimum to supremum.  When that succeeds, process_ibpage walks the same *)
(* list and dumps the positions that pass the record checks; when it does  *)
(* not, it tries every byte position and jumps over the data of each       *)
(* record it finds.  The counts of the two, and the one in the page        *)
(* header, decide whether records were lost.                               *)
(*                                                                         *)
(* The bytes of a page are abstracted to what the program reads there:     *)
(* the 16-bit word before each position, and the positions whose bytes     *)
(* pass check_for_a_record and check_constraints, with the data size, the  *)
(* deleted flag and where the rest of its BLOB is (at most one column of a *)
(* row is stored outside the page).                                        *)
(*                                                                         *)
(* Printing a record may follow a chain of BLOB pages                      *)
(* (undrop-for-innodb/print_data.c), and the program may give up in the    *)
(* middle of the work: at a file it cannot use and when memory is short.   *)
(***************************************************************************)
EXTENDS Integers, Sequences, FiniteSets, SequencesExt

CONSTANTS
  PageSize,      \* UNIV_PAGE_SIZE
  Half,          \* 2^15: int16_t is -Half .. Half - 1
  Infimum, Supremum,
  Extra,         \* record_extra_bytes
  FirstData,     \* 100
  RecordBytes,   \* 5, the fewest bytes of a record
  Directories,   \* what -f may name: sets of files, a file is a sequence of pages
  OptionSets,    \* the options the program may be given
  BlobPages,     \* what page_no leads to: the BLOB header there; others cannot be read
  Faults         \* what may go wrong: of a read, of stat(), of malloc()

Position == 0 .. PageSize
Int16    == -Half .. Half - 1
Extern   == [page : Nat, len : Nat]       \* page 0: nothing is stored outside
Row      == [size : 1 .. PageSize, deleted : BOOLEAN, extern : Extern]
BlobPage == [part_len : Nat, next : Nat]  \* next 0: FIL_NULL or 0

IsPage(g) ==
  /\ {g.id, g.index, g.n_recs, g.free, g.garbage} \subseteq Nat
  /\ {g.comp, g.leaf} \subseteq BOOLEAN
  /\ g.next \in [Position -> Int16]       \* the word before each position
  /\ DOMAIN g.rows \subseteq Position /\ \A o \in DOMAIN g.rows : g.rows[o] \in Row

Options  == [deleted_pages_only : BOOLEAN, deleted_records_only : BOOLEAN,
             undeleted_records_only : BOOLEAN, filter : Nat]  \* filter 0: no -T

ASSUME LayoutAssumption ==
  /\ PageSize \in Nat /\ Half \in Nat /\ PageSize < Half
  /\ Infimum \in 2 .. PageSize /\ Supremum \in 2 .. PageSize /\ Infimum # Supremum
  /\ Extra \in Nat /\ Extra < PageSize /\ FirstData \in Nat
  /\ RecordBytes \in Nat \ {0}

AllPages == UNION {{f[i] : i \in DOMAIN f} : f \in UNION Directories}

\* `id' tells the pages of a directory apart.
DistinctIds ==
  \A d \in Directories : \A f, g \in d : \A i \in DOMAIN f, j \in DOMAIN g :
    f[i].id = g[j].id => f = g /\ i = j

ASSUME InputAssumption ==
  /\ UNION Directories \subseteq Seq(AllPages) /\ \A g \in AllPages : IsPage(g)
  /\ DistinctIds
  /\ OptionSets \subseteq Options
  /\ \A q \in DOMAIN BlobPages : BlobPages[q] \in BlobPage
  /\ Faults \subseteq {"read", "stat", "malloc"}

VARIABLES
  options,
  left,             \* files not opened yet; readdir gives them in any order
  file,             \* pages of the open file that were not read yet
  page,             \* the page in memory
  pc,
  p, p_prev, recs,  \* of check_page
  is_page_valid, expected_records,
  offset, actual_records,
  visited,          \* positions the walk has looked at on this page
  dump,             \* rows written to f_result (or begun), and where they come from
  page_no, extern_len, len_sum,  \* of print_field_value_with_external
  records_expected_total, records_dumped_total, records_lost

input  == <<options, left, file, page>>
check  == <<p, p_prev, recs, is_page_valid, expected_records>>
walk   == <<offset, actual_records, visited, dump>>
blob   == <<page_no, extern_len, len_sum>>
totals == <<records_expected_total, records_dumped_total, records_lost>>
vars   == <<input, pc, check, walk, blob, totals>>

-----------------------------------------------------------------------------
MaxRecs == PageSize \div RecordBytes

ToInt16(x) == ((x + Half) % (2 * Half)) - Half

\* check_page keeps the position in an int16_t
NextRecord(q) == IF page.comp THEN ToInt16(q + page.next[q]) ELSE page.next[q]

\* process_ibpage keeps it in an unsigned long
NextOffset(o) == IF page.comp THEN o + page.next[o] ELSE page.next[o]

BadPointer == recs > MaxRecs \/ p < 2 \/ p > PageSize \/ p = p_prev

InData(o) == o \in 0 .. PageSize - Extra - 1

Filtered(g) == options.filter # 0 /\ g.index # options.filter

\* -d: pages that cannot have deleted records are left out
NoDeleted(g) == \/ g.n_recs = 0 /\ g.free = 0
                \/ g.free > 0 /\ g.garbage = 0
                \/ g.free > PageSize

IsRecord(o) ==
  /\ o \in DOMAIN page.rows
  /\ options.deleted_records_only => page.rows[o].deleted
  /\ options.undeleted_records_only => ~ page.rows[o].deleted

\* where the walk goes on after position o
Advance(o) == CASE is_page_valid -> NextOffset(o)
                [] ~ is_page_valid /\ IsRecord(o) -> o + page.rows[o].size
                [] OTHER -> o + 1

-----------------------------------------------------------------------------
NoPage == [id |-> 0, index |-> 0, comp |-> FALSE, leaf |-> FALSE,
           next |-> [q \in Position |-> 0], rows |-> [q \in {} |-> {}],
           n_recs |-> 0, free |-> 0, garbage |-> 0]

Init ==
  /\ options \in OptionSets /\ left \in Directories
  /\ file = <<>> /\ page = NoPage /\ pc = "open"
  /\ p = 0 /\ p_prev = 0 /\ recs = 0
  /\ is_page_valid = FALSE /\ expected_records = 0
  /\ offset = 0 /\ actual_records = 0 /\ visited = {} /\ dump = <<>>
  /\ page_no = 0 /\ extern_len = 0 /\ len_sum = 0
  /\ records_expected_total = 0 /\ records_dumped_total = 0 /\ records_lost = FALSE

\* readdir gives a file, which can be read.
OpenIbfile ==
  /\ pc = "open"
  /\ \E f \in left : file' = f /\ left' = left \ {f}
  /\ pc' = "read"
  /\ UNCHANGED <<options, page, check, walk, blob, totals>>

\* What it gives is not a regular file, or is gone; or process_ibfile has no memory
\* for a page.
OpenExit ==
  /\ pc = "open" /\ left # {} /\ Faults \cap {"stat", "malloc"} # {}
  /\ pc' = "exit"
  /\ UNCHANGED <<input, check, walk, blob, totals>>

\* mutant: the count of the page before is not reset
ReadPage_Carry ==
  /\ pc = "read" /\ file # <<>>
  /\ file' = Tail(file) /\ page' = Head(file)
  /\ pc' = IF \/ options.deleted_pages_only /\ NoDeleted(page')
              \/ Filtered(page')
           THEN "read" ELSE "check"
  /\ p' = Infimum /\ p_prev' = 0 /\ recs' = 0 /\ expected_records' = 0
  /\ is_page_valid' = FALSE
  /\ visited' = {}
  /\ UNCHANGED <<options, left, offset, actual_records, dump, blob, totals>>

\* The next page is read; it may be left out by -d or by -T.
ReadPage ==
  /\ pc = "read" /\ file # <<>>
  /\ file' = Tail(file) /\ page' = Head(file)
  /\ pc' = IF \/ options.deleted_pages_only /\ NoDeleted(page')
              \/ Filtered(page')
           THEN "read" ELSE "check"
  /\ p' = Infimum /\ p_prev' = 0 /\ recs' = 0 /\ expected_records' = 0
  /\ is_page_valid' = FALSE
  /\ actual_records' = 0 /\ visited' = {}
  /\ UNCHANGED <<options, left, offset, dump, blob, totals>>

\* read() returned less than a page, or an error: the file is done.
EndOfFile ==
  /\ pc = "read" /\ (file = <<>> \/ "read" \in Faults)
  /\ file' = <<>> /\ pc' = "open"
  /\ UNCHANGED <<options, left, page, check, walk, blob, totals>>

\* With -D every page counts as invalid.
CheckNothing ==
  /\ pc = "check" /\ options.deleted_records_only
  /\ pc' = "start"
  /\ UNCHANGED <<input, check, walk, blob, totals>>

FollowPointer ==
  /\ pc = "check" /\ ~ options.deleted_records_only
  /\ p # Supremum /\ ~ BadPointer
  /\ p_prev' = p /\ p' = NextRecord(p) /\ recs' = recs + 1
  /\ UNCHANGED <<input, pc, is_page_valid, expected_records, walk, blob, totals>>

\* mutant: 1 is returned for a page whose list does not end
PageIsBad_Good ==
  /\ pc = "check" /\ ~ options.deleted_records_only
  /\ p # Supremum /\ BadPointer
  /\ is_page_valid' = TRUE
  /\ pc' = "start"
  /\ UNCHANGED <<input, p, p_prev, recs, expected_records, walk, blob, totals>>

PageIsBad ==
  /\ pc = "check" /\ ~ options.deleted_records_only
  /\ p # Supremum /\ BadPointer
  /\ pc' = "start"
  /\ UNCHANGED <<input, check, walk, blob, totals>>

\* recs counts the infimum record
\* mutant: the infimum record is counted
PageIsGood_Infimum ==
  /\ pc = "check" /\ ~ options.deleted_records_only
  /\ p = Supremum
  /\ is_page_valid' = TRUE /\ expected_records' = recs
  /\ pc' = "start"
  /\ UNCHANGED <<input, p, p_prev, recs, walk, blob, totals>>

PageIsGood ==
  /\ pc = "check" /\ ~ options.deleted_records_only
  /\ p = Supremum
  /\ is_page_valid' = TRUE /\ expected_records' = recs - 1
  /\ pc' = "start"
  /\ UNCHANGED <<input, p, p_prev, recs, walk, blob, totals>>

StartWalk ==
  /\ pc = "start"
  /\ offset' = IF is_page_valid THEN NextOffset(Infimum) ELSE FirstData + Extra
  /\ pc' = "walk"
  /\ UNCHANGED <<input, check, actual_records, visited, dump, blob, totals>>

WalkGoesOn == InData(offset) /\ (offset # Supremum \/ ~ is_page_valid)

\* The columns in the page are printed; where the walk goes on does not depend on
\* the column outside it, which is printed next.
DumpRecord ==
  /\ pc = "walk" /\ WalkGoesOn /\ IsRecord(offset)
  /\ pc' = IF page.rows[offset].extern.page = 0 THEN "walk" ELSE "blob"
  /\ page_no' = page.rows[offset].extern.page /\ extern_len' = page.rows[offset].extern.len
  /\ len_sum' = 0
  /\ dump' = Append(dump, [page |-> page.id, at |-> offset, leaf |-> page.leaf])
  /\ actual_records' = actual_records + 1
  /\ visited' = visited \cup {offset}
  /\ offset' = Advance(offset)
  /\ UNCHANGED <<input, check, totals>>

Readable == page_no \in DOMAIN BlobPages /\ BlobPages[page_no].part_len <= PageSize

\* mutant: only the last part is counted
FollowBlob_Forgets ==
  /\ pc = "blob" /\ Readable
  /\ len_sum' = BlobPages[page_no].part_len
  /\ page_no' = BlobPages[page_no].next
  /\ pc' = IF page_no' = 0 \/ len_sum' >= extern_len THEN "walk" ELSE "blob"
  /\ UNCHANGED <<input, check, walk, extern_len, totals>>

\* One part of the column is printed.
FollowBlob ==
  /\ pc = "blob" /\ Readable
  /\ len_sum' = len_sum + BlobPages[page_no].part_len
  /\ page_no' = BlobPages[page_no].next
  /\ pc' = IF page_no' = 0 \/ len_sum' >= extern_len THEN "walk" ELSE "blob"
  /\ UNCHANGED <<input, check, walk, extern_len, totals>>

\* The chain leads to a page that is not there, or to a header that cannot be one.
EndOfBlob ==
  /\ pc = "blob" /\ ~ Readable
  /\ pc' = "walk"
  /\ UNCHANGED <<input, check, walk, blob, totals>>

\* The BLOB page cannot be read this time.
BlobFault ==
  /\ pc = "blob" /\ "read" \in Faults
  /\ pc' = "walk"
  /\ UNCHANGED <<input, check, walk, blob, totals>>

\* No memory to print a BLOB, or a part of it, in hexadecimal digits.
PrintExit ==
  /\ "malloc" \in Faults
  /\ \/ pc = "blob" /\ Readable
     \/ pc = "walk" /\ WalkGoesOn /\ IsRecord(offset)
  /\ pc' = "exit"
  /\ UNCHANGED <<input, check, walk, blob, totals>>

NoRecord ==
  /\ pc = "walk" /\ WalkGoesOn /\ ~ IsRecord(offset)
  /\ visited' = visited \cup {offset}
  /\ offset' = Advance(offset)
  /\ UNCHANGED <<input, pc, check, actual_records, dump, blob, totals>>

LostRecords == actual_records # expected_records /\ actual_records # page.n_recs

\* The pages above the leaves hold no rows and do not count.
PageDone ==
  /\ pc = "walk" /\ ~ WalkGoesOn
  /\ pc' = "read"
  /\ IF page.leaf
     THEN /\ records_expected_total' = records_expected_total + page.n_recs
          /\ records_dumped_total' = records_dumped_total + actual_records
          /\ records_lost' = (records_lost \/ LostRecords)
     ELSE UNCHANGED totals
  /\ UNCHANGED <<input, check, walk, blob>>

PrintStatus ==
  /\ pc = "open" /\ left = {}
  /\ pc' = "status"
  /\ UNCHANGED <<input, check, walk, blob, totals>>

Terminated == pc \in {"status", "exit"} /\ UNCHANGED vars

Progress == \/ OpenIbfile \/ ReadPage \/ EndOfFile
            \/ CheckNothing \/ FollowPointer \/ PageIsBad \/ PageIsGood
            \/ StartWalk \/ DumpRecord \/ FollowBlob \/ EndOfBlob \/ NoRecord
            \/ PageDone \/ PrintStatus

Fault == OpenExit \/ BlobFault \/ PrintExit

Next == Progress \/ Fault \/ Terminated

\* The program runs alone and is scheduled as long as it can take a step; nothing
\* has to go wrong.
Spec == Init /\ [][Next]_vars /\ WF_vars(Progress)

-----------------------------------------------------------------------------
TypeOK ==
  /\ options \in OptionSets
  /\ \A f \in left \cup {file} : \A i \in DOMAIN f : IsPage(f[i])
  /\ IsPage(page)
  /\ pc \in {"open", "read", "check", "start", "walk", "blob", "status", "exit"}
  /\ p \in Int16 /\ p_prev \in Int16 /\ recs \in 0 .. MaxRecs + 1
  /\ is_page_valid \in BOOLEAN /\ expected_records \in Nat
  /\ offset \in Int /\ actual_records \in Nat /\ visited \subseteq Position
  /\ dump \in Seq([page : Nat, at : Position, leaf : BOOLEAN])
  /\ {page_no, extern_len, len_sum} \subseteq Nat
  /\ records_expected_total \in Nat /\ records_dumped_total \in Nat
  /\ records_lost \in BOOLEAN

\* No row is dumped twice: a list that check_page accepted does not come back
\* to a position, and the search of an invalid page only goes forward.
NoRowTwice == IsInjective(dump)

\* On a page whose list is good the walk of process_ibpage looks at as many
\* positions as check_page counted, unless it comes to one too close to the
\* end of the page to be a record.
WalkAgreesWithCheck ==
  pc = "walk" /\ ~ WalkGoesOn /\ is_page_valid =>
    IF offset = Supremum THEN Cardinality(visited) = expected_records
                         ELSE Cardinality(visited) < expected_records

\* The rows dumped from an invalid page do not overlap: no row starts inside
\* the data of an earlier one of the page.
RowsApart ==
  pc \in {"walk", "blob"} /\ ~ is_page_valid =>
    \A o \in visited : IsRecord(o) => \A q \in visited : ~ (o < q /\ q < o + page.rows[o].size)

\* On a page of live rows only, all at their places, a good list and a header
\* that agrees with it are enough for records_lost to stay as it was.
SoundPage ==
  /\ \A o \in visited : IsRecord(o)
  /\ page.n_recs = expected_records /\ is_page_valid /\ offset = Supremum

\* "records_lost" is not set without a reason, and a page of a good list on
\* which fewer rows were dumped than both counts say sets it.
LossFromGoodPage ==
  [][pc = "walk" /\ ~ WalkGoesOn /\ page.leaf =>
       /\ SoundPage => records_lost' = records_lost
       /\ /\ is_page_valid
          /\ actual_records < expected_records /\ actual_records < page.n_recs
          => records_lost']_vars

\* The numbers of the status line are those of the rows written: between two
\* pages records_dumped_total is the number of rows that came from leaves.
TotalsAddUp ==
  pc \in {"open", "read", "status"} =>
    records_dumped_total = Cardinality({i \in DOMAIN dump : dump[i].leaf})

\* A chain of BLOB pages without content that comes back to itself.
EmptyCycle ==
  \E C \in SUBSET DOMAIN BlobPages :
    /\ page_no \in C
    /\ \A q \in C : BlobPages[q].part_len = 0 /\ BlobPages[q].next \in C

\* Whatever the pointers of a page are, both walks end; so does every chain of BLOB
\* pages, cyclic ones included, unless it is without content.  Then every file is
\* read and the status is printed, or the program gives up with an error.
EndsButForEmptyCycle ==
  <>(pc \in {"status", "exit"}) \/ <>[](pc = "blob" /\ EmptyCycle)

=============================================================================
