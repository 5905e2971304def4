----------------------------- MODULE IbdConnect -----------------------------
(***************************************************************************)
(* percona-data-recovery-tool-for-innodb-0.5/ibdconnect.c: attaching an    *)
(* orphaned .ibd file to a table of the InnoDB dictionary.                 *)
(*                                                                         *)
(* A run reads the space id from the .ibd file, walks SYS_TABLES to see    *)
(* that no table uses it, walks SYS_TABLES again to write it into the row  *)
(* of the named table, and walks SYS_INDEXES to write it into the row of   *)
(* every index of that table.  ibdata1 is changed in place, one page at a  *)
(* time, with no log, so that a run may stop between any two pages.  Runs  *)
(* follow one another on the same ibdata1.                                 *)
(*                                                                         *)
(* A dictionary table is the sequence of its pages as FIL_PAGE_NEXT links  *)
(* them from the root, a page the sequence of its records from infimum to  *)
(* supremum.  Rows that the walk does not come to, in the leaves under a   *)
(* root that holds node pointers, are not the program's and not modelled.  *)
(***************************************************************************)
EXTENDS Integers, Sequences

CONSTANTS
  Names,         \* table names "db/table"
  Spaces,        \* space ids
  HalfWord,      \* 2^31: half the range of a 4-byte word
  Dictionaries,  \* the contents ibdata1 may have at first
  Jobs,          \* the runs a user may start: -d, -t and the id in the -f file
  MaxRuns,       \* bound on the number of runs
  Faults         \* what may go wrong in a run: a subset of FaultKinds

FaultKinds == {"read", "write", "kill"}

Id       == [high : Nat, low : 0 .. 2 * HalfWord - 1]   \* 8 bytes, big-endian
TableRow == [name : Names, id : Id, space : Spaces]
IndexRow == [table_id : Id, space : Spaces]

Dictionary == [tables  : Seq(Seq(TableRow)),
               indexes : Seq(Seq(IndexRow))]

Rows(pages) == UNION {{p} \X DOMAIN pages[p] : p \in DOMAIN pages}

\* Every tablespace but the system tablespace, 0, holds one table.
OwnSpaces(pages) ==
  \A r, s \in Rows(pages) :
    pages[r[1]][r[2]].space = pages[s[1]][s[2]].space =>
      r = s \/ pages[r[1]][r[2]].space = 0

ASSUME WordAssumption == HalfWord \in Nat \ {0}

ASSUME DictionaryAssumption ==
  \A d \in Dictionaries : d \in Dictionary /\ OwnSpaces(d.tables)

ASSUME JobsAssumption ==
  /\ Jobs \subseteq [name : Names, space : Spaces]
  /\ MaxRuns \in Nat
  /\ Faults \subseteq FaultKinds

VARIABLES
  tables, indexes,  \* the rows of SYS_TABLES and SYS_INDEXES the walks come to
  pc,               \* phase of the current run, or how it ended
  job,              \* its arguments
  page,             \* next_page_pos, as a position in the chain of pages
  table_id,         \* what update_sys_tables returned
  runs              \* runs started so far

dictionary == <<tables, indexes>>
vars       == <<dictionary, pc, job, page, table_id, runs>>

Walking == {"check", "update", "indexes"}
Ended   == {"success", "failure", "killed"}

-----------------------------------------------------------------------------
(***************************************************************************)
(* mach_read_from_8: (high << 31) | low.  The last bit of the high word    *)
(* falls on the first of the low word.                                     *)
(***************************************************************************)
\* mutant: only the last byte of an id is compared
ReadId_Byte(id) == id.low % 2

ReadId(id) ==
  LET carry == IF id.high % 2 = 1 \/ id.low >= HalfWord THEN HalfWord ELSE 0
  IN  (id.high \div 2) * (2 * HalfWord) + carry + (id.low % HalfWord)

InChain(pages) == page \in 1 .. Len(pages)

\* mutant: SPACE of the rows after the first is not looked at
SpaceUsed_First == /\ tables[page] # <<>>
                   /\ tables[page][1].space = job.space
SpaceUsed == \E k \in DOMAIN tables[page] : tables[page][k].space = job.space

Matches == {k \in DOMAIN tables[page] : tables[page][k].name = job.name}
IsFirst(k) == k \in Matches /\ \A j \in Matches : k <= j

IndexRows == {k \in DOMAIN indexes[page] : ReadId(indexes[page][k].table_id) = table_id}

GivenSpace(row) == [row EXCEPT !.space = job.space]

WithSpace(rows, S) == [k \in DOMAIN rows |-> IF k \in S THEN GivenSpace(rows[k]) ELSE rows[k]]

Exit(status) == pc' = status /\ UNCHANGED <<job, table_id, runs>>

-----------------------------------------------------------------------------
Init ==
  /\ \E d \in Dictionaries :
       tables = d.tables /\ indexes = d.indexes
  /\ pc = "idle" /\ page = 1 /\ table_id = 0 /\ runs = 0
  /\ job \in Jobs

\* Both files are opened and the id is read from page 0 of the .ibd file.
Start ==
  /\ pc \in Ended \cup {"idle"} /\ runs < MaxRuns
  /\ job' \in Jobs
  /\ pc' = "check" /\ page' = 1 /\ table_id' = 0 /\ runs' = runs + 1
  /\ UNCHANGED dictionary

\* First walk: is the space id in the row of any table?
CheckPage ==
  /\ pc = "check" /\ InChain(tables) /\ ~ SpaceUsed
  /\ page' = page + 1
  /\ UNCHANGED <<dictionary, pc, job, table_id, runs>>

SpaceTaken ==
  /\ pc = "check" /\ InChain(tables) /\ SpaceUsed
  /\ Exit("failure") /\ UNCHANGED <<dictionary, page>>

CheckDone ==
  /\ pc = "check" /\ ~ InChain(tables)
  /\ pc' = "update" /\ page' = 1
  /\ UNCHANGED <<dictionary, job, table_id, runs>>

\* Second walk: the first row with the name gets the space id, and the walk
\* ends.  main gives up when the id read from the row is 0.
\* mutant: the page is not written back
UpdateTable_Unwritten ==
  /\ pc = "update" /\ InChain(tables)
  /\ \E k \in Matches :
       /\ IsFirst(k)
       /\ table_id' = ReadId(tables[page][k].id)
  /\ page' = 1
  /\ pc' = IF table_id' = 0 THEN "failure" ELSE "indexes"
  /\ UNCHANGED <<tables, indexes, job, runs>>

UpdateTable ==
  /\ pc = "update" /\ InChain(tables)
  /\ \E k \in Matches :
       /\ IsFirst(k)
       /\ tables' = [tables EXCEPT ![page] = WithSpace(@, {k})]
       /\ table_id' = ReadId(tables[page][k].id)
  /\ page' = 1
  /\ pc' = IF table_id' = 0 THEN "failure" ELSE "indexes"
  /\ UNCHANGED <<indexes, job, runs>>

NextTables ==
  /\ pc = "update" /\ InChain(tables) /\ Matches = {}
  /\ page' = page + 1
  /\ UNCHANGED <<dictionary, pc, job, table_id, runs>>

TableMissing ==
  /\ pc = "update" /\ ~ InChain(tables)
  /\ Exit("failure") /\ UNCHANGED <<dictionary, page>>

\* Third walk: every page of SYS_INDEXES is written back, changed or not.
\* mutant: the walk stops at the first page with a row of the table
UpdateIndexes_Once ==
  /\ pc = "indexes" /\ InChain(indexes)
  /\ indexes' = [indexes EXCEPT ![page] = WithSpace(@, IndexRows)]
  /\ page' = IF IndexRows = {} THEN page + 1 ELSE Len(indexes) + 1
  /\ UNCHANGED <<tables, pc, job, table_id, runs>>

UpdateIndexes ==
  /\ pc = "indexes" /\ InChain(indexes)
  /\ indexes' = [indexes EXCEPT ![page] = WithSpace(@, IndexRows)]
  /\ page' = page + 1
  /\ UNCHANGED <<tables, pc, job, table_id, runs>>

Finish ==
  /\ pc = "indexes" /\ ~ InChain(indexes)
  /\ Exit("success") /\ UNCHANGED <<dictionary, page>>

\* lseek or read fails, or read returns part of a page
ReadError ==
  /\ "read" \in Faults
  /\ \/ pc \in {"check", "update"} /\ InChain(tables)
     \/ pc = "indexes" /\ InChain(indexes)
  /\ Exit("failure") /\ UNCHANGED <<dictionary, page>>

\* write fails, or writes part of the page: some of the rows are changed
WriteError ==
  /\ "write" \in Faults
  /\ \/ /\ pc = "update" /\ InChain(tables)
        /\ \E k \in Matches : IsFirst(k)
        /\ \E S \in SUBSET {k \in Matches : IsFirst(k)} :
             tables' = [tables EXCEPT ![page] = WithSpace(@, S)]
        /\ UNCHANGED indexes
     \/ /\ pc = "indexes" /\ InChain(indexes)
        /\ \E S \in SUBSET IndexRows :
             indexes' = [indexes EXCEPT ![page] = WithSpace(@, S)]
        /\ UNCHANGED tables
  /\ Exit("failure") /\ UNCHANGED page

\* The process is stopped between two system calls.
Kill ==
  /\ "kill" \in Faults /\ pc \in Walking
  /\ Exit("killed") /\ UNCHANGED <<dictionary, page>>

NoMoreRuns == pc \in Ended /\ runs = MaxRuns /\ UNCHANGED vars

Run == \/ CheckPage \/ SpaceTaken \/ CheckDone
       \/ UpdateTable \/ NextTables \/ TableMissing
       \/ UpdateIndexes \/ Finish

Next == Start \/ Run \/ ReadError \/ WriteError \/ Kill \/ NoMoreRuns

\* A process that is not blocked is scheduled again.
Spec == Init /\ [][Next]_vars /\ WF_vars(Run)

-----------------------------------------------------------------------------
TypeOK ==
  /\ tables \in Seq(Seq(TableRow)) /\ indexes \in Seq(Seq(IndexRow))
  /\ pc \in {"idle"} \cup Walking \cup Ended
  /\ job \in Jobs
  /\ page \in Nat \ {0} /\ table_id \in Nat /\ runs \in 0 .. MaxRuns

\* No two tables are given one tablespace, however many runs there were and
\* wherever they stopped: the check of update_sys_tables stands for all the
\* rows its second walk can reach (lines 104 to 152).
TablesOwnSpaces == OwnSpaces(tables)

\* A run that exits with success leaves the row of the table and the rows of
\* all its indexes with the space id of the .ibd file: no page of the chain is
\* left out between update_sys_tables and the end of update_sys_indexes.
SuccessConnects ==
  pc = "success" =>
    /\ \E r \in Rows(tables) : LET t == tables[r[1]][r[2]] IN
         /\ t.name = job.name /\ t.space = job.space /\ ReadId(t.id) = table_id
    /\ \A r \in Rows(indexes) : LET i == indexes[r[1]][r[2]] IN
         ReadId(i.table_id) = table_id => i.space = job.space

\* A step rewrites the rows of one table only: in SYS_TABLES the one with the
\* name given, in SYS_INDEXES those of the id of a row with that name.
OneTableChanges ==
  [][/\ \A r \in Rows(tables) :
          tables'[r[1]][r[2]] # tables[r[1]][r[2]] => tables[r[1]][r[2]].name = job.name
     /\ \A r \in Rows(indexes) :
          indexes'[r[1]][r[2]] # indexes[r[1]][r[2]] =>
            \E t \in Rows(tables) : /\ tables[t[1]][t[2]].name = job.name
                                    /\ tables[t[1]][t[2]].id = indexes[r[1]][r[2]].table_id]_vars

\* SYS_INDEXES is never ahead of SYS_TABLES: an index row is only ever given a
\* space id that the row of its table holds already, so what a killed run
\* leaves behind is a table row without its index rows, never the reverse.
IndexesFollowTable ==
  [][\A r \in Rows(indexes) :
       indexes'[r[1]][r[2]] # indexes[r[1]][r[2]] =>
         \E t \in Rows(tables) :
           /\ tables[t[1]][t[2]].id = indexes[r[1]][r[2]].table_id
           /\ tables[t[1]][t[2]].space = indexes'[r[1]][r[2]].space]_vars

=============================================================================
