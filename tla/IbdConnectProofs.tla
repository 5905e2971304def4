-------------------------- MODULE IbdConnectProofs --------------------------
(***************************************************************************)
(* Theorems about IbdConnect, for every dictionary, every set of runs and  *)
(* every combination of faults.                                            *)
(***************************************************************************)
EXTENDS IbdConnect, TLAPS

\* The check walk has seen no row with the space id up to the page it is at,
\* and when the update walk begins it has seen none at all.
CheckHolds ==
  /\ pc = "check" => \A r \in Rows(tables) : r[1] < page => tables[r[1]][r[2]].space # job.space
  /\ pc = "update" => \A r \in Rows(tables) : tables[r[1]][r[2]].space # job.space

Connected(r) == /\ tables[r[1]][r[2]].name = job.name
                /\ tables[r[1]][r[2]].space = job.space
                /\ ReadId(tables[r[1]][r[2]].id) = table_id

\* From the end of the update walk on the row of the table has the space id,
\* and so has every row of its indexes up to the page the last walk is at.
ConnectHolds ==
  /\ pc \in {"indexes", "success"} => \E r \in Rows(tables) : Connected(r)
  /\ pc \in {"indexes", "success"} =>
       \A r \in Rows(indexes) :
         r[1] < page /\ ReadId(indexes[r[1]][r[2]].table_id) = table_id =>
           indexes[r[1]][r[2]].space = job.space
  /\ pc = "success" => ~ InChain(indexes)

IInv == TypeOK /\ TablesOwnSpaces /\ CheckHolds /\ ConnectHolds

-----------------------------------------------------------------------------
\* A place of a row is a page and a position in it.
LEMMA RowsOf ==
  ASSUME NEW T, NEW pages \in Seq(Seq(T))
  PROVE  /\ \A r \in Rows(pages) : /\ r[1] \in DOMAIN pages /\ r[2] \in DOMAIN pages[r[1]]
                                   /\ r = <<r[1], r[2]>> /\ r[1] \in Nat
                                   /\ pages[r[1]][r[2]] \in T
         /\ \A p \in DOMAIN pages : \A k \in DOMAIN pages[p] : <<p, k>> \in Rows(pages)
<1>1. ASSUME NEW r \in Rows(pages)
      PROVE  /\ r[1] \in DOMAIN pages /\ r[2] \in DOMAIN pages[r[1]]
             /\ r = <<r[1], r[2]>> /\ r[1] \in Nat
             /\ pages[r[1]][r[2]] \in T
  <2>1. PICK p \in DOMAIN pages : r \in {p} \X DOMAIN pages[p]
    BY DEF Rows
  <2>2. r[1] = p /\ r[2] \in DOMAIN pages[p] /\ r = <<r[1], r[2]>>
    BY <2>1
  <2>3. p \in 1 .. Len(pages) /\ pages[p] \in Seq(T)
    BY <2>1
  <2>4. pages[p][r[2]] \in T
    BY <2>2, <2>3
  <2> QED BY <2>2, <2>3, <2>4
<1>2. \A p \in DOMAIN pages : \A k \in DOMAIN pages[p] : <<p, k>> \in Rows(pages)
  BY DEF Rows
<1> QED BY <1>1, <1>2

Written(pages, new, S) ==
  /\ Rows(new) = Rows(pages)
  /\ \A r \in Rows(pages) :
       new[r[1]][r[2]] = IF r[1] = page /\ r[2] \in S THEN GivenSpace(pages[r[1]][r[2]])
                                                     ELSE pages[r[1]][r[2]]

\* Writing SPACE into some rows of a page keeps the places of all rows, and
\* every row but those is what it was.
LEMMA SpaceWritten ==
  ASSUME NEW T, NEW pages \in Seq(Seq(T)), page \in DOMAIN pages,
         NEW S, NEW new,
         \A row \in T : GivenSpace(row) \in T,
         new = [pages EXCEPT ![page] = WithSpace(@, S)]
  PROVE  new \in Seq(Seq(T)) /\ Written(pages, new, S)
<1> DEFINE rows == pages[page]
           out  == WithSpace(rows, S)
<1>1. rows \in Seq(T) /\ page \in 1 .. Len(pages)
  OBVIOUS
<1>2. out \in Seq(T) /\ DOMAIN out = DOMAIN rows
  <2>1. DOMAIN out = DOMAIN rows
    BY DEF WithSpace
  <2>2. \A k \in DOMAIN rows : out[k] \in T
    BY <1>1 DEF WithSpace
  <2>3. out \in [1 .. Len(rows) -> T]
    BY <1>1, <2>1, <2>2 DEF WithSpace
  <2>4. Len(rows) \in Nat
    BY <1>1
  <2>5. out \in Seq(T)
    <3> HIDE DEF out
    <3> QED BY <2>3, <2>4
  <2> QED BY <2>1, <2>5
<1>3. \A k \in DOMAIN rows : out[k] = IF k \in S THEN GivenSpace(rows[k]) ELSE rows[k]
  BY <1>1 DEF WithSpace
<1>4. new = [pages EXCEPT ![page] = out]
  OBVIOUS
<1>5. new \in Seq(Seq(T)) /\ DOMAIN new = DOMAIN pages
  <2> HIDE DEF out
  <2> QED BY <1>1, <1>2, <1>4
<1>6. \A p \in DOMAIN pages : DOMAIN new[p] = DOMAIN pages[p]
  <2> HIDE DEF out
  <2> QED BY <1>2, <1>4
<1>7. Rows(new) = Rows(pages)
  BY <1>5, <1>6 DEF Rows
<1>8. ASSUME NEW r \in Rows(pages)
      PROVE  new[r[1]][r[2]] = IF r[1] = page /\ r[2] \in S THEN GivenSpace(pages[r[1]][r[2]])
                                                           ELSE pages[r[1]][r[2]]
  <2>1. r[1] \in DOMAIN pages /\ r[2] \in DOMAIN pages[r[1]]
    BY RowsOf
  <2> HIDE DEF out
  <2> QED BY <1>1, <1>3, <1>4, <2>1
<1> QED BY <1>5, <1>7, <1>8 DEF Written

\* A row with a new space id is a row that differs in nothing else.
LEMMA SpaceGiven ==
  ASSUME job.space \in Spaces
  PROVE  /\ \A row \in TableRow : /\ GivenSpace(row) \in TableRow
                                  /\ GivenSpace(row).space = job.space
                                  /\ GivenSpace(row).name = row.name
                                  /\ GivenSpace(row).id = row.id
         /\ \A row \in IndexRow : /\ GivenSpace(row) \in IndexRow
                                  /\ GivenSpace(row).space = job.space
                                  /\ GivenSpace(row).table_id = row.table_id
BY DEF GivenSpace, TableRow, IndexRow

LEMMA ReadIdType == \A id \in Id : ReadId(id) \in Nat
<1> SUFFICES ASSUME NEW id \in Id PROVE ReadId(id) \in Nat
  OBVIOUS
<1> DEFINE h == id.high \div 2
           w == 2 * HalfWord
           c == IF id.high % 2 = 1 \/ id.low >= HalfWord THEN HalfWord ELSE 0
           l == id.low % HalfWord
<1>1. h \in Nat /\ w \in Nat /\ c \in Nat /\ l \in Nat
  BY WordAssumption DEF Id
<1>2. h * w \in Nat
  <2> HIDE DEF h, w
  <2> QED BY <1>1
<1>3. h * w + c + l \in Nat
  <2> HIDE DEF h, w, c, l
  <2> QED BY <1>1, <1>2
<1> QED BY <1>3 DEF ReadId

-----------------------------------------------------------------------------
\* What a step does to the two tables: nothing, or it writes SPACE into some
\* rows of the page the walk is at.
TableWrite == \E S \in SUBSET Matches :
                /\ pc = "update" /\ page \in DOMAIN tables
                /\ tables' = [tables EXCEPT ![page] = WithSpace(@, S)]
                /\ \A i, j \in S : i = j
                /\ UNCHANGED indexes

IndexWrite == \E S \in SUBSET IndexRows :
                /\ pc = "indexes" /\ page \in DOMAIN indexes
                /\ indexes' = [indexes EXCEPT ![page] = WithSpace(@, S)]
                /\ UNCHANGED tables

LEMMA OneRowFirst ==
  ASSUME TypeOK, page \in DOMAIN tables
  PROVE  \A i, j \in Matches : IsFirst(i) /\ IsFirst(j) => i = j
<1>1. tables[page] \in Seq(TableRow)
  BY DEF TypeOK
<1>2. Matches \subseteq Nat
  BY <1>1 DEF Matches
<1> QED BY <1>2 DEF IsFirst

LEMMA Writes ==
  ASSUME TypeOK, Next
  PROVE  UNCHANGED <<tables, indexes>> \/ TableWrite \/ IndexWrite
<1>1. CASE UpdateTable
  <2>1. page \in DOMAIN tables
    BY <1>1 DEF UpdateTable, InChain, TypeOK
  <2>2. PICK k \in Matches : IsFirst(k) /\ tables' = [tables EXCEPT ![page] = WithSpace(@, {k})]
    BY <1>1 DEF UpdateTable
  <2>3. pc = "update" /\ UNCHANGED indexes
    BY <1>1 DEF UpdateTable
  <2>4. {k} \in SUBSET Matches /\ \A i, j \in {k} : i = j
    OBVIOUS
  <2>5. TableWrite
    BY <2>1, <2>2, <2>3, <2>4, Zenon DEF TableWrite
  <2> QED BY <2>5
<1>2. CASE UpdateIndexes
  <2>1. page \in DOMAIN indexes
    BY <1>2 DEF UpdateIndexes, InChain, TypeOK
  <2>2. IndexRows \in SUBSET IndexRows
    OBVIOUS
  <2> QED BY <1>2, <2>1, <2>2, Zenon DEF UpdateIndexes, IndexWrite
<1>3. CASE WriteError
  <2>1. CASE pc = "update" /\ UNCHANGED indexes
    <3>1. page \in DOMAIN tables
      BY <1>3, <2>1 DEF WriteError, InChain, TypeOK
    <3>2. PICK S \in SUBSET {k \in Matches : IsFirst(k)} :
            tables' = [tables EXCEPT ![page] = WithSpace(@, S)]
      BY <1>3, <2>1 DEF WriteError
    <3>3. \A i, j \in S : i = j
      BY <3>1, OneRowFirst
    <3> QED BY <2>1, <3>1, <3>2, <3>3 DEF TableWrite
  <2>2. CASE pc = "indexes" /\ UNCHANGED tables
    BY <1>3, <2>2 DEF WriteError, IndexWrite, InChain, TypeOK
  <2>3. \/ pc = "update" /\ UNCHANGED indexes
        \/ pc = "indexes" /\ UNCHANGED tables
    BY <1>3, Zenon DEF WriteError
  <2> QED BY <2>1, <2>2, <2>3
<1>4. Start \/ CheckPage \/ SpaceTaken \/ CheckDone \/ NextTables \/ TableMissing \/ Finish
        \/ ReadError \/ Kill \/ NoMoreRuns => UNCHANGED <<tables, indexes>>
  BY DEF Start, CheckPage, SpaceTaken, CheckDone, NextTables, TableMissing, Finish, ReadError,
         Kill, NoMoreRuns, dictionary, vars
<1> QED BY <1>1, <1>2, <1>3, <1>4 DEF Next, Run

LEMMA TypeStep ==
  ASSUME TypeOK, [Next]_vars
  PROVE  TypeOK'
<1> USE JobsAssumption
<1>1. CASE UNCHANGED vars
  BY <1>1 DEF TypeOK, vars, dictionary
<1>2. CASE Next
  <2>1. tables' \in Seq(Seq(TableRow)) /\ indexes' \in Seq(Seq(IndexRow))
    <3>1. job.space \in Spaces
      BY DEF TypeOK
    <3>2. CASE TableWrite
      <4>1. PICK S \in SUBSET Matches : tables' = [tables EXCEPT ![page] = WithSpace(@, S)]
        BY <3>2 DEF TableWrite
      <4>2. page \in DOMAIN tables /\ tables \in Seq(Seq(TableRow))
        BY <3>2 DEF TableWrite, TypeOK
      <4>3. tables' \in Seq(Seq(TableRow))
        BY <3>1, <4>1, <4>2, SpaceGiven, SpaceWritten
      <4> QED BY <3>2, <4>3 DEF TableWrite, TypeOK
    <3>3. CASE IndexWrite
      <4>1. PICK S \in SUBSET IndexRows : indexes' = [indexes EXCEPT ![page] = WithSpace(@, S)]
        BY <3>3 DEF IndexWrite
      <4>2. page \in DOMAIN indexes /\ indexes \in Seq(Seq(IndexRow))
        BY <3>3 DEF IndexWrite, TypeOK
      <4>3. indexes' \in Seq(Seq(IndexRow))
        BY <3>1, <4>1, <4>2, SpaceGiven, SpaceWritten
      <4> QED BY <3>3, <4>3 DEF IndexWrite, TypeOK
    <3>4. CASE UNCHANGED <<tables, indexes>>
      BY <3>4 DEF TypeOK
    <3> QED BY <1>2, <3>2, <3>3, <3>4, Writes
  <2>2. table_id' \in Nat
    <3>1. CASE UpdateTable
      <4>1. PICK k \in Matches : table_id' = ReadId(tables[page][k].id)
        BY <3>1 DEF UpdateTable
      <4>2. page \in DOMAIN tables /\ k \in DOMAIN tables[page]
        BY <3>1, <4>1 DEF UpdateTable, InChain, TypeOK, Matches
      <4>3. tables[page] \in Seq(TableRow)
        BY <4>2 DEF TypeOK
      <4>4. tables[page][k] \in TableRow
        BY <4>2, <4>3
      <4>5. tables[page][k].id \in Id
        BY <4>4 DEF TableRow
      <4> QED BY <4>1, <4>5, ReadIdType
    <3> QED BY <1>2, <3>1 DEF TypeOK, Next, Run, Start, CheckPage, SpaceTaken, CheckDone, NextTables,
           TableMissing, UpdateIndexes, Finish, ReadError, WriteError, Kill, NoMoreRuns, Exit, vars
  <2>3. /\ pc' \in {"idle"} \cup Walking \cup Ended
        /\ job' \in Jobs /\ page' \in Nat \ {0} /\ runs' \in 0 .. MaxRuns
    BY <1>2 DEF TypeOK, Next, Run, Start, CheckPage, SpaceTaken, CheckDone, NextTables, UpdateTable,
           TableMissing, UpdateIndexes, Finish, ReadError, WriteError, Kill, NoMoreRuns, Exit, vars,
           Walking, Ended
  <2> QED BY <2>1, <2>2, <2>3 DEF TypeOK
<1> QED BY <1>1, <1>2

\* Every state has the variables in their types, and the ids read back from
\* the dictionary are numbers whatever the words they were put together from.
THEOREM TypeCorrect == Spec => []TypeOK
<1>1. Init => TypeOK
  BY DictionaryAssumption, JobsAssumption DEF Init, TypeOK, Dictionary
<1> QED BY <1>1, TypeStep, PTL DEF Spec

-----------------------------------------------------------------------------
\* What TableWrite and IndexWrite leave in every row.
LEMMA TableWritten ==
  ASSUME TypeOK, TableWrite
  PROVE  /\ Rows(tables') = Rows(tables)
         /\ \E S \in SUBSET Matches :
              /\ \A i, j \in S : i = j
              /\ \A r \in Rows(tables) :
                   /\ tables'[r[1]][r[2]].name = tables[r[1]][r[2]].name
                   /\ tables'[r[1]][r[2]].id = tables[r[1]][r[2]].id
                   /\ tables'[r[1]][r[2]].space =
                        IF r[1] = page /\ r[2] \in S THEN job.space ELSE tables[r[1]][r[2]].space
                   /\ tables'[r[1]][r[2]] = 
                        IF r[1] = page /\ r[2] \in S THEN GivenSpace(tables[r[1]][r[2]])
                                                     ELSE tables[r[1]][r[2]]
<1>0. job.space \in Spaces
  BY JobsAssumption DEF TypeOK
<1>1. PICK S \in SUBSET Matches : /\ tables' = [tables EXCEPT ![page] = WithSpace(@, S)]
                                  /\ \A i, j \in S : i = j
  BY DEF TableWrite
<1>a. \A row \in TableRow : GivenSpace(row) \in TableRow
  BY <1>0, SpaceGiven
<1>2. page \in DOMAIN tables /\ tables \in Seq(Seq(TableRow))
  BY DEF TableWrite, TypeOK
<1>3. Written(tables, tables', S)
  <2>1. ASSUME NEW new, new = [tables EXCEPT ![page] = WithSpace(@, S)]
        PROVE  Written(tables, new, S)
    BY <1>a, <1>2, <2>1, SpaceWritten
  <2> QED BY <1>1, <2>1
<1>4. \A r \in Rows(tables) : tables[r[1]][r[2]] \in TableRow
  BY <1>2, RowsOf
<1>5. \A r \in Rows(tables) :
        /\ tables'[r[1]][r[2]].name = tables[r[1]][r[2]].name
        /\ tables'[r[1]][r[2]].id = tables[r[1]][r[2]].id
        /\ tables'[r[1]][r[2]].space =
             IF r[1] = page /\ r[2] \in S THEN job.space ELSE tables[r[1]][r[2]].space
  BY <1>0, <1>3, <1>4, SpaceGiven DEF Written
<1> QED BY <1>1, <1>3, <1>5 DEF Written

LEMMA IndexWritten ==
  ASSUME TypeOK, IndexWrite
  PROVE  /\ Rows(indexes') = Rows(indexes)
         /\ \E S \in SUBSET IndexRows :
              /\ indexes' = [indexes EXCEPT ![page] = WithSpace(@, S)]
              /\ \A r \in Rows(indexes) :
                   /\ indexes'[r[1]][r[2]].table_id = indexes[r[1]][r[2]].table_id
                   /\ indexes'[r[1]][r[2]].space =
                        IF r[1] = page /\ r[2] \in S THEN job.space ELSE indexes[r[1]][r[2]].space
<1>0. job.space \in Spaces
  BY JobsAssumption DEF TypeOK
<1>1. PICK S \in SUBSET IndexRows : indexes' = [indexes EXCEPT ![page] = WithSpace(@, S)]
  BY DEF IndexWrite
<1>a. \A row \in IndexRow : GivenSpace(row) \in IndexRow
  BY <1>0, SpaceGiven
<1>2. page \in DOMAIN indexes /\ indexes \in Seq(Seq(IndexRow))
  BY DEF IndexWrite, TypeOK
<1>3. Written(indexes, indexes', S)
  <2>1. ASSUME NEW new, new = [indexes EXCEPT ![page] = WithSpace(@, S)]
        PROVE  Written(indexes, new, S)
    BY <1>a, <1>2, <2>1, SpaceWritten
  <2> QED BY <1>1, <2>1
<1>4. \A r \in Rows(indexes) : indexes[r[1]][r[2]] \in IndexRow
  BY <1>2, RowsOf
<1>5. \A r \in Rows(indexes) :
        /\ indexes'[r[1]][r[2]].table_id = indexes[r[1]][r[2]].table_id
        /\ indexes'[r[1]][r[2]].space =
             IF r[1] = page /\ r[2] \in S THEN job.space ELSE indexes[r[1]][r[2]].space
  BY <1>0, <1>3, <1>4, SpaceGiven DEF Written
<1> QED BY <1>1, <1>3, <1>5 DEF Written

\* The row that gets the space id is the only one that has it afterwards.
LEMMA SpacesStep ==
  ASSUME TypeOK, TablesOwnSpaces, CheckHolds, [Next]_vars
  PROVE  TablesOwnSpaces'
<1>1. CASE UNCHANGED <<tables, indexes>>
  BY <1>1 DEF TablesOwnSpaces
<1>2. CASE IndexWrite
  BY <1>2 DEF TablesOwnSpaces, IndexWrite
<1>3. CASE TableWrite
  <2>1. PICK S \in SUBSET Matches :
          /\ \A i, j \in S : i = j
          /\ \A r \in Rows(tables) :
               tables'[r[1]][r[2]].space =
                 IF r[1] = page /\ r[2] \in S THEN job.space ELSE tables[r[1]][r[2]].space
    BY <1>3, TableWritten
  <2>2. SUFFICES ASSUME NEW r \in Rows(tables), NEW s \in Rows(tables),
                        tables'[r[1]][r[2]].space = tables'[s[1]][s[2]].space
                 PROVE  r = s \/ tables'[r[1]][r[2]].space = 0
    BY <1>3, TableWritten DEF TablesOwnSpaces, OwnSpaces
  <2>3. /\ tables[r[1]][r[2]].space # job.space
        /\ tables[s[1]][s[2]].space # job.space
    BY <1>3 DEF CheckHolds, TableWrite
  <2>4. r = <<r[1], r[2]>> /\ s = <<s[1], s[2]>>
    BY RowsOf DEF TypeOK
  <2>5. CASE r[1] = page /\ r[2] \in S /\ s[1] = page /\ s[2] \in S
    BY <2>1, <2>4, <2>5
  <2>6. CASE ~ (r[1] = page /\ r[2] \in S) /\ ~ (s[1] = page /\ s[2] \in S)
    BY <2>1, <2>2, <2>6 DEF TablesOwnSpaces, OwnSpaces
  <2> QED BY <2>1, <2>2, <2>3, <2>5, <2>6
<1> QED BY <1>1, <1>2, <1>3, Writes DEF vars, dictionary

LEMMA CheckStep ==
  ASSUME TypeOK, CheckHolds, [Next]_vars
  PROVE  CheckHolds'
<1>0. \A r \in Rows(tables) : /\ r[1] \in DOMAIN tables /\ r[2] \in DOMAIN tables[r[1]]
                              /\ r[1] \in Nat \ {0}
  <2>1. tables \in Seq(Seq(TableRow))
    BY DEF TypeOK
  <2>2. DOMAIN tables = 1 .. Len(tables) /\ Len(tables) \in Nat
    BY <2>1
  <2> QED BY <2>1, <2>2, RowsOf
<1>1. CASE Start
  <2>1. pc' = "check" /\ page' = 1 /\ tables' = tables
    BY <1>1 DEF Start, dictionary
  <2>2. \A r \in Rows(tables) : ~ (r[1] < 1)
    BY <1>0
  <2> QED BY <2>1, <2>2 DEF CheckHolds
<1>2. CASE CheckPage
  <2>1. /\ pc = "check" /\ pc' = "check" /\ page' = page + 1 /\ tables' = tables /\ job' = job
        /\ \A k \in DOMAIN tables[page] : tables[page][k].space # job.space
    BY <1>2 DEF CheckPage, dictionary, SpaceUsed
  <2>2. ASSUME NEW r \in Rows(tables), r[1] < page + 1
        PROVE  tables[r[1]][r[2]].space # job.space
    <3>1. r[1] < page \/ r[1] = page
      BY <1>0, <2>2 DEF TypeOK
    <3> QED BY <1>0, <2>1, <3>1 DEF CheckHolds
  <2> QED BY <2>1, <2>2 DEF CheckHolds
<1>3. CASE CheckDone
  <2>1. /\ pc = "check" /\ pc' = "update" /\ tables' = tables /\ job' = job
        /\ page \notin 1 .. Len(tables)
    BY <1>3 DEF CheckDone, dictionary, InChain
  <2>2. \A r \in Rows(tables) : r[1] < page
    <3>1. tables \in Seq(Seq(TableRow)) /\ page \in Nat \ {0}
      BY DEF TypeOK
    <3>2. DOMAIN tables = 1 .. Len(tables) /\ Len(tables) \in Nat
      BY <3>1
    <3>3. page > Len(tables)
      BY <2>1, <3>1, <3>2
    <3> QED BY <1>0, <3>1, <3>2, <3>3
  <2> QED BY <2>1, <2>2 DEF CheckHolds
<1>4. CASE NextTables \/ UNCHANGED vars
  BY <1>4 DEF NextTables, CheckHolds, vars, dictionary
<1>5. CASE SpaceTaken \/ UpdateTable \/ TableMissing \/ UpdateIndexes \/ Finish \/ ReadError
             \/ WriteError \/ Kill \/ NoMoreRuns
  <2>1. pc' \notin {"check", "update"}
    BY <1>5 DEF SpaceTaken, UpdateTable, TableMissing, UpdateIndexes, Finish, ReadError,
           WriteError, Kill, NoMoreRuns, Exit, Ended, vars
  <2> QED BY <2>1 DEF CheckHolds
<1> QED BY <1>1, <1>2, <1>3, <1>4, <1>5 DEF Next, Run

LEMMA ConnectStep ==
  ASSUME TypeOK, ConnectHolds, [Next]_vars
  PROVE  ConnectHolds'
<1>0. /\ \A r \in Rows(tables) : r[1] \in DOMAIN tables /\ r[2] \in DOMAIN tables[r[1]]
      /\ \A r \in Rows(indexes) : /\ r[1] \in DOMAIN indexes /\ r[2] \in DOMAIN indexes[r[1]]
                                  /\ r[1] \in Nat \ {0}
  <2>1. tables \in Seq(Seq(TableRow)) /\ indexes \in Seq(Seq(IndexRow))
    BY DEF TypeOK
  <2>2. DOMAIN indexes = 1 .. Len(indexes) /\ Len(indexes) \in Nat
    BY <2>1
  <2> QED BY <2>1, <2>2, RowsOf
<1>1. CASE UpdateTable
  <2>1. PICK k \in Matches : /\ tables' = [tables EXCEPT ![page] = WithSpace(@, {k})]
                             /\ table_id' = ReadId(tables[page][k].id)
    BY <1>1 DEF UpdateTable
  <2>2. /\ page \in DOMAIN tables /\ k \in DOMAIN tables[page]
        /\ tables[page][k].name = job.name
    BY <1>1 DEF UpdateTable, InChain, TypeOK, Matches
  <2>3. tables[page] \in Seq(TableRow) /\ job.space \in Spaces
    BY <2>2, JobsAssumption DEF TypeOK
  <2>4. tables[page][k] \in TableRow
    BY <2>2, <2>3
  <2>5. tables'[page][k] = GivenSpace(tables[page][k])
    <3>1. tables'[page] = WithSpace(tables[page], {k})
      BY <2>1, <2>2 DEF TypeOK
    <3> QED BY <2>2, <3>1 DEF WithSpace
  <2>6. /\ job' = job /\ page' = 1 /\ indexes' = indexes
        /\ pc' \in {"failure", "indexes"}
    BY <1>1 DEF UpdateTable
  <2>7. Rows(tables') = Rows(tables)
    <3>1. TableWrite
      <4>1. pc = "update" /\ {k} \in SUBSET Matches /\ \A i, j \in {k} : i = j
        BY <1>1 DEF UpdateTable
      <4> QED BY <2>1, <2>2, <2>6, <4>1, Zenon DEF TableWrite
    <3> QED BY <3>1, TableWritten
  <2>8. <<page, k>> \in Rows(tables)
    BY <2>2 DEF Rows
  <2>9. /\ tables'[page][k].name = job.name /\ tables'[page][k].space = job.space
        /\ ReadId(tables'[page][k].id) = table_id'
    BY <2>1, <2>2, <2>3, <2>4, <2>5, SpaceGiven
  <2>10. \A r \in Rows(indexes) : ~ (r[1] < 1)
    BY <1>0
  <2>11. (\E r \in Rows(tables) : Connected(r))'
    <3>1. ASSUME NEW r, r = <<page, k>>
          PROVE  Connected(r)'
      BY <2>6, <2>9, <3>1 DEF Connected
    <3>2. PICK r \in Rows(tables) : r = <<page, k>>
      BY <2>8
    <3>3. r \in Rows(tables') /\ Connected(r)'
      BY <2>7, <3>1, <3>2
    <3> QED BY <3>3
  <2> QED BY <2>6, <2>10, <2>11 DEF ConnectHolds
<1>2. CASE UpdateIndexes
  <2>1. /\ pc = "indexes" /\ pc' = "indexes" /\ tables' = tables /\ job' = job
        /\ table_id' = table_id /\ page' = page + 1 /\ page \in Nat \ {0}
        /\ page \in DOMAIN indexes
        /\ indexes' = [indexes EXCEPT ![page] = WithSpace(@, IndexRows)]
    BY <1>2 DEF UpdateIndexes, InChain, TypeOK
  <2>2. IndexWrite
    <3>1. IndexRows \in SUBSET IndexRows
      OBVIOUS
    <3> QED BY <2>1, <3>1, Zenon DEF IndexWrite
  <2>3. \E r \in Rows(tables) : Connected(r)
    BY <2>1 DEF ConnectHolds
  <2>4. \A r \in Rows(tables) : Connected(r) => Connected(r)'
    BY <2>1 DEF Connected
  <2>5. indexes \in Seq(Seq(IndexRow)) /\ job.space \in Spaces
    BY JobsAssumption DEF TypeOK
  <2>6. Written(indexes, indexes', IndexRows)
    <3>1. \A row \in IndexRow : GivenSpace(row) \in IndexRow
      BY <2>5, SpaceGiven
    <3>2. ASSUME NEW new, new = [indexes EXCEPT ![page] = WithSpace(@, IndexRows)]
          PROVE  Written(indexes, new, IndexRows)
      BY <2>1, <2>5, <3>1, <3>2, SpaceWritten
    <3> QED BY <2>1, <3>2
  <2>7. ASSUME NEW r \in Rows(indexes'), r[1] < page + 1,
               ReadId(indexes'[r[1]][r[2]].table_id) = table_id
        PROVE  indexes'[r[1]][r[2]].space = job.space
    <3>1. r \in Rows(indexes) /\ indexes[r[1]][r[2]] \in IndexRow
      BY <2>5, <2>6, RowsOf DEF Written
    <3>2. CASE r[1] = page /\ r[2] \in IndexRows
      BY <2>5, <2>6, <3>1, <3>2, SpaceGiven DEF Written
    <3>3. CASE ~ (r[1] = page /\ r[2] \in IndexRows)
      <4>1. indexes'[r[1]][r[2]] = indexes[r[1]][r[2]]
        BY <2>6, <3>1, <3>3 DEF Written
      <4>2. r[1] # page
        BY <1>0, <2>7, <3>1, <3>3, <4>1 DEF IndexRows
      <4>3. r[1] < page
        BY <1>0, <2>1, <2>7, <3>1, <4>2
      <4> QED BY <2>1, <2>7, <3>1, <4>1, <4>3 DEF ConnectHolds
    <3> QED BY <3>2, <3>3
  <2> QED BY <2>1, <2>3, <2>4, <2>7 DEF ConnectHolds
<1>3. CASE Finish \/ NoMoreRuns \/ UNCHANGED vars
  <2>1. /\ tables' = tables /\ indexes' = indexes /\ job' = job /\ page' = page
        /\ table_id' = table_id
    BY <1>3 DEF Finish, NoMoreRuns, Exit, dictionary, vars
  <2>2. \/ pc = "indexes" /\ pc' = "success" /\ ~ InChain(indexes)
        \/ pc' = pc
    BY <1>3 DEF Finish, NoMoreRuns, Exit, vars
  <2> QED BY <2>1, <2>2 DEF ConnectHolds, Connected, InChain
<1>4. CASE Start \/ CheckPage \/ SpaceTaken \/ CheckDone \/ NextTables \/ TableMissing \/ ReadError
             \/ WriteError \/ Kill
  <2>1. pc' \notin {"indexes", "success"}
    BY <1>4 DEF Start, CheckPage, SpaceTaken, CheckDone, NextTables, TableMissing, ReadError,
           WriteError, Kill, Exit
  <2> QED BY <2>1 DEF ConnectHolds
<1> QED BY <1>1, <1>2, <1>3, <1>4 DEF Next, Run

LEMMA Inductive == Spec => []IInv
<1>1. Init => IInv
  <2> SUFFICES ASSUME Init PROVE IInv
    OBVIOUS
  <2>1. TypeOK /\ TablesOwnSpaces
    BY DictionaryAssumption, JobsAssumption DEF Init, TypeOK, TablesOwnSpaces, Dictionary
  <2> QED BY <2>1 DEF Init, IInv, CheckHolds, ConnectHolds
<1>2. IInv /\ [Next]_vars => IInv'
  BY TypeStep, SpacesStep, CheckStep, ConnectStep DEF IInv
<1> QED BY <1>1, <1>2, PTL DEF Spec

\* However many runs there were, and whether they ended, failed half-way through
\* a write or were killed, no two tables have the same tablespace (0 apart): the
\* check walk of update_sys_tables covers what its update walk writes.
THEOREM NoSharedSpace == Spec => []TablesOwnSpaces
<1>1. IInv => TablesOwnSpaces
  BY DEF IInv
<1> QED BY <1>1, Inductive, PTL

\* A run that ends with success has connected the table: its row and all the
\* rows of its indexes that the walks come to hold the id of the .ibd file.
THEOREM SuccessMeansConnected == Spec => []SuccessConnects
<1>1. IInv => SuccessConnects
  <2> SUFFICES ASSUME IInv, pc = "success"
               PROVE  /\ \E r \in Rows(tables) : Connected(r)
                      /\ \A r \in Rows(indexes) :
                           ReadId(indexes[r[1]][r[2]].table_id) = table_id =>
                             indexes[r[1]][r[2]].space = job.space
    BY DEF SuccessConnects, Connected
  <2>1. indexes \in Seq(Seq(IndexRow)) /\ page \in Nat \ {0} /\ ~ InChain(indexes)
    BY DEF IInv, TypeOK, ConnectHolds
  <2>2. DOMAIN indexes = 1 .. Len(indexes) /\ Len(indexes) \in Nat
    BY <2>1
  <2>3. page > Len(indexes)
    BY <2>1, <2>2 DEF InChain
  <2>4. \A r \in Rows(indexes) : r[1] \in DOMAIN indexes
    BY <2>1, RowsOf
  <2>5. \A r \in Rows(indexes) : r[1] < page
    BY <2>1, <2>2, <2>3, <2>4
  <2> QED BY <2>5 DEF IInv, ConnectHolds
<1> QED BY <1>1, Inductive, PTL

-----------------------------------------------------------------------------
\* An index belongs to a table if their ids are read as the same number: of two
\* different ids that is so only where mach_read_from_8 confuses them.
IdsApart(pages, ipages) ==
  \A t \in Rows(pages), r \in Rows(ipages) :
    ReadId(ipages[r[1]][r[2]].table_id) = ReadId(pages[t[1]][t[2]].id) =>
      ipages[r[1]][r[2]].table_id = pages[t[1]][t[2]].id

\* Ids that fit into one word are read as they are, and so kept apart.
LEMMA ShortId ==
  ASSUME NEW id \in Id, id.high = 0
  PROVE  ReadId(id) = id.low
<1>1. id.low \in 0 .. 2 * HalfWord - 1 /\ HalfWord \in Nat \ {0}
  BY WordAssumption DEF Id
<1>2. 0 \div 2 = 0 /\ 0 % 2 = 0 /\ 0 * (2 * HalfWord) = 0
  BY <1>1
<1>3. ReadId(id) = (IF id.low >= HalfWord THEN HalfWord ELSE 0) + (id.low % HalfWord)
  <2> DEFINE c == IF id.low >= HalfWord THEN HalfWord ELSE 0
  <2>1. ReadId(id) = 0 + c + (id.low % HalfWord)
    BY <1>2 DEF ReadId
  <2>2. c \in Int /\ id.low % HalfWord \in Int
    BY <1>1
  <2> QED BY <2>1, <2>2
<1>4. CASE id.low < HalfWord
  <2>1. id.low % HalfWord = id.low
    BY <1>1, <1>4
  <2> QED BY <1>1, <1>3, <1>4, <2>1
<1>5. CASE id.low >= HalfWord
  <2>1. id.low % HalfWord = id.low - HalfWord
    BY <1>1, <1>5
  <2> QED BY <1>1, <1>3, <1>5, <2>1
<1> QED BY <1>1, <1>4, <1>5

LEMMA ApartStep ==
  ASSUME TypeOK, IdsApart(tables, indexes), [Next]_vars
  PROVE  IdsApart(tables', indexes')
<1>1. CASE UNCHANGED <<tables, indexes>>
  BY <1>1 DEF IdsApart
<1>2. CASE TableWrite
  <2>1. Rows(tables') = Rows(tables) /\ indexes' = indexes
    BY <1>2, TableWritten DEF TableWrite
  <2>2. \A t \in Rows(tables) : tables'[t[1]][t[2]].id = tables[t[1]][t[2]].id
    BY <1>2, TableWritten
  <2> QED BY <2>1, <2>2 DEF IdsApart
<1>3. CASE IndexWrite
  <2>1. Rows(indexes') = Rows(indexes) /\ tables' = tables
    BY <1>3, IndexWritten DEF IndexWrite
  <2>2. \A r \in Rows(indexes) : indexes'[r[1]][r[2]].table_id = indexes[r[1]][r[2]].table_id
    BY <1>3, IndexWritten
  <2> QED BY <2>1, <2>2 DEF IdsApart
<1> QED BY <1>1, <1>2, <1>3, Writes DEF vars, dictionary

\* A step that changes a row of SYS_INDEXES gives it the space id of the job,
\* and its table is the one of the job, whose row has that space id already.
LEMMA IndexChange ==
  ASSUME TypeOK, ConnectHolds, IdsApart(tables, indexes), [Next]_vars,
         NEW r \in Rows(indexes), indexes'[r[1]][r[2]] # indexes[r[1]][r[2]]
  PROVE  \E t \in Rows(tables) :
           /\ tables[t[1]][t[2]].name = job.name
           /\ tables[t[1]][t[2]].id = indexes[r[1]][r[2]].table_id
           /\ tables[t[1]][t[2]].space = indexes'[r[1]][r[2]].space
<1>1. IndexWrite
  BY Writes DEF TableWrite, vars, dictionary
<1>2. PICK S \in SUBSET IndexRows :
        /\ indexes'[r[1]][r[2]].table_id = indexes[r[1]][r[2]].table_id
        /\ indexes'[r[1]][r[2]].space =
             IF r[1] = page /\ r[2] \in S THEN job.space ELSE indexes[r[1]][r[2]].space
  BY <1>1, IndexWritten
<1>3. indexes[r[1]][r[2]] \in IndexRow /\ indexes'[r[1]][r[2]] \in IndexRow
  <2>1. indexes \in Seq(Seq(IndexRow)) /\ indexes' \in Seq(Seq(IndexRow))
    BY TypeStep DEF TypeOK
  <2>2. r \in Rows(indexes')
    BY <1>1, IndexWritten
  <2>3. indexes[r[1]][r[2]] \in IndexRow
    BY <2>1, RowsOf
  <2>4. \A pages \in Seq(Seq(IndexRow)) : r \in Rows(pages) => pages[r[1]][r[2]] \in IndexRow
    BY RowsOf
  <2> QED BY <2>1, <2>2, <2>3, <2>4
<1>4. r[1] = page /\ r[2] \in S
  BY <1>2, <1>3 DEF IndexRow
<1>5. ReadId(indexes[r[1]][r[2]].table_id) = table_id
  BY <1>2, <1>4 DEF IndexRows
<1>6. PICK t \in Rows(tables) : Connected(t)
  BY <1>1 DEF IndexWrite, ConnectHolds
<1> QED BY <1>2, <1>4, <1>5, <1>6 DEF Connected, IdsApart

LEMMA Apart ==
  ASSUME \A d \in Dictionaries : IdsApart(d.tables, d.indexes)
  PROVE  Spec => []IdsApart(tables, indexes)
<1>1. Init => IdsApart(tables, indexes)
  BY DEF Init
<1>2. TypeOK /\ IdsApart(tables, indexes) /\ [Next]_vars => IdsApart(tables, indexes)'
  BY ApartStep
<1> QED BY <1>1, <1>2, TypeCorrect, PTL DEF Spec

\* In a dictionary whose ids are not confused, a step changes rows of no table
\* but the one named on the command line, in either of the two tables.
THEOREM OneTableOnly ==
  ASSUME \A d \in Dictionaries : IdsApart(d.tables, d.indexes)
  PROVE  Spec => OneTableChanges
<1> DEFINE Own ==
      /\ \A r \in Rows(tables) :
           tables'[r[1]][r[2]] # tables[r[1]][r[2]] => tables[r[1]][r[2]].name = job.name
      /\ \A r \in Rows(indexes) :
           indexes'[r[1]][r[2]] # indexes[r[1]][r[2]] =>
             \E t \in Rows(tables) : /\ tables[t[1]][t[2]].name = job.name
                                     /\ tables[t[1]][t[2]].id = indexes[r[1]][r[2]].table_id
<1>1. IInv /\ IdsApart(tables, indexes) /\ [Next]_vars => [Own]_vars
  <2> SUFFICES ASSUME IInv, IdsApart(tables, indexes), [Next]_vars PROVE Own
    OBVIOUS
  <2>1. ASSUME NEW r \in Rows(tables), tables'[r[1]][r[2]] # tables[r[1]][r[2]]
        PROVE  tables[r[1]][r[2]].name = job.name
    <3>1. TypeOK /\ TableWrite
      BY <2>1, Writes DEF IInv, IndexWrite, vars, dictionary
    <3>2. PICK S \in SUBSET Matches :
            tables'[r[1]][r[2]] = IF r[1] = page /\ r[2] \in S THEN GivenSpace(tables[r[1]][r[2]])
                                                               ELSE tables[r[1]][r[2]]
      BY <3>1, TableWritten
    <3> QED BY <2>1, <3>2 DEF Matches
  <2>2. ASSUME NEW r \in Rows(indexes), indexes'[r[1]][r[2]] # indexes[r[1]][r[2]]
        PROVE  \E t \in Rows(tables) : /\ tables[t[1]][t[2]].name = job.name
                                       /\ tables[t[1]][t[2]].id = indexes[r[1]][r[2]].table_id
    BY <2>2, IndexChange DEF IInv
  <2> QED BY <2>1, <2>2
<1> QED BY <1>1, Apart, Inductive, PTL DEF Spec, OneTableChanges

\* In such a dictionary an index row is only given a space id that the row of its
\* table has: a run that is killed never leaves SYS_INDEXES ahead of SYS_TABLES.
THEOREM IndexesAfterTable ==
  ASSUME \A d \in Dictionaries : IdsApart(d.tables, d.indexes)
  PROVE  Spec => IndexesFollowTable
<1> DEFINE Follow ==
      \A r \in Rows(indexes) :
        indexes'[r[1]][r[2]] # indexes[r[1]][r[2]] =>
          \E t \in Rows(tables) :
            /\ tables[t[1]][t[2]].id = indexes[r[1]][r[2]].table_id
            /\ tables[t[1]][t[2]].space = indexes'[r[1]][r[2]].space
<1>1. IInv /\ IdsApart(tables, indexes) /\ [Next]_vars => [Follow]_vars
  BY IndexChange DEF IInv
<1> QED BY <1>1, Apart, Inductive, PTL DEF Spec, IndexesFollowTable
=============================================================================
