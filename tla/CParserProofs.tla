--------------------------- MODULE CParserProofs ----------------------------
(***************************************************************************)
(* Theorems about CParser, for pages of any size, any pointers, any number *)
(* of pages and files, and every option.                                   *)
(***************************************************************************)
EXTENDS CParser, FiniteSetTheorems, TLAPS

DumpRow == [page : Nat, at : Position, leaf : BOOLEAN]

\* TypeOK, with where the pages come from; the walk of check_page starts at infimum.
Typed ==
  /\ options \in OptionSets /\ left \subseteq UNION Directories /\ file \in Seq(AllPages)
  /\ page \in AllPages \cup {NoPage}
  /\ pc \in {"open", "read", "check", "start", "walk", "blob", "status", "exit"}
  /\ p \in Int16 /\ p_prev \in Int16 /\ recs \in 0 .. MaxRecs + 1
  /\ is_page_valid \in BOOLEAN /\ expected_records \in Nat
  /\ offset \in Int /\ actual_records \in Nat /\ visited \subseteq Position
  /\ dump \in Seq(DumpRow)
  /\ page_no \in Nat /\ extern_len \in Nat /\ len_sum \in Nat
  /\ records_expected_total \in Nat /\ records_dumped_total \in Nat
  /\ records_lost \in BOOLEAN
  /\ pc = "check" /\ recs = 0 => p = Infimum

-----------------------------------------------------------------------------
LEMMA PageTyped ==
  ASSUME page \in AllPages \cup {NoPage}
  PROVE  IsPage(page)
<1>1. CASE page \in AllPages
  BY <1>1, InputAssumption
<1>2. CASE page = NoPage
  <2>1. NoPage.next \in [Position -> Int16]
    BY LayoutAssumption DEF NoPage, Position, Int16
  <2>2. DOMAIN NoPage.rows = {}
    BY DEF NoPage
  <2> QED BY <1>2, <2>1, <2>2 DEF IsPage, NoPage
<1> QED BY <1>1, <1>2

LEMMA MaxRecsType == MaxRecs \in Nat
BY LayoutAssumption DEF MaxRecs

LEMMA ToInt16Type == ASSUME NEW x \in Int PROVE ToInt16(x) \in Int16
<1>1. 2 * Half \in Nat /\ 2 * Half > 0
  BY LayoutAssumption
<1>2. (x + Half) % (2 * Half) \in 0 .. 2 * Half - 1
  BY <1>1, LayoutAssumption
<1> QED BY <1>2, LayoutAssumption DEF ToInt16, Int16

\* The position check_page goes to is an int16_t.
LEMMA NextRecordType ==
  ASSUME IsPage(page), NEW q \in Position
  PROVE  NextRecord(q) \in Int16
<1>1. page.next[q] \in Int16 /\ q + page.next[q] \in Int
  BY LayoutAssumption DEF IsPage, Position, Int16
<1> QED BY <1>1, ToInt16Type DEF NextRecord

LEMMA NextOffsetType ==
  ASSUME IsPage(page), NEW q \in Position
  PROVE  NextOffset(q) \in Int
<1>1. page.next[q] \in Int /\ q + page.next[q] \in Int
  BY LayoutAssumption DEF IsPage, Position, Int16
<1> QED BY <1>1 DEF NextOffset

LEMMA RowType ==
  ASSUME IsPage(page), NEW o \in Position, IsRecord(o)
  PROVE  page.rows[o].size \in 1 .. PageSize
BY DEF IsPage, IsRecord, Row

LEMMA AdvanceType ==
  ASSUME IsPage(page), is_page_valid \in BOOLEAN, NEW o \in Position
  PROVE  Advance(o) \in Int
BY NextOffsetType, RowType, LayoutAssumption DEF Advance, Position

LEMMA InDataType == ASSUME NEW o, InData(o) PROVE o \in Position
BY LayoutAssumption DEF InData, Position

LEMMA TypedInit == Init => Typed
<1> SUFFICES ASSUME Init PROVE Typed
  OBVIOUS
<1>1. 0 \in Int16 /\ 0 \in 0 .. MaxRecs + 1
  BY LayoutAssumption, MaxRecsType DEF Int16
<1>2. left \subseteq UNION Directories
  <2>1. left \in Directories
    BY DEF Init
  <2> QED BY <2>1
<1>3. file \in Seq(AllPages) /\ dump \in Seq(DumpRow)
  BY DEF Init
<1>4. 0 \in Nat /\ 0 \in Int /\ {} \subseteq Position /\ FALSE \in BOOLEAN
  OBVIOUS
<1> QED BY <1>1, <1>2, <1>3, <1>4, Zenon DEF Init, Typed

LEMMA TypedStep == Typed /\ [Next]_vars => Typed'
<1> SUFFICES ASSUME Typed, [Next]_vars PROVE Typed'
  OBVIOUS
<1> USE DEF Typed
<1>1. CASE OpenIbfile
  BY <1>1, InputAssumption DEF OpenIbfile, check, walk, blob, totals
<1>2. CASE ReadPage
  <2>1. Head(file) \in AllPages /\ Tail(file) \in Seq(AllPages)
    BY <1>2 DEF ReadPage
  <2>2. Infimum \in Int16 /\ 0 \in Int16
    BY LayoutAssumption DEF Int16
  <2>3. pc' \in {"read", "check"} /\ recs' \in 0 .. MaxRecs + 1
    BY <1>2, MaxRecsType DEF ReadPage
  <2>4. left' \subseteq UNION Directories /\ options' \in OptionSets /\ page' \in AllPages
    BY <1>2, <2>1 DEF ReadPage
  <2> QED BY <1>2, <2>1, <2>2, <2>3, <2>4 DEF ReadPage, blob, totals
<1>3. CASE EndOfFile
  BY <1>3 DEF EndOfFile, check, walk, blob, totals
<1>4. CASE CheckNothing
  BY <1>4 DEF CheckNothing, input, check, walk, blob, totals
<1>5. CASE FollowPointer
  <2>1. recs <= MaxRecs /\ p \in Position
    BY <1>5, MaxRecsType, LayoutAssumption DEF FollowPointer, BadPointer, Position, Int16
  <2>2. NextRecord(p) \in Int16
    BY <2>1, PageTyped, NextRecordType
  <2> QED BY <1>5, <2>1, <2>2, MaxRecsType DEF FollowPointer, input, walk, blob, totals
<1>6. CASE PageIsBad
  BY <1>6 DEF PageIsBad, input, check, walk, blob, totals
<1>7. CASE PageIsGood
  <2>1. recs # 0
    BY <1>7, LayoutAssumption DEF PageIsGood
  <2> QED BY <1>7, <2>1, MaxRecsType DEF PageIsGood, input, walk, blob, totals
<1>8. CASE StartWalk
  <2>1. NextOffset(Infimum) \in Int
    BY PageTyped, NextOffsetType, LayoutAssumption DEF Position
  <2> QED BY <1>8, <2>1, LayoutAssumption DEF StartWalk, input, check, blob, totals
<1>9. CASE DumpRecord
  <2>1. offset \in Position
    BY <1>9, InDataType DEF DumpRecord, WalkGoesOn
  <2>2. [page |-> page.id, at |-> offset, leaf |-> page.leaf] \in DumpRow
    BY <2>1, PageTyped DEF DumpRow, IsPage
  <2>3. dump' \in Seq(DumpRow)
    BY <1>9, <2>2 DEF DumpRecord
  <2>4. page.rows[offset].extern \in Extern
    BY <1>9, <2>1, PageTyped DEF DumpRecord, IsRecord, IsPage, Row
  <2>5. page_no' \in Nat /\ extern_len' \in Nat /\ len_sum' \in Nat /\ pc' \in {"walk", "blob"}
    BY <1>9, <2>4 DEF DumpRecord, Extern
  <2>6. offset' \in Int /\ visited' \subseteq Position /\ actual_records' \in Nat
    <3>1. Advance(offset) \in Int
      BY <2>1, PageTyped, AdvanceType
    <3>2. /\ offset' = Advance(offset) /\ visited' = visited \cup {offset}
          /\ actual_records' = actual_records + 1
      BY <1>9 DEF DumpRecord
    <3>3. visited \cup {offset} \subseteq Position /\ actual_records + 1 \in Nat
      BY <2>1
    <3> QED BY <3>1, <3>2, <3>3, Zenon
  <2>7. /\ options' = options /\ left' = left /\ file' = file /\ page' = page
        /\ UNCHANGED check /\ UNCHANGED totals
    BY <1>9 DEF DumpRecord, input
  <2> QED BY <2>3, <2>5, <2>6, <2>7 DEF check, totals
<1>10. CASE NoRecord
  <2>1. offset \in Position
    BY <1>10, InDataType DEF NoRecord, WalkGoesOn
  <2> QED BY <1>10, <2>1, PageTyped, AdvanceType DEF NoRecord, input, check, blob, totals
<1>11. CASE PageDone
  <2>1. page.n_recs \in Nat
    BY PageTyped DEF IsPage
  <2>2. records_expected_total' \in Nat /\ records_dumped_total' \in Nat
    BY <1>11, <2>1 DEF PageDone, blob, totals
  <2>3. records_lost' \in BOOLEAN
    BY <1>11 DEF PageDone, blob, totals
  <2> QED BY <1>11, <2>2, <2>3 DEF PageDone, input, check, walk, blob
<1>12. CASE PrintStatus
  BY <1>12 DEF PrintStatus, input, check, walk, blob, totals
<1>13. CASE UNCHANGED vars
  BY <1>13 DEF vars, input, check, walk, blob, totals
<1>14. CASE FollowBlob
  <2>1. BlobPages[page_no] \in BlobPage
    BY <1>14, InputAssumption DEF FollowBlob, Readable
  <2>2. page_no' \in Nat /\ len_sum' \in Nat /\ pc' \in {"walk", "blob"}
    BY <1>14, <2>1 DEF FollowBlob, BlobPage
  <2> QED BY <1>14, <2>2 DEF FollowBlob, input, check, walk, totals
<1>15. CASE OpenExit \/ EndOfBlob \/ BlobFault \/ PrintExit
  BY <1>15 DEF OpenExit, EndOfBlob, BlobFault, PrintExit, input, check, walk, blob, totals
<1> QED BY <1>1, <1>2, <1>3, <1>4, <1>5, <1>6, <1>7, <1>8, <1>9, <1>10, <1>11, <1>12, <1>13, <1>14,
           <1>15 DEF Next, Progress, Fault, Terminated

LEMMA TypedHolds == Spec => []Typed
<1> QED BY TypedInit, TypedStep, PTL DEF Spec

LEMMA TypedIsTypeOK == Typed => TypeOK
<1> SUFFICES ASSUME Typed PROVE TypeOK
  OBVIOUS
<1>1. \A f \in left \cup {file} : f \in Seq(AllPages)
  BY InputAssumption DEF Typed
<1>2. \A f \in left \cup {file} : \A i \in DOMAIN f : f[i] \in AllPages
  BY <1>1
<1>3. \A f \in left \cup {file} : \A i \in DOMAIN f : IsPage(f[i])
  BY <1>2, InputAssumption
<1> QED BY <1>3, PageTyped DEF Typed, TypeOK, DumpRow

\* Every variable of c_parser keeps its type, whatever the pointers of a page are:
\* the positions of check_page are int16_t and its count is bounded.
THEOREM TypeCorrect == Spec => []TypeOK
<1> QED BY TypedHolds, TypedIsTypeOK, PTL

-----------------------------------------------------------------------------
\* c is the way of check_page from infimum to p.  A list that comes back to a
\* position goes on as it did the first time.
Chain(c) ==
  /\ c \in [1 .. recs + 1 -> Int16] /\ c[1] = Infimum /\ c[recs + 1] = p
  /\ \A i \in 1 .. recs : c[i] \in 2 .. PageSize /\ c[i] # Supremum /\ c[i + 1] = NextRecord(c[i])
  /\ \A i, j \in 1 .. recs + 1 : \A k \in Nat :
       i < j /\ c[i] = c[j] /\ j + k <= recs + 1 => c[i + k] = c[j + k]

\* The list of a page that was found good.
GoodChain(c) == Chain(c) /\ p = Supremum /\ recs >= 1 /\ expected_records = recs - 1

\* The walk of process_ibpage has come to the k-th position behind infimum.
At(c, k) ==
  /\ k \in 1 .. recs /\ offset = c[k + 1]
  /\ visited = {c[i] : i \in 2 .. k} /\ Cardinality(visited) = k - 1

\* The walk is between two positions, or prints the record at the last one.
Walking == pc \in {"walk", "blob"}

ListInv ==
  /\ pc = "check" => visited = {} /\ ~ is_page_valid /\ \E c : Chain(c)
  /\ pc = "start" => visited = {} /\ (is_page_valid => \E c : GoodChain(c))
  /\ Walking /\ is_page_valid => \E c : GoodChain(c) /\ \E k \in Nat : At(c, k)

LEMMA SmallRemainder == ASSUME NEW x \in Nat, NEW b \in Nat, x < b PROVE x % b = x
OBVIOUS

LEMMA SecondRemainder ==
  ASSUME NEW x \in Nat, NEW b \in Nat, b <= x, x < 2 * b
  PROVE  x % b = x - b
OBVIOUS

\* Where check_page goes on inside the page, process_ibpage goes on to the same
\* position: a pointer that wraps in 16 bits leads below the page.
LEMMA SameNext ==
  ASSUME IsPage(page), NEW q \in Position, NextRecord(q) >= 0
  PROVE  NextOffset(q) = NextRecord(q)
<1>1. CASE page.comp
  <2> DEFINE x == q + page.next[q]
  <2>0. page.next[q] \in Int16
    BY DEF IsPage
  <2>1. x \in Int /\ x + Half \in Nat /\ x + Half < 3 * Half /\ 2 * Half \in Nat
    BY <2>0, LayoutAssumption DEF Position, Int16
  <2>2. NextRecord(q) = ((x + Half) % (2 * Half)) - Half
    BY <1>1 DEF NextRecord, ToInt16
  <2>3. CASE x + Half < 2 * Half
    <3>1. (x + Half) % (2 * Half) = x + Half
      BY <2>1, <2>3, SmallRemainder
    <3> QED BY <1>1, <2>1, <2>2, <3>1, LayoutAssumption DEF NextOffset
  <2>4. CASE ~ (x + Half < 2 * Half)
    <3>0. 2 * Half <= x + Half /\ x + Half < 2 * (2 * Half)
      BY <2>1, <2>4, LayoutAssumption
    <3>1. (x + Half) % (2 * Half) = x + Half - 2 * Half
      <4> DEFINE y == x + Half
                 b == 2 * Half
      <4>1. y \in Nat /\ b \in Nat /\ b <= y /\ y < 2 * b
        BY <2>1, <3>0
      <4>2. y % b = y - b
        <5> HIDE DEF y, b
        <5> QED BY <4>1, SecondRemainder
      <4>3. y - b = x + Half - 2 * Half
        BY <2>1, LayoutAssumption
      <4> QED BY <4>2, <4>3, Zenon
    <3>2. NextRecord(q) = x - 2 * Half /\ x - 2 * Half < 0
      BY <2>1, <2>2, <3>1, LayoutAssumption DEF Position
    <3> QED BY <3>2, <2>1, LayoutAssumption
  <2> QED BY <2>3, <2>4
<1>2. CASE ~ page.comp
  BY <1>2 DEF NextRecord, NextOffset
<1> QED BY <1>1, <1>2

\* One more pointer is followed.
LEMMA ChainGrows ==
  ASSUME Typed, NEW c, Chain(c), p # Supremum, p \in 2 .. PageSize,
         NEW q \in Int16, q = NextRecord(p)
  PROVE  \E d :
             /\ d \in [1 .. recs + 2 -> Int16] /\ d[1] = Infimum /\ d[recs + 2] = q
             /\ \A i \in 1 .. recs + 1 :
                  d[i] \in 2 .. PageSize /\ d[i] # Supremum /\ d[i + 1] = NextRecord(d[i])
             /\ \A i, j \in 1 .. recs + 2 : \A k \in Nat :
                  i < j /\ d[i] = d[j] /\ j + k <= recs + 2 => d[i + k] = d[j + k]
<1> DEFINE d == [i \in 1 .. recs + 2 |-> IF i = recs + 2 THEN q ELSE c[i]]
<1>0. recs \in Nat
  BY MaxRecsType DEF Typed
<1>1. d \in [1 .. recs + 2 -> Int16] /\ d[1] = Infimum /\ d[recs + 2] = q
  BY <1>0 DEF Chain
<1>2. \A i \in 1 .. recs + 1 : d[i] = c[i] /\ i \in 1 .. recs + 2 /\ i + 1 \in 1 .. recs + 2
  BY <1>0
<1>3. ASSUME NEW i \in 1 .. recs + 1
      PROVE  d[i] \in 2 .. PageSize /\ d[i] # Supremum /\ d[i + 1] = NextRecord(d[i])
  <2>1. CASE i = recs + 1
    BY <1>0, <1>1, <1>2, <2>1 DEF Chain
  <2>2. CASE i \in 1 .. recs
    <3>1. d[i] = c[i] /\ d[i + 1] = c[i + 1]
      BY <1>0, <1>2, <2>2
    <3> QED BY <2>2, <3>1 DEF Chain
  <2> QED BY <1>0, <2>1, <2>2
<1>4. ASSUME NEW i \in 1 .. recs + 2, NEW j \in 1 .. recs + 2, NEW k \in Nat,
             i < j, d[i] = d[j], j + k <= recs + 2
      PROVE  d[i + k] = d[j + k]
  <2>1. CASE k = 0
    BY <1>0, <1>4, <2>1
  <2>2. CASE k # 0
    <3>1. i \in 1 .. recs + 1 /\ j \in 1 .. recs + 1 /\ k - 1 \in Nat
          /\ j + (k - 1) <= recs + 1 /\ c[i] = c[j]
      BY <1>0, <1>2, <1>4, <2>2
    <3>2. c[i + (k - 1)] = c[j + (k - 1)]
      BY <3>1, <1>4 DEF Chain
    <3>3. i + (k - 1) \in 1 .. recs + 1 /\ j + (k - 1) \in 1 .. recs + 1
          /\ i + (k - 1) + 1 = i + k /\ j + (k - 1) + 1 = j + k
      BY <1>0, <1>4, <3>1
    <3>4. d[i + k] = NextRecord(d[i + (k - 1)]) /\ d[j + k] = NextRecord(d[j + (k - 1)])
      BY <1>3, <3>3
    <3> QED BY <1>2, <3>2, <3>3, <3>4
  <2> QED BY <2>1, <2>2
<1> HIDE DEF d
<1> QED BY <1>1, <1>3, <1>4

\* A list that ends at supremum has no position twice.
LEMMA GoodChainApart ==
  ASSUME Typed, NEW c, GoodChain(c), NEW i \in 1 .. recs + 1, NEW j \in 1 .. recs + 1, i < j
  PROVE  c[i] # c[j]
<1>0. recs \in Nat
  BY MaxRecsType DEF Typed
<1> SUFFICES ASSUME c[i] = c[j] PROVE FALSE
  OBVIOUS
<1> DEFINE k == recs + 1 - j
<1>1. k \in Nat /\ j + k = recs + 1 /\ i + k \in 1 .. recs
  BY <1>0
<1>2. c[i + k] = c[recs + 1]
  <2>1. j + k <= recs + 1
    BY <1>0, <1>1
  <2> QED BY <1>1, <2>1 DEF GoodChain, Chain
<1> QED BY <1>1, <1>2 DEF GoodChain, Chain

LEMMA VisitedFinite == ASSUME Typed PROVE IsFiniteSet(visited)
<1>1. IsFiniteSet(Position)
  BY FS_Interval, LayoutAssumption DEF Position
<1> QED BY <1>1, FS_Subset DEF Typed

\* The walk of a good page goes on to the next position of the list, which it
\* has not looked at.
LEMMA WalkStep ==
  ASSUME Typed, NEW c, GoodChain(c), NEW k \in Nat, At(c, k), WalkGoesOn, is_page_valid
  PROVE  /\ k + 1 \in 1 .. recs /\ NextOffset(offset) = c[k + 2]
         /\ offset \notin visited
         /\ visited \cup {offset} = {c[i] : i \in 2 .. k + 1}
         /\ Cardinality(visited \cup {offset}) = k
<1>0. recs \in Nat
  BY MaxRecsType DEF Typed
<1>1. k + 1 \in 1 .. recs
  BY <1>0 DEF At, GoodChain, Chain, WalkGoesOn
<1>2. offset = c[k + 1] /\ offset \in Position /\ c[k + 2] = NextRecord(offset)
  <2>1. c[(k + 1) + 1] = NextRecord(c[k + 1]) /\ c[k + 1] \in 2 .. PageSize
    BY <1>1 DEF GoodChain, Chain
  <2>2. (k + 1) + 1 = k + 2
    OBVIOUS
  <2> QED BY <2>1, <2>2, LayoutAssumption DEF At, Position
<1>3. c[k + 2] >= 0
  <2>1. CASE k + 2 = recs + 1
    BY <2>1, LayoutAssumption DEF GoodChain, Chain
  <2>2. CASE k + 2 \in 1 .. recs
    BY <2>2, LayoutAssumption DEF GoodChain, Chain
  <2> QED BY <1>0, <1>1, <2>1, <2>2
<1>4. NextOffset(offset) = c[k + 2]
  BY <1>2, <1>3, SameNext, PageTyped DEF Typed
<1>5. offset \notin visited
  <2> SUFFICES ASSUME NEW i \in 2 .. k, c[i] = c[k + 1] PROVE FALSE
    BY <1>2 DEF At
  <2>1. i \in 1 .. recs + 1 /\ k + 1 \in 1 .. recs + 1 /\ i < k + 1
    BY <1>0, <1>1
  <2> QED BY <2>1, GoodChainApart
<1>6. visited \cup {offset} = {c[i] : i \in 2 .. k + 1}
  <2>1. 2 .. k + 1 = (2 .. k) \cup {k + 1}
    BY DEF At
  <2> QED BY <1>2, <2>1 DEF At
<1>7. Cardinality(visited \cup {offset}) = k
  <2>1. Cardinality(visited \cup {offset}) = Cardinality(visited) + 1
    BY <1>5, VisitedFinite, FS_AddElement
  <2> QED BY <2>1 DEF At
<1> QED BY <1>1, <1>4, <1>5, <1>6, <1>7

LEMMA ChainStays ==
  ASSUME NEW c, Chain(c), page' = page, p' = p, recs' = recs
  PROVE  Chain(c)'
<1>1. \A q : NextRecord(q)' = NextRecord(q)
  BY DEF NextRecord
<1>2. /\ c \in [1 .. recs' + 1 -> Int16] /\ c[1] = Infimum /\ c[recs' + 1] = p'
      /\ \A i \in 1 .. recs' : c[i] \in 2 .. PageSize /\ c[i] # Supremum /\ c[i + 1] = NextRecord(c[i])'
  BY <1>1, Zenon DEF Chain
<1>3. \A i, j \in 1 .. recs' + 1 : \A k \in Nat :
        i < j /\ c[i] = c[j] /\ j + k <= recs' + 1 => c[i + k] = c[j + k]
  <2>1. \A i, j \in 1 .. recs + 1 : \A k \in Nat :
          i < j /\ c[i] = c[j] /\ j + k <= recs + 1 => c[i + k] = c[j + k]
    BY DEF Chain
  <2> QED BY <2>1
<1> QED BY <1>2, <1>3, Zenon DEF Chain

LEMMA GoodChainStays ==
  ASSUME NEW c, GoodChain(c), page' = page, p' = p, recs' = recs,
         expected_records' = expected_records
  PROVE  GoodChain(c)'
BY ChainStays DEF GoodChain

\* The walk goes on in a good page, with or without a record at this position.
LEMMA ListWalks ==
  ASSUME Typed, ListInv, DumpRecord \/ NoRecord
  PROVE  ListInv'
<1>1. /\ Walking /\ Walking' /\ WalkGoesOn /\ visited' = visited \cup {offset}
      /\ pc' \notin {"check", "start"}
      /\ offset' = Advance(offset) /\ page' = page /\ p' = p /\ recs' = recs
      /\ is_page_valid' = is_page_valid /\ expected_records' = expected_records
  BY DEF DumpRecord, NoRecord, input, check, Walking
<1>2. CASE is_page_valid
  <2>1. PICK c : GoodChain(c) /\ \E k \in Nat : At(c, k)
    BY <1>1, <1>2 DEF ListInv
  <2>2. PICK k \in Nat : At(c, k)
    BY <2>1
  <2>3. /\ k + 1 \in 1 .. recs /\ NextOffset(offset) = c[k + 2]
        /\ visited \cup {offset} = {c[i] : i \in 2 .. k + 1}
        /\ Cardinality(visited \cup {offset}) = k
    BY <1>1, <1>2, <2>1, <2>2, WalkStep
  <2>4. offset' = c[k + 2]
    BY <1>1, <1>2, <2>3 DEF Advance
  <2>5. GoodChain(c)'
    BY <1>1, <2>1, GoodChainStays
  <2>6. At(c, k + 1)'
    BY <1>1, <2>3, <2>4 DEF At
  <2> QED BY <1>1, <2>5, <2>6 DEF ListInv
<1>3. CASE ~ is_page_valid
  BY <1>1, <1>3 DEF ListInv
<1> QED BY <1>2, <1>3

LEMMA ListInit == Init => ListInv
BY DEF Init, ListInv, Walking

LEMMA ListStep == Typed /\ ListInv /\ [Next]_vars => ListInv'
<1> SUFFICES ASSUME Typed, ListInv, [Next]_vars PROVE ListInv'
  OBVIOUS
<1>1. CASE OpenIbfile \/ EndOfFile \/ PageDone \/ PrintStatus \/ OpenExit \/ PrintExit
  BY <1>1 DEF OpenIbfile, EndOfFile, PageDone, PrintStatus, OpenExit, PrintExit, ListInv, Walking
<1>2. CASE ReadPage
  <2> DEFINE c == [i \in 1 .. 1 |-> Infimum]
  <2>1. recs' = 0 /\ p' = Infimum /\ visited' = {} /\ ~ is_page_valid' /\ pc' \in {"read", "check"}
    BY <1>2 DEF ReadPage
  <2>2. c \in [1 .. 1 -> Int16] /\ c[1] = Infimum
    BY LayoutAssumption DEF Int16
  <2>3. Chain(c)'
    <3>1. 1 .. recs' + 1 = 1 .. 1 /\ 1 .. recs' = {}
      BY <2>1
    <3>2. c \in [1 .. recs' + 1 -> Int16] /\ c[1] = Infimum /\ c[recs' + 1] = p'
      BY <2>1, <2>2
    <3> HIDE DEF c
    <3> QED BY <3>1, <3>2 DEF Chain
  <2> QED BY <2>1, <2>3 DEF ListInv, Walking
<1>3. CASE CheckNothing \/ PageIsBad
  <2>1. pc = "check" /\ pc' = "start" /\ visited' = visited /\ is_page_valid' = is_page_valid
    BY <1>3 DEF CheckNothing, PageIsBad, check, walk
  <2> QED BY <2>1 DEF ListInv, Walking
<1>4. CASE FollowPointer
  <2>1. /\ pc = "check" /\ pc' = "check" /\ p # Supremum /\ p' = NextRecord(p) /\ recs' = recs + 1
        /\ page' = page /\ visited' = visited /\ is_page_valid' = is_page_valid
    BY <1>4 DEF FollowPointer, input, walk
  <2>2. p \in 2 .. PageSize /\ recs \in Nat
    BY <1>4, MaxRecsType, LayoutAssumption DEF FollowPointer, BadPointer, Typed, Int16
  <2>3. NextRecord(p) \in Int16
    BY <2>2, PageTyped, NextRecordType, LayoutAssumption DEF Typed, Position
  <2>4. PICK c : Chain(c)
    BY <2>1 DEF ListInv
  <2>5. \E d : Chain(d)'
    <3>1. PICK d :
          /\ d \in [1 .. recs + 2 -> Int16] /\ d[1] = Infimum /\ d[recs + 2] = NextRecord(p)
          /\ \A i \in 1 .. recs + 1 :
               d[i] \in 2 .. PageSize /\ d[i] # Supremum /\ d[i + 1] = NextRecord(d[i])
          /\ \A i, j \in 1 .. recs + 2 : \A k \in Nat :
               i < j /\ d[i] = d[j] /\ j + k <= recs + 2 => d[i + k] = d[j + k]
      BY <2>1, <2>2, <2>3, <2>4, ChainGrows
    <3>2. recs' = recs + 1 /\ recs' + 1 = recs + 2
      BY <2>1, <2>2
    <3>3. \A q : NextRecord(q)' = NextRecord(q)
      BY <2>1 DEF NextRecord
    <3>4. Chain(d)'
      <4>1. d \in [1 .. recs' + 1 -> Int16] /\ d[1] = Infimum /\ d[recs' + 1] = p'
        BY <2>1, <3>1, <3>2
      <4>2. \A i \in 1 .. recs' :
              d[i] \in 2 .. PageSize /\ d[i] # Supremum /\ d[i + 1] = NextRecord(d[i])'
        BY <3>1, <3>2, <3>3
      <4>3. \A i, j \in 1 .. recs' + 1 : \A k \in Nat :
              i < j /\ d[i] = d[j] /\ j + k <= recs' + 1 => d[i + k] = d[j + k]
        <5> SUFFICES ASSUME NEW i \in 1 .. recs' + 1, NEW j \in 1 .. recs' + 1, NEW k \in Nat,
                            i < j, d[i] = d[j], j + k <= recs' + 1
                     PROVE  d[i + k] = d[j + k]
          OBVIOUS
        <5>1. i \in 1 .. recs + 2 /\ j \in 1 .. recs + 2 /\ j + k <= recs + 2
          BY <3>2
        <5> QED BY <3>1, <5>1
      <4> QED BY <4>1, <4>2, <4>3 DEF Chain
    <3> QED BY <3>4
  <2> QED BY <2>1, <2>5 DEF ListInv, Walking
<1>5. CASE PageIsGood
  <2>1. /\ pc = "check" /\ pc' = "start" /\ p = Supremum /\ expected_records' = recs - 1
        /\ page' = page /\ p' = p /\ recs' = recs /\ visited' = visited
    BY <1>5 DEF PageIsGood, input, walk
  <2>2. recs >= 1
    BY <2>1, MaxRecsType, LayoutAssumption DEF Typed
  <2>3. PICK c : Chain(c)
    BY <2>1 DEF ListInv
  <2>4. GoodChain(c)'
    BY <2>1, <2>2, <2>3, ChainStays DEF GoodChain
  <2> QED BY <2>1, <2>4 DEF ListInv, Walking
<1>6. CASE StartWalk
  <2>1. /\ pc = "start" /\ pc' = "walk" /\ page' = page /\ p' = p /\ recs' = recs /\ visited' = visited
        /\ is_page_valid' = is_page_valid /\ expected_records' = expected_records
        /\ (is_page_valid => offset' = NextOffset(Infimum))
    BY <1>6 DEF StartWalk, input, check
  <2>2. CASE is_page_valid
    <3>1. PICK c : GoodChain(c)
      BY <2>1, <2>2 DEF ListInv
    <3>2. recs \in Nat /\ recs >= 1 /\ visited = {}
      BY <2>1, <3>1, MaxRecsType DEF GoodChain, Typed, ListInv
    <3>3. c[2] = NextRecord(Infimum) /\ c[2] >= 0
      <4>1. 1 \in 1 .. recs /\ 1 + 1 = 2
        BY <3>2
      <4>2. c[2] = NextRecord(Infimum)
        BY <3>1, <4>1 DEF GoodChain, Chain
      <4>3. CASE recs = 1
        BY <3>1, <4>3, LayoutAssumption DEF GoodChain, Chain
      <4>4. CASE 2 \in 1 .. recs
        BY <3>1, <4>4, LayoutAssumption DEF GoodChain, Chain
      <4> QED BY <3>2, <4>2, <4>3, <4>4
    <3>4. offset' = c[2]
      BY <2>1, <2>2, <3>3, SameNext, PageTyped, LayoutAssumption DEF Typed, Position
    <3>5. At(c, 1)'
      <4>1. {c[i] : i \in 2 .. 1} = {} /\ 1 + 1 = 2 /\ 1 - 1 = 0 /\ 1 \in 1 .. recs
        BY <3>2
      <4>2. visited' = {} /\ Cardinality(visited') = 0 /\ recs' = recs /\ offset' = c[1 + 1]
        BY <2>1, <3>2, <3>4, <4>1, FS_EmptySet
      <4> QED BY <4>1, <4>2 DEF At
    <3>6. GoodChain(c)'
      BY <2>1, <3>1, GoodChainStays
    <3> QED BY <2>1, <3>5, <3>6 DEF ListInv, Walking
  <2>3. CASE ~ is_page_valid
    BY <2>1, <2>3 DEF ListInv, Walking
  <2> QED BY <2>2, <2>3
<1>7. CASE DumpRecord \/ NoRecord
  BY <1>7, ListWalks
<1>8. CASE FollowBlob \/ EndOfBlob \/ BlobFault \/ UNCHANGED vars
  <2>1. /\ pc' = pc \/ (Walking /\ Walking' /\ pc' \notin {"check", "start"})
        /\ page' = page /\ p' = p /\ recs' = recs /\ visited' = visited /\ offset' = offset
        /\ is_page_valid' = is_page_valid /\ expected_records' = expected_records
    BY <1>8 DEF FollowBlob, EndOfBlob, BlobFault, Walking, vars, input, check, walk
  <2>2. \A c : Chain(c) => Chain(c)'
    BY <2>1, ChainStays
  <2>3. \A c : GoodChain(c) => GoodChain(c)'
    BY <2>1, GoodChainStays
  <2>4. \A c : \A k \in Nat : At(c, k) => At(c, k)'
    BY <2>1 DEF At
  <2> QED BY <2>1, <2>2, <2>3, <2>4 DEF ListInv, Walking
<1> QED BY <1>1, <1>2, <1>3, <1>4, <1>5, <1>6, <1>7, <1>8 DEF Next, Progress,
        Fault, Terminated

-----------------------------------------------------------------------------
\* The search of an invalid page is behind every position it has looked at, and
\* behind the data of every record it has found.
SearchInv ==
  Walking /\ ~ is_page_valid => \A o \in visited :
    o < offset /\ (IsRecord(o) => o + page.rows[o].size <= offset)

\* actual_records counts the records among the positions looked at.
Found == {o \in visited : IsRecord(o)}

CountInv ==
  /\ pc \in {"check", "start"} => actual_records = 0
  /\ Walking => actual_records = Cardinality(Found)

WInv == Typed /\ ListInv /\ SearchInv /\ CountInv

\* No position of a page is looked at twice.
LEMMA NotVisited ==
  ASSUME Typed, ListInv, SearchInv, pc = "walk", WalkGoesOn
  PROVE  offset \notin visited
<1>1. CASE is_page_valid
  <2>1. PICK c : GoodChain(c) /\ \E k \in Nat : At(c, k)
    BY <1>1 DEF ListInv, Walking
  <2>2. PICK k \in Nat : At(c, k)
    BY <2>1
  <2> QED BY <1>1, <2>1, <2>2, WalkStep
<1>2. CASE ~ is_page_valid
  BY <1>2 DEF SearchInv, Walking, Typed
<1> QED BY <1>1, <1>2

LEMMA SearchStep == Typed /\ ListInv /\ SearchInv /\ [Next]_vars => SearchInv'
<1> SUFFICES ASSUME Typed, ListInv, SearchInv, [Next]_vars, Walking', ~ is_page_valid',
                    NEW o \in visited'
             PROVE  o < offset' /\ (IsRecord(o)' => o + page'.rows[o].size <= offset')
  BY DEF SearchInv
<1>1. CASE StartWalk
  BY <1>1 DEF StartWalk, ListInv
<1>2. CASE DumpRecord \/ NoRecord
  <2>1. /\ Walking /\ ~ is_page_valid /\ WalkGoesOn /\ visited' = visited \cup {offset}
        /\ offset' = Advance(offset) /\ page' = page /\ options' = options
    BY <1>2 DEF DumpRecord, NoRecord, Walking, input, check
  <2>2. IsRecord(o)' <=> IsRecord(o)
    BY <2>1 DEF IsRecord
  <2>3. offset \in Position
    BY <2>1, InDataType DEF WalkGoesOn
  <2>4. IsRecord(offset) => page.rows[offset].size \in 1 .. PageSize
    BY <2>3, PageTyped, RowType DEF Typed
  <2>5. /\ IsRecord(offset) => offset' = offset + page.rows[offset].size
        /\ ~ IsRecord(offset) => offset' = offset + 1
    BY <2>1 DEF Advance
  <2>6. offset' > offset /\ offset' \in Int
    BY <2>3, <2>4, <2>5, LayoutAssumption DEF Position
  <2>7. CASE o = offset
    BY <2>1, <2>2, <2>3, <2>5, <2>6, <2>7, LayoutAssumption DEF Position
  <2>8. CASE o \in visited
    <3>1. o < offset /\ (IsRecord(o) => o + page.rows[o].size <= offset)
      BY <2>1, <2>8 DEF SearchInv
    <3>2. o \in Position
      BY <2>8 DEF Typed
    <3>3. IsRecord(o) => page.rows[o].size \in 1 .. PageSize
      BY <3>2, PageTyped, RowType DEF Typed
    <3> QED BY <2>1, <2>2, <2>3, <2>6, <3>1, <3>2, <3>3, LayoutAssumption DEF Position
  <2> QED BY <2>1, <2>7, <2>8
<1>3. CASE FollowBlob \/ EndOfBlob \/ BlobFault \/ UNCHANGED vars
  <2>1. /\ (Walking' => Walking) /\ page' = page /\ options' = options /\ visited' = visited /\ offset' = offset
        /\ is_page_valid' = is_page_valid
    BY <1>3 DEF FollowBlob, EndOfBlob, BlobFault, Walking, vars, input, check, walk
  <2>2. IsRecord(o)' <=> IsRecord(o)
    BY <2>1 DEF IsRecord
  <2> QED BY <2>1, <2>2 DEF SearchInv
<1> QED BY <1>1, <1>2, <1>3 DEF Next, Progress, Fault, Terminated, OpenIbfile, ReadPage, EndOfFile,
           CheckNothing, FollowPointer, PageIsBad, PageIsGood, PageDone, PrintStatus, OpenExit, PrintExit, Walking

LEMMA CountStep == WInv /\ [Next]_vars => CountInv'
<1> SUFFICES ASSUME WInv, [Next]_vars PROVE CountInv'
  OBVIOUS
<1>1. CASE ReadPage \/ OpenIbfile \/ EndOfFile \/ PageDone \/ PrintStatus \/ OpenExit \/ PrintExit
  BY <1>1 DEF ReadPage, OpenIbfile, EndOfFile, PageDone, PrintStatus, OpenExit, PrintExit, CountInv, Walking
<1>2. CASE CheckNothing \/ FollowPointer \/ PageIsBad \/ PageIsGood
  BY <1>2 DEF CheckNothing, FollowPointer, PageIsBad, PageIsGood, walk, WInv, CountInv, Walking
<1>3. CASE StartWalk
  <2>1. pc = "start" /\ pc' = "walk" /\ visited' = {} /\ actual_records' = 0
    BY <1>3 DEF StartWalk, WInv, ListInv, CountInv
  <2>2. Found' = {}
    BY <2>1 DEF Found
  <2> QED BY <2>1, <2>2, FS_EmptySet DEF CountInv, Walking
<1>4. CASE DumpRecord \/ NoRecord
  <2>1. /\ pc = "walk" /\ pc' \in {"walk", "blob"} /\ WalkGoesOn /\ visited' = visited \cup {offset}
        /\ page' = page /\ options' = options
    BY <1>4 DEF DumpRecord, NoRecord, input
  <2>2. offset \notin visited
    BY <2>1, NotVisited DEF WInv
  <2>3. \A o : IsRecord(o)' <=> IsRecord(o)
    BY <2>1 DEF IsRecord
  <2>4. IsFiniteSet(Found) /\ actual_records = Cardinality(Found) /\ offset \notin Found
    BY <2>1, <2>2, VisitedFinite, FS_Subset DEF Found, WInv, CountInv, Walking
  <2>5. CASE DumpRecord
    <3>1. Found' = Found \cup {offset} /\ actual_records' = actual_records + 1
      BY <2>1, <2>3, <2>5 DEF Found, DumpRecord
    <3>2. Cardinality(Found \cup {offset}) = Cardinality(Found) + 1
      BY <2>4, FS_AddElement
    <3> QED BY <2>1, <2>4, <3>1, <3>2 DEF CountInv, Walking
  <2>6. CASE NoRecord
    <3>1. Found' = Found /\ actual_records' = actual_records
      BY <2>1, <2>3, <2>6 DEF Found, NoRecord
    <3> QED BY <2>1, <2>4, <3>1 DEF CountInv, Walking
  <2> QED BY <1>4, <2>5, <2>6
<1>5. CASE FollowBlob \/ EndOfBlob \/ BlobFault \/ UNCHANGED vars
  <2>1. /\ pc' = pc \/ (Walking /\ pc' \in {"walk", "blob"})
        /\ page' = page /\ options' = options /\ visited' = visited /\ actual_records' = actual_records
    BY <1>5 DEF FollowBlob, EndOfBlob, BlobFault, Walking, vars, input, walk
  <2>2. Found' = Found
    BY <2>1 DEF Found, IsRecord
  <2> QED BY <2>1, <2>2 DEF WInv, CountInv, Walking
<1> QED BY <1>1, <1>2, <1>3, <1>4, <1>5 DEF Next, Progress, Fault,
        Terminated

LEMMA WHolds == Spec => []WInv
<1>1. Init => WInv
  BY TypedInit, ListInit DEF Init, WInv, SearchInv, CountInv, Walking
<1>2. WInv /\ [Next]_vars => WInv'
  BY TypedStep, ListStep, SearchStep, CountStep DEF WInv
<1> QED BY <1>1, <1>2, PTL DEF Spec

\* On a page that check_page found good, the walk of process_ibpage - with other
\* integer types and another end condition - looks at as many positions as were
\* counted, or leaves the page before the end of the list.
THEOREM WalksAgree == Spec => []WalkAgreesWithCheck
<1>1. WInv => WalkAgreesWithCheck
  <2> SUFFICES ASSUME WInv, pc = "walk", ~ WalkGoesOn, is_page_valid
               PROVE  IF offset = Supremum THEN Cardinality(visited) = expected_records
                                           ELSE Cardinality(visited) < expected_records
    BY DEF WalkAgreesWithCheck
  <2>1. PICK c : GoodChain(c) /\ \E k \in Nat : At(c, k)
    BY DEF WInv, ListInv, Walking
  <2>2. PICK k \in Nat : At(c, k)
    BY <2>1
  <2>3. recs \in Nat /\ expected_records = recs - 1 /\ c[recs + 1] = Supremum
    BY <2>1, MaxRecsType DEF GoodChain, Chain, WInv, Typed
  <2>4. k \in 1 .. recs /\ offset = c[k + 1] /\ Cardinality(visited) = k - 1
    BY <2>2 DEF At
  <2>5. CASE k = recs
    BY <2>3, <2>4, <2>5
  <2>6. CASE k # recs
    <3>1. k + 1 \in 1 .. recs
      BY <2>3, <2>4, <2>6
    <3>2. offset # Supremum
      BY <2>1, <2>4, <3>1 DEF GoodChain, Chain
    <3> QED BY <2>3, <2>4, <2>6, <3>2
  <2> QED BY <2>5, <2>6
<1> QED BY <1>1, WHolds, PTL

LEMMA RowsStep == WInv /\ RowsApart /\ [Next]_vars => RowsApart'
<1> SUFFICES ASSUME WInv, RowsApart, [Next]_vars, Walking', ~ is_page_valid',
                    NEW o \in visited', IsRecord(o)', NEW q \in visited'
             PROVE  ~ (o < q /\ q < o + page'.rows[o].size)
  BY DEF RowsApart, Walking
<1>1. CASE StartWalk
  BY <1>1 DEF StartWalk, WInv, ListInv
<1>2. CASE DumpRecord \/ NoRecord
  <2>1. /\ Walking /\ ~ is_page_valid /\ WalkGoesOn /\ visited' = visited \cup {offset}
        /\ page' = page /\ options' = options
    BY <1>2 DEF DumpRecord, NoRecord, Walking, input, check
  <2>2. IsRecord(o)
    BY <2>1 DEF IsRecord
  <2>3. offset \in Position /\ visited \subseteq Position
    BY <2>1, InDataType DEF WalkGoesOn, WInv, Typed
  <2>4. o \in Position /\ q \in Position
    BY <2>1, <2>3
  <2>5. page.rows[o].size \in 1 .. PageSize
    BY <2>2, <2>4, PageTyped, RowType DEF WInv, Typed
  <2>6. CASE o \in visited /\ q \in visited
    BY <2>1, <2>2, <2>6 DEF RowsApart, Walking
  <2>7. CASE q = offset /\ o \in visited
    <3>1. o + page.rows[o].size <= offset
      BY <2>1, <2>2, <2>7 DEF WInv, SearchInv
    <3> QED BY <2>1, <2>3, <2>4, <2>5, <2>7, <3>1, LayoutAssumption DEF Position
  <2>8. CASE o = offset
    <3>1. q <= offset
      BY <2>1, <2>3, <2>4 DEF WInv, SearchInv, Position
    <3> QED BY <2>3, <2>4, <2>8, <3>1, LayoutAssumption DEF Position
  <2> QED BY <2>1, <2>6, <2>7, <2>8
<1>3. CASE FollowBlob \/ EndOfBlob \/ BlobFault \/ UNCHANGED vars
  <2>1. /\ Walking /\ ~ is_page_valid /\ page' = page /\ options' = options /\ visited' = visited
    BY <1>3 DEF FollowBlob, EndOfBlob, BlobFault, Walking, vars, input, check, walk
  <2>2. IsRecord(o)
    BY <2>1 DEF IsRecord
  <2> QED BY <2>1, <2>2 DEF RowsApart, Walking
<1> QED BY <1>1, <1>2, <1>3 DEF Next, Progress, Fault, Terminated, OpenIbfile, ReadPage, EndOfFile,
           CheckNothing, FollowPointer, PageIsBad, PageIsGood, PageDone, PrintStatus, OpenExit, PrintExit, Walking

\* No row found in an invalid page starts inside the data of another one.
THEOREM RowsDoNotOverlap == Spec => []RowsApart
<1>1. Init => RowsApart
  BY DEF Init, RowsApart
<1>2. WInv /\ RowsApart /\ [Next]_vars => RowsApart'
  BY RowsStep
<1> QED BY <1>1, <1>2, WHolds, PTL DEF Spec

\* records_lost is set for a good page exactly when rows are missing: not when
\* the header, the list and the rows agree, always when both counts say more.
THEOREM LossIsFromGoodPage == Spec => LossFromGoodPage
<1>1. WInv /\ [Next]_vars =>
        [pc = "walk" /\ ~ WalkGoesOn /\ page.leaf =>
           /\ SoundPage => records_lost' = records_lost
           /\ /\ is_page_valid
              /\ actual_records < expected_records /\ actual_records < page.n_recs
              => records_lost']_vars
  <2> SUFFICES ASSUME WInv, [Next]_vars, ~ UNCHANGED vars, pc = "walk", ~ WalkGoesOn, page.leaf
               PROVE  /\ SoundPage => records_lost' = records_lost
                      /\ /\ is_page_valid
                         /\ actual_records < expected_records /\ actual_records < page.n_recs
                         => records_lost'
    BY Zenon
  <2>1. PageDone
    BY DEF Next, Progress, Fault, Terminated, OpenIbfile, ReadPage, EndOfFile, CheckNothing, StartWalk,
           DumpRecord, FollowBlob, EndOfBlob, BlobFault, OpenExit, PrintExit, NoRecord, FollowPointer, PageIsBad,
           PageIsGood, PrintStatus
  <2>2. records_lost' = (records_lost \/ LostRecords)
    BY <2>1 DEF PageDone
  <2>3. ASSUME SoundPage PROVE records_lost' = records_lost
    <3>1. is_page_valid /\ offset = Supremum /\ page.n_recs = expected_records /\ Found = visited
      BY <2>3 DEF SoundPage, Found
    <3>2. actual_records = Cardinality(visited)
      BY <3>1 DEF WInv, CountInv, Walking
    <3>3. PICK c : GoodChain(c) /\ \E k \in Nat : At(c, k)
      BY <3>1 DEF WInv, ListInv, Walking
    <3>4. PICK k \in Nat : At(c, k)
      BY <3>3
    <3>5. recs \in Nat /\ expected_records = recs - 1
      BY <3>3, MaxRecsType DEF GoodChain, WInv, Typed
    <3>6. k = recs
      BY <3>1, <3>3, <3>4, <3>5 DEF GoodChain, Chain, At
    <3>7. actual_records = expected_records
      BY <3>2, <3>4, <3>5, <3>6 DEF At
    <3>8. ~ LostRecords /\ records_lost \in BOOLEAN
      BY <3>7 DEF LostRecords, WInv, Typed
    <3> QED BY <2>2, <3>8, Zenon
  <2>4. ASSUME actual_records < expected_records, actual_records < page.n_recs PROVE records_lost'
    <3>1. LostRecords
      BY <2>4, PageTyped DEF LostRecords, WInv, Typed, IsPage
    <3> QED BY <2>2, <3>1, Zenon
  <2> QED BY <2>3, <2>4, Zenon
<1> QED BY <1>1, WHolds, PTL DEF Spec, LossFromGoodPage

-----------------------------------------------------------------------------
InPage == pc \in {"check", "start", "walk", "blob"}

\* The pages that were not read yet are different ones, and not the one in memory.
IdsApart ==
  /\ \E d \in Directories : left \subseteq d
  /\ \A f \in left : \A i \in DOMAIN f : \A j \in DOMAIN file : f[i].id # file[j].id
  /\ \A i, j \in DOMAIN file : file[i].id = file[j].id => i = j
  /\ InPage => /\ \A j \in DOMAIN file : file[j].id # page.id
               /\ \A f \in left : \A i \in DOMAIN f : f[i].id # page.id

\* No row comes from a page that was not read yet, and of the page in memory only
\* from positions that were looked at.
DumpInv ==
  /\ \A n \in DOMAIN dump :
       /\ \A j \in DOMAIN file : file[j].id # dump[n].page
       /\ \A f \in left : \A i \in DOMAIN f : f[i].id # dump[n].page
       /\ InPage /\ dump[n].page = page.id => dump[n].at \in visited
  /\ NoRowTwice

LEMMA TailOf ==
  ASSUME NEW S, NEW f \in Seq(S), f # <<>>
  PROVE  /\ 1 \in DOMAIN f /\ Head(f) = f[1]
         /\ \A j \in DOMAIN Tail(f) : j + 1 \in DOMAIN f /\ j \in Nat /\ Tail(f)[j] = f[j + 1]
OBVIOUS

LEMMA IdsStep == Typed /\ IdsApart /\ [Next]_vars => IdsApart'
<1> SUFFICES ASSUME Typed, IdsApart, [Next]_vars PROVE IdsApart'
  OBVIOUS
<1>1. CASE OpenIbfile
  <2>1. PICK f \in left : file' = f /\ left' = left \ {f}
    BY <1>1 DEF OpenIbfile
  <2>2. PICK d \in Directories : left \subseteq d
    BY DEF IdsApart
  <2>3. \A g, h \in left : \A i \in DOMAIN g, j \in DOMAIN h : g[i].id = h[j].id => g = h /\ i = j
    BY <2>2, InputAssumption DEF DistinctIds
  <2>4. ~ InPage' /\ left' \subseteq d
    BY <1>1, <2>1, <2>2 DEF OpenIbfile, InPage
  <2>5. \A g \in left' : \A i \in DOMAIN g : \A j \in DOMAIN file' : g[i].id # file'[j].id
    BY <2>1, <2>3
  <2>6. \A i, j \in DOMAIN file' : file'[i].id = file'[j].id => i = j
    BY <2>1, <2>3
  <2> QED BY <2>4, <2>5, <2>6 DEF IdsApart
<1>2. CASE ReadPage
  <2>1. file # <<>> /\ file' = Tail(file) /\ page' = Head(file) /\ left' = left
    BY <1>2 DEF ReadPage
  <2>2. /\ 1 \in DOMAIN file /\ page' = file[1]
        /\ \A j \in DOMAIN file' : j + 1 \in DOMAIN file /\ j \in Nat /\ file'[j] = file[j + 1]
    BY <2>1, TailOf DEF Typed
  <2>3. \A j \in DOMAIN file' : file'[j].id # page'.id
    <3> SUFFICES ASSUME NEW j \in DOMAIN file', file'[j].id = page'.id PROVE FALSE
      OBVIOUS
    <3>1. file[j + 1].id = file[1].id /\ j + 1 \in DOMAIN file /\ j \in Nat
      BY <2>2
    <3>2. j + 1 = 1 /\ j \in DOMAIN Tail(file)
      BY <2>1, <2>2, <3>1 DEF IdsApart
    <3> QED BY <2>1, <3>2 DEF Typed
  <2>4. \A i, j \in DOMAIN file' : file'[i].id = file'[j].id => i = j
    <3> SUFFICES ASSUME NEW i \in DOMAIN file', NEW j \in DOMAIN file', file'[i].id = file'[j].id
                 PROVE  i = j
      OBVIOUS
    <3>1. i \in Nat /\ j \in Nat /\ i + 1 \in DOMAIN file /\ j + 1 \in DOMAIN file
          /\ file[i + 1].id = file[j + 1].id
      BY <2>2
    <3>2. i + 1 = j + 1
      BY <3>1 DEF IdsApart
    <3> QED BY <3>1, <3>2
  <2> QED BY <2>1, <2>2, <2>3, <2>4 DEF IdsApart
<1>3. CASE EndOfFile
  BY <1>3 DEF EndOfFile, IdsApart, InPage
<1>4. CASE CheckNothing \/ FollowPointer \/ PageIsBad \/ PageIsGood \/ StartWalk \/ DumpRecord \/ NoRecord
           \/ PageDone \/ PrintStatus \/ FollowBlob \/ EndOfBlob \/ Fault \/ UNCHANGED vars
  <2>1. file' = file /\ left' = left /\ page' = page /\ (InPage' => InPage)
    BY <1>4 DEF CheckNothing, FollowPointer, PageIsBad, PageIsGood, StartWalk, DumpRecord, NoRecord,
       PageDone, PrintStatus, FollowBlob, EndOfBlob, Fault, OpenExit, BlobFault, PrintExit, vars, input, InPage
  <2> QED BY <2>1 DEF IdsApart
<1> QED BY <1>1, <1>2, <1>3, <1>4 DEF Next, Progress, Fault, Terminated

LEMMA DumpStep == WInv /\ IdsApart /\ DumpInv /\ [Next]_vars => DumpInv'
<1> SUFFICES ASSUME WInv, IdsApart, DumpInv, [Next]_vars PROVE DumpInv'
  OBVIOUS
<1>1. CASE OpenIbfile
  <2>1. PICK f \in left : file' = f /\ left' = left \ {f}
    BY <1>1 DEF OpenIbfile
  <2>2. dump' = dump /\ ~ InPage'
    BY <1>1 DEF OpenIbfile, walk, InPage
  <2> QED BY <2>1, <2>2 DEF DumpInv, NoRowTwice
<1>2. CASE ReadPage
  <2>1. file # <<>> /\ file' = Tail(file) /\ page' = Head(file) /\ left' = left /\ dump' = dump
    BY <1>2 DEF ReadPage
  <2>2. /\ 1 \in DOMAIN file /\ page' = file[1]
        /\ \A j \in DOMAIN file' : j + 1 \in DOMAIN file /\ file'[j] = file[j + 1]
    BY <2>1, TailOf DEF WInv, Typed
  <2>3. \A n \in DOMAIN dump : dump[n].page # page'.id
    BY <2>2 DEF DumpInv
  <2> QED BY <2>1, <2>2, <2>3 DEF DumpInv, NoRowTwice
<1>3. CASE EndOfFile
  BY <1>3 DEF EndOfFile, walk, DumpInv, NoRowTwice, InPage
<1>4. CASE CheckNothing \/ FollowPointer \/ PageIsBad \/ PageIsGood \/ StartWalk \/ NoRecord
           \/ PageDone \/ PrintStatus \/ FollowBlob \/ EndOfBlob \/ Fault \/ UNCHANGED vars
  <2>1. file' = file /\ left' = left /\ page' = page /\ dump' = dump /\ (InPage' => InPage)
        /\ visited \subseteq visited'
    BY <1>4 DEF CheckNothing, FollowPointer, PageIsBad, PageIsGood, StartWalk, NoRecord,
       PageDone, PrintStatus, FollowBlob, EndOfBlob, Fault, OpenExit, BlobFault, PrintExit, vars, input, walk, InPage
  <2> QED BY <2>1 DEF DumpInv, NoRowTwice
<1>5. CASE DumpRecord
  <2> DEFINE row == [page |-> page.id, at |-> offset, leaf |-> page.leaf]
  <2>1. /\ pc = "walk" /\ WalkGoesOn /\ file' = file /\ left' = left /\ page' = page
        /\ dump' = Append(dump, row) /\ visited' = visited \cup {offset}
    BY <1>5 DEF DumpRecord, input
  <2>2. offset \notin visited /\ InPage
    BY <2>1, NotVisited DEF WInv, InPage
  <2>3. \A n \in DOMAIN dump : dump[n] # row
    BY <2>2 DEF DumpInv
  <2>4. /\ DOMAIN dump' = DOMAIN dump \cup {Len(dump) + 1} /\ dump'[Len(dump) + 1] = row
        /\ \A n \in DOMAIN dump : dump'[n] = dump[n]
    <3>1. row \in DumpRow
      BY <2>1, InDataType, PageTyped DEF WInv, Typed, WalkGoesOn, IsPage, DumpRow
    <3> HIDE DEF row
    <3> QED BY <2>1, <3>1 DEF WInv, Typed
  <2>5. NoRowTwice'
    <3> HIDE DEF row
    <3> QED BY <2>3, <2>4 DEF DumpInv, NoRowTwice, IsInjective
  <2>6. row.page = page.id /\ row.at = offset
    OBVIOUS
  <2>7. ASSUME NEW n \in DOMAIN dump'
        PROVE  /\ \A j \in DOMAIN file : file[j].id # dump'[n].page
               /\ \A f \in left : \A i \in DOMAIN f : f[i].id # dump'[n].page
               /\ dump'[n].page = page.id => dump'[n].at \in visited'
    <3> HIDE DEF row
    <3>1. CASE n \in DOMAIN dump
      BY <2>1, <2>2, <2>4, <3>1 DEF DumpInv
    <3>2. CASE n = Len(dump) + 1
      BY <2>1, <2>2, <2>4, <2>6, <3>2 DEF IdsApart
    <3> QED BY <2>4, <3>1, <3>2
  <2> QED BY <2>1, <2>5, <2>7 DEF DumpInv
<1> QED BY <1>1, <1>2, <1>3, <1>4, <1>5 DEF Next, Progress, Fault, Terminated

\* Whatever the pointers say, no position of a page is dumped twice: a good list
\* does not come back, a bad one is not followed.
THEOREM RowsOnce == Spec => []NoRowTwice
<1>1. Init => IdsApart /\ DumpInv
  BY DEF Init, IdsApart, DumpInv, NoRowTwice, IsInjective, InPage
<1>2. WInv /\ IdsApart /\ DumpInv /\ [Next]_vars => IdsApart' /\ DumpInv'
  BY IdsStep, DumpStep DEF WInv
<1>3. DumpInv => NoRowTwice
  BY DEF DumpInv
<1> QED BY <1>1, <1>2, <1>3, WHolds, PTL DEF Spec

-----------------------------------------------------------------------------
LeafRows == {i \in DOMAIN dump : dump[i].leaf}

\* The total, with the rows of the page in memory, is the number of rows from leaves.
TotalInv ==
  /\ IsFiniteSet(LeafRows)
  /\ pc # "exit" => Cardinality(LeafRows) =
       records_dumped_total + (IF InPage /\ page.leaf THEN actual_records ELSE 0)

LEMMA TotalStep == WInv /\ TotalInv /\ [Next]_vars => TotalInv'
<1> SUFFICES ASSUME WInv, TotalInv, [Next]_vars PROVE TotalInv'
  OBVIOUS
<1>1. CASE OpenIbfile \/ EndOfFile \/ PrintStatus \/ ReadPage
  <2>1. pc # "exit" /\ dump' = dump /\ records_dumped_total' = records_dumped_total /\ ~ InPage
        /\ (InPage' => actual_records' = 0)
    BY <1>1 DEF OpenIbfile, EndOfFile, PrintStatus, ReadPage, walk, totals, InPage
  <2>2. LeafRows' = LeafRows /\ records_dumped_total \in Nat
    BY <2>1 DEF LeafRows, WInv, Typed
  <2> QED BY <2>1, <2>2 DEF TotalInv
<1>2. CASE CheckNothing \/ FollowPointer \/ PageIsBad \/ PageIsGood \/ StartWalk \/ NoRecord
           \/ FollowBlob \/ EndOfBlob \/ BlobFault \/ UNCHANGED vars
  <2>1. /\ (pc' # "exit" => pc # "exit") /\ dump' = dump /\ records_dumped_total' = records_dumped_total /\ page' = page
        /\ actual_records' = actual_records /\ (InPage' <=> InPage)
    BY <1>2 DEF CheckNothing, FollowPointer, PageIsBad, PageIsGood, StartWalk, NoRecord, FollowBlob, EndOfBlob,
       BlobFault, vars, input, walk, totals, InPage
  <2>2. LeafRows' = LeafRows
    BY <2>1 DEF LeafRows
  <2> QED BY <2>1, <2>2 DEF TotalInv
<1>3. CASE PageDone
  <2>1. pc # "exit" /\ dump' = dump /\ InPage /\ ~ InPage'
        /\ records_dumped_total' = records_dumped_total + (IF page.leaf THEN actual_records ELSE 0)
    BY <1>3 DEF PageDone, walk, totals, InPage, WInv, Typed
  <2>2. LeafRows' = LeafRows /\ records_dumped_total \in Nat /\ actual_records \in Nat
    BY <2>1 DEF LeafRows, WInv, Typed
  <2> QED BY <2>1, <2>2 DEF TotalInv
<1>4. CASE DumpRecord
  <2> DEFINE row == [page |-> page.id, at |-> offset, leaf |-> page.leaf]
  <2>1. /\ pc # "exit" /\ InPage /\ InPage' /\ WalkGoesOn /\ page' = page /\ dump' = Append(dump, row)
        /\ actual_records' = actual_records + 1 /\ records_dumped_total' = records_dumped_total
    BY <1>4 DEF DumpRecord, input, totals, InPage
  <2>2. /\ DOMAIN dump' = DOMAIN dump \cup {Len(dump) + 1} /\ dump'[Len(dump) + 1] = row
        /\ Len(dump) + 1 \notin DOMAIN dump /\ \A n \in DOMAIN dump : dump'[n] = dump[n]
    <3>1. row \in DumpRow
      BY <2>1, InDataType, PageTyped DEF WInv, Typed, WalkGoesOn, IsPage, DumpRow
    <3> HIDE DEF row
    <3> QED BY <2>1, <3>1 DEF WInv, Typed
  <2>3. row.leaf = page.leaf /\ page.leaf \in BOOLEAN
    BY PageTyped DEF WInv, Typed, IsPage
  <2> HIDE DEF row
  <2>4. LeafRows' = IF page.leaf THEN LeafRows \cup {Len(dump) + 1} ELSE LeafRows
    BY <2>2, <2>3 DEF LeafRows
  <2>5. Len(dump) + 1 \notin LeafRows
    BY <2>2 DEF LeafRows
  <2>6. /\ IsFiniteSet(LeafRows \cup {Len(dump) + 1})
        /\ Cardinality(LeafRows \cup {Len(dump) + 1}) = Cardinality(LeafRows) + 1
    BY <2>5, FS_AddElement DEF TotalInv
  <2>7. records_dumped_total \in Nat /\ actual_records \in Nat
    BY DEF WInv, Typed
  <2>8. CASE page.leaf
    BY <2>1, <2>4, <2>6, <2>7, <2>8 DEF TotalInv
  <2>9. CASE ~ page.leaf
    BY <2>1, <2>4, <2>7, <2>9 DEF TotalInv
  <2> QED BY <2>8, <2>9
<1>5. CASE OpenExit \/ PrintExit
  BY <1>5 DEF OpenExit, PrintExit, walk, LeafRows, TotalInv
<1> QED BY <1>1, <1>2, <1>3, <1>4, <1>5 DEF Next, Progress, Fault, Terminated

\* records_dumped_total, which the status line prints, is the number of rows that
\* were written from leaf pages.
THEOREM TotalsAreRight == Spec => []TotalsAddUp
<1>1. Init => TotalInv
  <2> SUFFICES ASSUME Init PROVE TotalInv
    OBVIOUS
  <2>1. LeafRows = {} /\ ~ InPage /\ records_dumped_total = 0
    BY DEF Init, LeafRows, InPage
  <2> QED BY <2>1, FS_EmptySet DEF TotalInv
<1>2. WInv /\ TotalInv /\ [Next]_vars => TotalInv'
  BY TotalStep
<1>3. WInv /\ TotalInv => TotalsAddUp
  <2> SUFFICES ASSUME WInv, TotalInv, pc \in {"open", "read", "status"}
               PROVE  records_dumped_total = Cardinality({i \in DOMAIN dump : dump[i].leaf})
    BY DEF TotalsAddUp
  <2> QED BY DEF TotalInv, LeafRows, InPage, WInv, Typed
<1> QED BY <1>1, <1>2, <1>3, WHolds, PTL DEF Spec
=============================================================================
