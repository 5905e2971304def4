-------------------------- MODULE PageParserProofs --------------------------
(***************************************************************************)
(* Theorems about PageParser, for every medium, every size of page, cache  *)
(* and file, wherever reads end early, and for every combination of        *)
(* options and faults.                                                     *)
(***************************************************************************)
EXTENDS PageParser, FiniteSetTheorems, TLAPS

\* What was read is at the front of the cache, unless read failed; a window that is
\* not full ends at a break or with the file.
WindowInv ==
  /\ pc = "scan" => read_bytes # 0
  /\ pc \in {"read", "done"} => read_bytes # MinusOne
  /\ pc \in {"read", "done"} /\ read_bytes = 0 => file_pos = 0
  /\ pc = "scan" /\ read_bytes # MinusOne =>
       /\ read_bytes <= file_pos
       /\ last => file_pos \in breaks \cup {FileSize}
       /\ \A k \in 0 .. read_bytes - 1 : cache[k] = file_pos - read_bytes + k
  /\ pc = "done" => FileSize <= file_pos

\* Behind the scan there is no page that was wanted, not cut, and not taken.
NothingBehind ==
  ScanPhase \in {"scanning", "finished"} =>
    \A p \in DOMAIN medium : Wanted(p) /\ ~ Cut(p) /\ p < ScanOffset => p \in Taken

\* The type of an entry of `out'
Names == ({"COUNT"} \X Nat) \cup ({"BLOB"} \X Nat) \cup ({"INDEX"} \X Nat \X Nat)
Entry == [page : Offsets, name : Names, stored : BOOLEAN, stale : BOOLEAN]

NamedIndex(k) == out[k].name[1] = "INDEX"

\* The static id counts the INDEX pages, so that it is above the number of each.
OutInv ==
  /\ out \in Seq(Entry)
  /\ \A k \in 1 .. Len(out) :
       /\ out[k].name[1] \in {"COUNT", "BLOB", "INDEX"}
       /\ out[k].name[1] = "BLOB" => medium[out[k].page].kind = "BLOB"
       /\ NamedIndex(k) => out[k].name[3] \in Nat /\ out[k].name[3] < NextId
  /\ \A j, k \in 1 .. Len(out) :
       j # k /\ NamedIndex(j) /\ NamedIndex(k) => out[j].name[3] # out[k].name[3]

IInv == medium \in Media /\ TypeOK /\ WindowInv /\ NothingBehind /\ OutInv

-----------------------------------------------------------------------------
LEMMA Sizes ==
  /\ PageSize \in Nat \ {0} /\ CacheSize \in Nat /\ PageSize < CacheSize /\ FileSize \in Nat
  /\ MinusOne \in Nat /\ CacheSize < MinusOne - PageSize
BY PageParserAssumption DEF MinusOne

\* The page image at a byte of the cache is one of the medium.
LEMMA PageThere ==
  ASSUME medium \in Media, TypeOK, Scanning, PageAt(i)
  PROVE  /\ cache[i] \in DOMAIN medium /\ cache[i] \in Offsets /\ medium[cache[i]] \in Header
         /\ cache[i] + PageSize <= FileSize /\ i + PageSize <= CacheSize
<1>1. cache[i] \in DOMAIN medium /\ i + PageSize <= CacheSize
  BY DEF PageAt, ValidPage
<1>2. cache[i] \in 0 .. FileSize - PageSize /\ medium[cache[i]] \in Header
  BY <1>1, PageParserAssumption
<1> QED BY <1>1, <1>2, Sizes DEF Offsets

\* As long as the scan stays in what was read, it is at the byte of the file that
\* ScanOffset says, and finds the pages that begin there.
LEMMA InStep ==
  ASSUME TypeOK, WindowInv, Scanning, ~ Overruns
  PROVE  /\ pc = "scan" /\ i \in Nat /\ i + PageSize < read_bytes
         /\ cache[i] = ScanOffset /\ ScanOffset = file_pos - read_bytes + i
         /\ ScanOffset \in Nat /\ ScanOffset + PageSize < FileSize
         /\ PageAt(i) <=> ValidPage(ScanOffset)
<1>1. /\ pc = "scan" /\ read_bytes \in 0 .. CacheSize /\ read_bytes # 0 /\ read_bytes # MinusOne
      /\ i \in Nat /\ i < read_bytes - PageSize /\ PageSize <= read_bytes
      /\ file_pos \in 0 .. FileSize
  BY Sizes DEF Scanning, Overruns, Wraps, InWindow, TypeOK
<1>2. /\ read_bytes <= file_pos
      /\ \A k \in 0 .. read_bytes - 1 : cache[k] = file_pos - read_bytes + k
  BY <1>1 DEF WindowInv
<1>3. i + PageSize < read_bytes /\ i + PageSize <= CacheSize
  BY <1>1, Sizes
<1>4. \A j \in 0 .. PageSize - 1 : cache[i + j] = file_pos - read_bytes + (i + j)
  BY <1>1, <1>2, <1>3, Sizes
<1>5. cache[i] = file_pos - read_bytes + i
  BY <1>1, <1>2, <1>3, Sizes
<1>6. \A j \in 0 .. PageSize - 1 : cache[i + j] = cache[i] + j
  BY <1>1, <1>4, <1>5, Sizes
<1>7. ScanOffset = file_pos - read_bytes + i
  BY <1>1 DEF ScanOffset
<1>8. PageAt(i) <=> ValidPage(cache[i])
  BY <1>3, <1>6 DEF PageAt
<1> QED BY <1>1, <1>2, <1>3, <1>5, <1>7, <1>8, Sizes

\* A window is read from file_pos on; when it is not full it ends at a break or with
\* the file.
LEMMA ReadOne ==
  ASSUME TypeOK, ReadCache
  PROVE  /\ file_pos \in 0 .. FileSize /\ pc = "read" /\ pc' = "scan" /\ i' = 0
         /\ UNCHANGED <<mode, filter, medium, breaks, out>>
         /\ \E got \in 1 .. CacheSize :
              /\ file_pos + got <= FileSize
              /\ got < CacheSize => file_pos + got \in breaks \cup {FileSize}
              /\ cache' = [k \in DOMAIN cache |-> IF k < got THEN file_pos + k ELSE cache[k]]
              /\ file_pos' = file_pos + got /\ read_bytes' = got /\ last' = (got < CacheSize)
<1> DEFINE most == IF FileSize - file_pos < CacheSize THEN FileSize - file_pos ELSE CacheSize
<1>1. file_pos \in 0 .. FileSize
  BY DEF TypeOK
<1>2. /\ most \in Nat /\ most <= CacheSize /\ file_pos + most <= FileSize
      /\ most < CacheSize => file_pos + most = FileSize
  BY <1>1, Sizes
<1>3. PICK got \in 1 .. most :
        /\ got = most \/ file_pos + got \in breaks
        /\ cache' = [k \in DOMAIN cache |-> IF k < got THEN file_pos + k ELSE cache[k]]
        /\ file_pos' = file_pos + got /\ read_bytes' = got /\ last' = (got < CacheSize)
  BY DEF ReadCache, ReadSizes
<1> HIDE DEF most
<1>4. /\ got \in 1 .. CacheSize /\ file_pos + got <= FileSize
      /\ got < CacheSize => file_pos + got \in breaks \cup {FileSize}
  BY <1>1, <1>2, <1>3, Sizes
<1> QED BY <1>1, <1>3, <1>4 DEF ReadCache

\* A window ends with a page left at most, and not before it was read.
LEMMA WindowEnds ==
  ASSUME TypeOK, WindowInv, EndOfWindow
  PROVE  /\ pc = "scan" /\ read_bytes \in PageSize .. CacheSize /\ read_bytes # MinusOne
         /\ ~ Overruns
         /\ read_bytes - PageSize <= i /\ i < read_bytes
         /\ read_bytes <= file_pos /\ (last => file_pos \in breaks \cup {FileSize})
         /\ file_pos' = IF last THEN file_pos ELSE file_pos - read_bytes + i
<1>1. pc = "scan" /\ ~ Wraps /\ i \in 0 .. CacheSize /\ read_bytes \in (0 .. CacheSize) \cup {MinusOne}
  BY DEF EndOfWindow, InWindow, TypeOK
<1>2. read_bytes - PageSize <= i
  BY <1>1, Sizes DEF EndOfWindow, InWindow
<1>3. read_bytes # MinusOne
  BY <1>1, <1>2, Sizes
<1>4. i < read_bytes /\ PageSize <= read_bytes
  BY <1>1, <1>3, Sizes DEF TypeOK, Overruns, Wraps
<1>5. read_bytes <= file_pos /\ (last => file_pos \in breaks \cup {FileSize}) /\ file_pos \in Nat
  BY <1>1, <1>3 DEF WindowInv, TypeOK
<1>6. file_pos' = IF last THEN file_pos ELSE file_pos - (read_bytes - i)
  BY DEF EndOfWindow, SeekBack
<1> QED BY <1>1, <1>2, <1>3, <1>4, <1>5, <1>6, Sizes DEF Overruns, Wraps

-----------------------------------------------------------------------------
\* The numbers of INDEX pages
LEMMA NextIdType ==
  ASSUME out \in Seq(Entry)
  PROVE  /\ IsFiniteSet({k \in 1 .. Len(out) : NamedIndex(k)}) /\ NextId \in Nat
<1>1. IsFiniteSet(1 .. Len(out))
  BY FS_Interval
<1>2. {k \in 1 .. Len(out) : NamedIndex(k)} \in SUBSET (1 .. Len(out))
  OBVIOUS
<1>3. IsFiniteSet({k \in 1 .. Len(out) : NamedIndex(k)})
  BY <1>1, <1>2, FS_Subset
<1> QED BY <1>3, FS_CardinalityType DEF NextId, NamedIndex

\* process_ibpage leaves the page out, or makes one entry for it.
LEMMA OneEntry ==
  ASSUME medium \in Media, TypeOK, OutInv, TakePage
  PROVE  \/ UNCHANGED out /\ Skipped(medium[cache[i]])
         \/ \E e \in Entry : /\ ~ Skipped(medium[cache[i]]) /\ out' = Append(out, e)
                             /\ e.page = cache[i] /\ e.stale = Overruns
                             /\ e.name = NameOf(medium[cache[i]])
<1> DEFINE h == medium[cache[i]]
<1>1. cache[i] \in Offsets /\ h \in Header
  BY PageThere DEF TakePage
<1>2. NameOf(h) \in Names
  BY <1>1, NextIdType DEF NameOf, Names, Header, OutInv
<1>3. Overruns \in BOOLEAN
  BY DEF Overruns, Wraps
<1>4. CASE ~ Skipped(h)
  <2>1. PICK ok \in {TRUE} \cup (IF mode = "save" /\ "open" \in Faults THEN {FALSE} ELSE {}) :
          out' = Append(out, [page |-> cache[i], name |-> NameOf(h), stored |-> ok,
                              stale |-> Overruns])
    BY <1>4 DEF TakePage
  <2> DEFINE e == [page |-> cache[i], name |-> NameOf(h), stored |-> ok, stale |-> Overruns]
  <2>2. e \in Entry
    BY <1>1, <1>2, <1>3 DEF Entry
  <2>3. e.page = cache[i] /\ e.stale = Overruns /\ e.name = NameOf(h) /\ out' = Append(out, e)
    BY <2>1
  <2> HIDE DEF e
  <2> QED BY <1>4, <2>2, <2>3
<1>5. CASE Skipped(h)
  BY <1>5 DEF TakePage
<1> QED BY <1>4, <1>5

\* Every other step leaves `out' alone.
LEMMA OutStays ==
  ASSUME [Next]_vars, ~ TakePage
  PROVE  UNCHANGED <<out, medium>>
BY DEF Next, Step, vars, ReadCache, EndOfFile, ReadError, TakePageExit, NextByte, RunOutOfCache,
       EndOfWindow

LEMMA OutStep ==
  ASSUME medium \in Media, TypeOK, OutInv, [Next]_vars
  PROVE  OutInv'
<1>1. CASE UNCHANGED <<out, medium>>
  <2>1. NextId' = NextId /\ \A k : NamedIndex(k)' <=> NamedIndex(k)
    BY <1>1 DEF NextId, NamedIndex
  <2> QED BY <1>1, <2>1 DEF OutInv
<1>2. ASSUME TakePage, NEW e \in Entry, out' = Append(out, e), e.page = cache[i],
             e.name = NameOf(medium[cache[i]]), NEW n, n = Len(out) + 1
      PROVE  OutInv'
  <2> DEFINE I == {k \in 1 .. Len(out) : NamedIndex(k)}
  <2>1. out \in Seq(Entry) /\ n \in Nat /\ medium' = medium
    BY <1>2 DEF OutInv, TakePage
  <2>2. /\ out' \in Seq(Entry) /\ Len(out') = n /\ out'[n] = e
        /\ \A k \in 1 .. Len(out) : out'[k] = out[k]
        /\ \A k \in 1 .. n : k = n \/ k \in 1 .. Len(out)
    BY <1>2, <2>1
  <2>3. \A k \in 1 .. Len(out) : NamedIndex(k)' <=> NamedIndex(k)
    BY <2>2 DEF NamedIndex
  <2>4. NamedIndex(n)' <=> e.name[1] = "INDEX"
    BY <2>2 DEF NamedIndex
  <2>5. n \notin I /\ NextId = Cardinality(I) /\ IsFiniteSet(I) /\ NextId \in Nat
    BY <1>2, <2>1, NextIdType DEF NextId, NamedIndex
  <2>6. NextId' = Cardinality({k \in 1 .. n : out'[k].name[1] = "INDEX"})
    BY <2>2 DEF NextId
  <2>7. NextId' = IF e.name[1] = "INDEX" THEN NextId + 1 ELSE NextId
    <3>1. CASE e.name[1] = "INDEX"
      <4>1. {k \in 1 .. n : out'[k].name[1] = "INDEX"} = I \cup {n}
        BY <1>2, <2>1, <2>2, <3>1 DEF NamedIndex
      <4> HIDE DEF I
      <4> QED BY <2>5, <2>6, <3>1, <4>1, FS_AddElement
    <3>2. CASE e.name[1] # "INDEX"
      <4>1. {k \in 1 .. n : out'[k].name[1] = "INDEX"} = I
        BY <1>2, <2>1, <2>2, <3>2 DEF NamedIndex
      <4> QED BY <2>5, <2>6, <3>2, <4>1
    <3> QED BY <3>1, <3>2
  <2>8. /\ e.name[1] \in {"COUNT", "BLOB", "INDEX"}
        /\ e.name[1] = "BLOB" => medium[e.page].kind = "BLOB"
        /\ e.name[1] = "INDEX" => e.name[3] = NextId
    BY <1>2 DEF NameOf
  <2>9. ASSUME NEW k \in 1 .. n
        PROVE  /\ out'[k].name[1] \in {"COUNT", "BLOB", "INDEX"}
               /\ out'[k].name[1] = "BLOB" => medium'[out'[k].page].kind = "BLOB"
               /\ NamedIndex(k)' => out'[k].name[3] \in Nat /\ out'[k].name[3] < NextId'
    <3>1. CASE k = n
      BY <2>1, <2>2, <2>4, <2>5, <2>7, <2>8, <3>1
    <3>2. CASE k \in 1 .. Len(out)
      BY <2>1, <2>2, <2>3, <2>5, <2>7, <3>2 DEF OutInv
    <3> QED BY <2>2, <3>1, <3>2
  <2>10. ASSUME NEW j \in 1 .. n, NEW k \in 1 .. n, j # k, NamedIndex(j)', NamedIndex(k)'
         PROVE  out'[j].name[3] # out'[k].name[3]
    <3>1. \A m \in 1 .. Len(out) :
            NamedIndex(m) => out[m].name[3] \in Nat /\ out[m].name[3] < NextId
      BY DEF OutInv
    <3>2. CASE j = n
      <4>1. k \in 1 .. Len(out)
        BY <2>2, <2>10, <3>2
      <4> QED BY <2>2, <2>3, <2>4, <2>5, <2>8, <2>10, <3>1, <3>2, <4>1
    <3>3. CASE k = n
      <4>1. j \in 1 .. Len(out)
        BY <2>2, <2>10, <3>3
      <4> QED BY <2>2, <2>3, <2>4, <2>5, <2>8, <2>10, <3>1, <3>3, <4>1
    <3>4. CASE j \in 1 .. Len(out) /\ k \in 1 .. Len(out)
      BY <2>2, <2>3, <2>10, <3>4 DEF OutInv
    <3> QED BY <2>2, <3>2, <3>3, <3>4
  <2> QED BY <2>2, <2>9, <2>10 DEF OutInv
<1> QED BY <1>1, <1>2, OneEntry, OutStays DEF TakePage

LEMMA TypeStep ==
  ASSUME medium \in Media, TypeOK, WindowInv, OutInv, [Next]_vars
  PROVE  TypeOK'
<1>0. \A k \in 1 .. Len(out') : out'[k].page \in Offsets
  <2>1. \A o \in Seq(Entry) : \A k \in 1 .. Len(o) : o[k] \in Entry
    OBVIOUS
  <2>2. \A e \in Entry : e.page \in Offsets
    BY DEF Entry
  <2> QED BY <2>1, <2>2, OutStep DEF OutInv
<1>1. CASE ReadCache
  <2>1. PICK got \in 1 .. CacheSize :
          /\ file_pos + got <= FileSize
          /\ cache' = [k \in DOMAIN cache |-> IF k < got THEN file_pos + k ELSE cache[k]]
          /\ file_pos' = file_pos + got /\ read_bytes' = got /\ last' = (got < CacheSize)
    BY <1>1, ReadOne
  <2>2. cache' \in [0 .. CacheSize - 1 -> Offsets \cup {NoByte}]
    BY <2>1, Sizes DEF TypeOK, Offsets
  <2>3. /\ file_pos + got \in 0 .. FileSize /\ got \in 0 .. CacheSize
        /\ 0 \in 0 .. CacheSize /\ 0 < got
    BY <2>1, Sizes DEF TypeOK
  <2> QED BY <1>0, <1>1, <2>1, <2>2, <2>3, ReadOne DEF TypeOK
<1>2. CASE EndOfFile \/ TakePageExit \/ RunOutOfCache
  BY <1>2 DEF EndOfFile, TakePageExit, RunOutOfCache, TypeOK
<1>3. CASE ReadError
  <2>1. Overruns' /\ 0 \in 0 .. CacheSize
    BY <1>3, Sizes DEF ReadError, Overruns, MinusOne
  <2> QED BY <1>3, <2>1 DEF ReadError, TypeOK
<1>4. CASE TakePage
  <2>1. /\ cache[i] \in Offsets /\ i + PageSize \in 0 .. CacheSize
    BY <1>4, PageThere, Sizes DEF TakePage, TypeOK
  <2>2. ~ Overruns => i + PageSize < read_bytes
    BY <1>4, InStep DEF TakePage
  <2> QED BY <1>0, <1>4, <2>1, <2>2 DEF TakePage, TypeOK, Overruns, Wraps
<1>5. CASE NextByte
  <2>1. i + 1 \in 0 .. CacheSize /\ (~ Overruns => i + 1 < read_bytes)
    <3>1. CASE Overruns
      <4>1. i \in Nat /\ i + PageSize <= CacheSize
        BY <1>5, <3>1 DEF NextByte, Scanning, TypeOK
      <4> QED BY <3>1, <4>1, Sizes
    <3>2. CASE ~ Overruns
      <4>1. i \in Nat /\ i + PageSize < read_bytes
        BY <1>5, <3>2, InStep DEF NextByte
      <4>2. read_bytes \in 0 .. CacheSize
        BY <3>2 DEF TypeOK, Overruns
      <4> QED BY <3>2, <4>1, <4>2, Sizes
    <3> QED BY <3>1, <3>2
  <2> QED BY <1>5, <2>1 DEF NextByte, TypeOK, Overruns, Wraps
<1>6. CASE EndOfWindow
  <2>1. file_pos' \in 0 .. FileSize
    BY <1>6, WindowEnds, Sizes DEF TypeOK
  <2> QED BY <1>6, <2>1 DEF EndOfWindow, TypeOK
<1>7. CASE UNCHANGED vars
  BY <1>7 DEF vars, TypeOK, Overruns, Wraps
<1> QED BY <1>1, <1>2, <1>3, <1>4, <1>5, <1>6, <1>7 DEF Next, Step

-----------------------------------------------------------------------------
LEMMA WindowStep ==
  ASSUME medium \in Media, TypeOK, WindowInv, [Next]_vars
  PROVE  WindowInv'
<1>1. CASE ReadCache
  <2>1. PICK got \in 1 .. CacheSize :
          /\ got < CacheSize => file_pos + got \in breaks \cup {FileSize}
          /\ cache' = [k \in DOMAIN cache |-> IF k < got THEN file_pos + k ELSE cache[k]]
          /\ file_pos' = file_pos + got /\ read_bytes' = got /\ last' = (got < CacheSize)
    BY <1>1, ReadOne
  <2>2. got # 0 /\ got # MinusOne /\ got <= file_pos + got
    BY <2>1, Sizes DEF TypeOK
  <2>3. \A k \in 0 .. got - 1 : cache'[k] = (file_pos + got) - got + k
    BY <2>1, Sizes DEF TypeOK
  <2>4. \A k \in 0 .. read_bytes' - 1 : cache'[k] = file_pos' - read_bytes' + k
    BY <2>1, <2>3
  <2>5. pc' = "scan" /\ breaks' = breaks
    BY <1>1, ReadOne
  <2> QED BY <2>1, <2>2, <2>4, <2>5 DEF WindowInv
<1>2. CASE EndOfFile
  BY <1>2 DEF EndOfFile, WindowInv
<1>3. CASE TakePageExit \/ RunOutOfCache
  BY <1>3 DEF TakePageExit, RunOutOfCache, WindowInv
<1>4. CASE ReadError
  BY <1>4, Sizes DEF ReadError, WindowInv
<1>5. CASE TakePage \/ NextByte
  <2>1. UNCHANGED <<breaks, pc, file_pos, read_bytes, last, cache>> /\ pc = "scan"
    BY <1>5 DEF TakePage, NextByte, Scanning
  <2> QED BY <2>1 DEF WindowInv
<1>6. CASE EndOfWindow
  <2>1. /\ pc' = "read" /\ UNCHANGED <<read_bytes, last, i>> /\ read_bytes # 0
    BY <1>6, WindowEnds, Sizes DEF EndOfWindow
  <2> QED BY <1>6, <2>1, WindowEnds, Sizes DEF WindowInv
<1>7. CASE UNCHANGED vars
  BY <1>7 DEF vars, WindowInv
<1> QED BY <1>1, <1>2, <1>3, <1>4, <1>5, <1>6, <1>7 DEF Next, Step

\* Which pages are wanted is decided at the start.
LEMMA WantedStays ==
  ASSUME [Next]_vars
  PROVE  /\ UNCHANGED <<mode, filter, medium, breaks>>
         /\ \A p : (Wanted(p)' <=> Wanted(p)) /\ (ValidPage(p)' <=> ValidPage(p))
         /\ \A p : Cut(p)' <=> Cut(p)
<1>1. UNCHANGED <<mode, filter, medium, breaks>>
  BY DEF Next, Step, vars, ReadCache, EndOfFile, ReadError, TakePage, TakePageExit, NextByte,
         RunOutOfCache, EndOfWindow
<1> QED BY <1>1 DEF Wanted, ValidPage, Skipped, Cut

\* What has been taken: a page more at most, and one at most.
LEMMA TakenStep ==
  ASSUME medium \in Media, TypeOK, OutInv, [Next]_vars
  PROVE  /\ ~ TakePage \/ Overruns \/ Skipped(medium[cache[i]]) => Taken' = Taken
         /\ TakePage /\ ~ Overruns /\ ~ Skipped(medium[cache[i]]) => Taken' = Taken \cup {cache[i]}
<1>1. CASE UNCHANGED out
  <2>1. Taken' = Taken
    BY <1>1 DEF Taken
  <2>2. TakePage => Skipped(medium[cache[i]])
    <3>1. \A e \in Entry : out # Append(out, e)
      BY DEF OutInv
    <3> QED BY <1>1, <3>1, OneEntry
  <2> QED BY <2>1, <2>2
<1>2. ASSUME TakePage, ~ Skipped(medium[cache[i]]), NEW e \in Entry, out' = Append(out, e),
             e.page = cache[i], e.stale = Overruns
      PROVE  Taken' = IF Overruns THEN Taken ELSE Taken \cup {cache[i]}
  <2>1. /\ Len(out') = Len(out) + 1 /\ Len(out) \in Nat /\ out'[Len(out) + 1] = e
        /\ \A k \in 1 .. Len(out) : out'[k] = out[k]
    BY <1>2 DEF OutInv
  <2>2. ASSUME NEW o
        PROVE  o \in Taken' <=> o \in Taken \/ (o = cache[i] /\ ~ Overruns)
    <3>1. o \in Taken' <=> \E k \in 1 .. Len(out) + 1 : ~ out'[k].stale /\ out'[k].page = o
      BY <2>1 DEF Taken
    <3>2. o \in Taken <=> \E k \in 1 .. Len(out) : ~ out[k].stale /\ out[k].page = o
      BY DEF Taken
    <3>3. \A k \in 1 .. Len(out) + 1 : k \in 1 .. Len(out) \/ k = Len(out) + 1
      BY <2>1
    <3>4. Len(out) + 1 \in 1 .. Len(out) + 1 /\ \A k \in 1 .. Len(out) : k \in 1 .. Len(out) + 1
      BY <2>1
    <3> QED BY <1>2, <2>1, <3>1, <3>2, <3>3, <3>4
  <2> QED BY <2>2
<1> QED BY <1>1, <1>2, OneEntry, OutStays

\* The scan passes one position: it takes the page that begins there, or none that
\* is wanted does; and none that is wanted begins inside a page.
LEMMA PassesOne ==
  ASSUME medium \in Media, TypeOK, WindowInv, ~ Overruns, TakePage \/ NextByte
  PROVE  /\ TakePage => ValidPage(ScanOffset)
         /\ NextByte \/ Skipped(medium[cache[i]]) => ~ Wanted(ScanOffset)
         /\ TakePage => \A p \in DOMAIN medium :
              Wanted(p) => ~ (ScanOffset < p /\ p < ScanOffset + PageSize)
         /\ ScanOffset' = ScanOffset + (IF TakePage THEN PageSize ELSE 1)
         /\ ScanPhase = "scanning" /\ ScanPhase' = "scanning"
<1>1. Scanning /\ (TakePage => PageAt(i)) /\ (NextByte => ~ PageAt(i))
  BY DEF TakePage, NextByte
<1>2. /\ pc = "scan" /\ i \in Nat /\ cache[i] = ScanOffset /\ ScanOffset \in Nat
      /\ ScanOffset = file_pos - read_bytes + i
      /\ PageAt(i) <=> ValidPage(ScanOffset)
  BY <1>1, InStep
<1>3. NextByte \/ Skipped(medium[cache[i]]) => ~ Wanted(ScanOffset)
  BY <1>1, <1>2 DEF Wanted
<1>4. ASSUME TakePage, NEW p \in DOMAIN medium, Wanted(p), ScanOffset < p, p < ScanOffset + PageSize
      PROVE  FALSE
  <2>1. ScanOffset \in DOMAIN medium
    BY <1>1, <1>2, <1>4 DEF ValidPage
  <2>2. p \in Nat /\ p # ScanOffset
    BY <1>2, <1>4, PageParserAssumption
  <2>3. p - ScanOffset >= PageSize \/ ScanOffset - p >= PageSize
    BY <1>4, <2>1, <2>2 DEF Wanted
  <2> QED BY <1>2, <1>4, <2>2, <2>3, Sizes
<1>5. /\ UNCHANGED <<pc, file_pos, read_bytes, last>>
      /\ i' = i + (IF TakePage THEN PageSize ELSE 1)
  BY <1>1 DEF TakePage, NextByte
<1>6. file_pos \in Nat /\ read_bytes \in Nat /\ PageSize \in Nat
  BY Sizes DEF TypeOK
<1>7. ScanOffset' = file_pos - read_bytes + i'
  BY <1>2, <1>5 DEF ScanOffset
<1>8. ScanOffset' = ScanOffset + (IF TakePage THEN PageSize ELSE 1)
  BY <1>2, <1>5, <1>6, <1>7
<1>9. ScanPhase = "scanning" /\ ScanPhase' = "scanning"
  BY <1>2, <1>5 DEF ScanPhase, Failed, Overruns, Wraps, WindowInv
<1> QED BY <1>1, <1>2, <1>3, <1>4, <1>8, <1>9

\* What the other steps are for the scan: it fails, begins, ends, stays as it is, or
\* leaves a window that was not full, and with it only positions of cut pages.
LEMMA SilentStep ==
  ASSUME TypeOK, WindowInv, [Next]_vars, ~ TakePage, ~ NextByte
  PROVE  \/ ScanPhase \in {"idle", "scanning", "failed"} /\ ScanPhase' = "failed"
         \/ ScanPhase = "idle" /\ ScanPhase' = "scanning" /\ ScanOffset' = 0
         \/ /\ ScanPhase = "scanning" /\ ScanPhase' = "finished" /\ ScanOffset' = ScanOffset
            /\ ScanOffset = FileSize
         \/ /\ ScanPhase = "scanning" /\ ScanPhase' = "scanning"
            /\ ScanOffset \in Nat /\ ScanOffset' \in ScanOffset + 1 .. FileSize
            /\ \A p \in Nat : ScanOffset <= p /\ p < ScanOffset' => Cut(p)
         \/ ScanPhase' = ScanPhase /\ ScanOffset' = ScanOffset
<1>0. /\ file_pos \in 0 .. FileSize /\ i \in 0 .. CacheSize
      /\ read_bytes \in (0 .. CacheSize) \cup {MinusOne} /\ read_bytes \in Nat
  BY Sizes DEF TypeOK
<1>1. CASE ReadCache
  <2>1. PICK got \in 1 .. CacheSize : file_pos' = file_pos + got /\ read_bytes' = got
    BY <1>1, ReadOne
  <2>2. pc = "read" /\ pc' = "scan" /\ i' = 0 /\ got # 0
    BY <1>1, ReadOne
  <2>3. read_bytes = 0 => file_pos = 0
    BY <2>2 DEF WindowInv
  <2>4. ScanOffset = file_pos /\ ScanPhase = IF read_bytes = 0 THEN "idle" ELSE "scanning"
    BY <2>2 DEF ScanOffset, ScanPhase, Failed
  <2>5. ScanOffset' = file_pos
    BY <1>0, <2>1, <2>2 DEF ScanOffset
  <2>6. ScanPhase' \in {"failed", "scanning"}
    BY <2>1, <2>2 DEF ScanPhase, Failed
  <2> QED BY <2>3, <2>4, <2>5, <2>6
<1>2. CASE EndOfFile
  <2>1. /\ pc = "read" /\ pc' = "done" /\ FileSize <= file_pos
        /\ UNCHANGED <<file_pos, read_bytes>>
    BY <1>2 DEF EndOfFile
  <2>2. ScanOffset' = ScanOffset /\ ScanOffset = file_pos
    BY <2>1 DEF ScanOffset
  <2>3. CASE read_bytes = 0
    BY <2>1, <2>2, <2>3 DEF ScanPhase, Failed
  <2>4. CASE read_bytes # 0
    <3>1. ScanPhase = "scanning" /\ ScanPhase' = "finished"
      BY <2>1, <2>4 DEF ScanPhase, Failed
    <3>2. ScanOffset = FileSize
      BY <1>0, <2>1, <2>2, Sizes
    <3> QED BY <2>2, <3>1, <3>2
  <2> QED BY <2>3, <2>4
<1>3. CASE ReadError
  <2>1. pc = "read" /\ pc' = "scan" /\ read_bytes' = MinusOne
    BY <1>3 DEF ReadError
  <2> QED BY <2>1 DEF ScanPhase, Failed, Overruns
<1>4. CASE TakePageExit \/ RunOutOfCache
  <2>1. pc = "scan" /\ pc' \in {"exit", "crash"}
    BY <1>4 DEF TakePageExit, RunOutOfCache, Scanning
  <2> QED BY <2>1 DEF ScanPhase, Failed
<1>5. CASE EndOfWindow
  <2>1. /\ pc = "scan" /\ pc' = "read" /\ UNCHANGED <<read_bytes, last, i>> /\ ~ Overruns
        /\ read_bytes # 0
    BY <1>5, WindowEnds, Sizes DEF EndOfWindow
  <2>2. ScanPhase = "scanning" /\ ScanPhase' = "scanning"
    BY <2>1 DEF ScanPhase, Failed
  <2>3. ScanOffset = file_pos - read_bytes + i /\ ScanOffset' = file_pos'
    BY <2>1 DEF ScanOffset
  <2>4. CASE ~ last
    BY <1>5, <2>2, <2>3, <2>4, WindowEnds
  <2>5. CASE last
    <3>1. /\ file_pos' = file_pos /\ file_pos \in breaks \cup {FileSize}
          /\ read_bytes <= file_pos /\ i < read_bytes /\ read_bytes - PageSize <= i
      BY <1>5, <2>5, WindowEnds
    <3>2. ScanOffset \in Nat /\ ScanOffset' \in ScanOffset + 1 .. FileSize
      BY <1>0, <2>3, <3>1, Sizes
    <3>3. ASSUME NEW p \in Nat, ScanOffset <= p, p < ScanOffset'
          PROVE  Cut(p)
      <4>1. p < file_pos /\ file_pos <= p + PageSize
        BY <1>0, <2>3, <3>1, <3>3, Sizes
      <4> QED BY <3>1, <4>1 DEF Cut
    <3> QED BY <2>2, <3>2, <3>3
  <2> QED BY <1>0, <2>4, <2>5 DEF TypeOK
<1>6. CASE UNCHANGED vars
  BY <1>6 DEF vars, ScanPhase, Failed, Overruns, Wraps, ScanOffset
<1> QED BY <1>1, <1>2, <1>3, <1>4, <1>5, <1>6 DEF Next, Step

\* Once the scan has overrun what was read it does not come back.
LEMMA OverrunStays ==
  ASSUME Overruns, TakePage \/ NextByte
  PROVE  ScanPhase = "failed" /\ ScanPhase' = "failed"
<1>1. pc = "scan" /\ UNCHANGED <<pc, read_bytes>>
  BY DEF TakePage, NextByte, Scanning
<1> QED BY <1>1 DEF ScanPhase, Failed, Overruns, Wraps

LEMMA BehindStep ==
  ASSUME medium \in Media, TypeOK, WindowInv, OutInv, NothingBehind, [Next]_vars
  PROVE  NothingBehind'
<1>1. SUFFICES ASSUME ScanPhase' \in {"scanning", "finished"},
                      NEW p \in DOMAIN medium, Wanted(p), ~ Cut(p), p < ScanOffset'
               PROVE  p \in Taken'
  BY WantedStays DEF NothingBehind
<1>2. p \in Nat
  BY PageParserAssumption
<1>3. Taken \subseteq Taken'
  BY TakenStep
<1>4. CASE TakePage \/ NextByte
  <2>1. ~ Overruns
    BY <1>1, <1>4, OverrunStays
  <2>2. ScanPhase = "scanning" /\ ScanOffset \in Nat /\ cache[i] = ScanOffset
    BY <1>4, <2>1, PassesOne, InStep DEF TakePage, NextByte
  <2>3. CASE p < ScanOffset
    BY <1>1, <1>3, <2>2, <2>3 DEF NothingBehind
  <2>4. CASE p = ScanOffset
    <3>1. TakePage /\ ~ Skipped(medium[cache[i]])
      BY <1>1, <1>4, <2>1, <2>4, PassesOne
    <3> QED BY <2>1, <2>2, <2>4, <3>1, TakenStep
  <2>5. CASE ScanOffset < p
    <3>1. CASE TakePage
      BY <1>1, <2>1, <2>5, <3>1, PassesOne
    <3>2. CASE ~ TakePage
      BY <1>1, <1>2, <1>4, <2>1, <2>2, <2>5, <3>2, PassesOne
    <3> QED BY <3>1, <3>2
  <2> QED BY <1>2, <2>2, <2>3, <2>4, <2>5
<1>5. CASE ~ TakePage /\ ~ NextByte
  <2>1. CASE ScanPhase = "idle" /\ ScanOffset' = 0
    BY <1>1, <1>2, <2>1
  <2>2. CASE ScanPhase \in {"scanning", "finished"} /\ ScanOffset' = ScanOffset
    BY <1>1, <1>3, <2>2 DEF NothingBehind
  <2>3. CASE /\ ScanPhase = "scanning" /\ ScanOffset \in Nat /\ ScanOffset' \in Nat
             /\ \A q \in Nat : ScanOffset <= q /\ q < ScanOffset' => Cut(q)
    <3>1. p < ScanOffset
      BY <1>1, <1>2, <2>3
    <3> QED BY <1>1, <1>3, <2>3, <3>1 DEF NothingBehind
  <2>4. \A q : q \in ScanOffset + 1 .. FileSize => q \in Int
    OBVIOUS
  <2> QED BY <1>1, <1>5, <2>1, <2>2, <2>3, SilentStep, Sizes
<1> QED BY <1>4, <1>5

-----------------------------------------------------------------------------
LEMMA Inductive == Spec => []IInv
<1>1. Init => IInv
  <2> SUFFICES ASSUME Init PROVE IInv
    OBVIOUS
  <2>1. TypeOK
    <3>1. \A p \in DOMAIN medium : medium[p].kind \in Kinds
      BY PageParserAssumption DEF Init, Header
    <3>2. cache \in [0 .. CacheSize - 1 -> Offsets \cup {NoByte}]
      BY DEF Init
    <3>3. \A k \in 1 .. Len(out) : out[k].page \in Offsets
      <4>1. Len(out) = 0
        BY DEF Init
      <4> QED BY <4>1
    <3>4. /\ file_pos \in 0 .. FileSize /\ i \in 0 .. CacheSize
          /\ read_bytes \in (0 .. CacheSize) \cup {MinusOne}
      BY Sizes DEF Init
    <3> QED BY <3>1, <3>2, <3>3, <3>4 DEF Init, TypeOK
  <2>2. WindowInv /\ NothingBehind
    BY Sizes DEF Init, WindowInv, NothingBehind, ScanPhase, Failed
  <2>3. OutInv
    BY DEF Init, OutInv
  <2> QED BY <2>1, <2>2, <2>3 DEF Init, IInv
<1>2. IInv /\ [Next]_vars => IInv'
  <2> SUFFICES ASSUME IInv, [Next]_vars PROVE IInv'
    OBVIOUS
  <2>1. medium' \in Media
    BY WantedStays DEF IInv
  <2> QED BY <2>1, TypeStep, WindowStep, BehindStep, OutStep DEF IInv
<1> QED BY <1>1, <1>2, PTL DEF Spec

\* Every state is well typed; in particular the cursor of process_ibfile stays in
\* what was read, as long as read did not fail or return less than a page.
THEOREM TypeCorrect == Spec => []TypeOK
<1>1. IInv => TypeOK
  BY DEF IInv
<1> QED BY <1>1, Inductive, PTL

\* Whatever the sizes of cache and file, wherever the pages begin and wherever reads
\* end early, page_parser takes every wanted page that no such end and not the end of
\* the file touches.
THEOREM NoOtherPageLost == Spec => []OnlyCutPagesLost
<1>1. IInv => OnlyCutPagesLost
  <2> SUFFICES ASSUME IInv, pc = "done", NEW p \in DOMAIN medium, Wanted(p), ~ Cut(p)
               PROVE  p \in Taken
    BY DEF OnlyCutPagesLost
  <2>1. /\ p \in Nat /\ p + PageSize <= FileSize
        /\ file_pos \in 0 .. FileSize /\ FileSize <= file_pos
    BY PageParserAssumption, Sizes DEF IInv, TypeOK, WindowInv
  <2>2. read_bytes # 0
    BY <2>1, Sizes DEF IInv, WindowInv
  <2>3. ScanPhase = "finished"
    BY <2>2 DEF ScanPhase, Failed
  <2>4. p < ScanOffset
    BY <2>1, Sizes DEF ScanOffset
  <2> QED BY <2>3, <2>4 DEF IInv, NothingBehind
<1> QED BY <1>1, Inductive, PTL

\* The static id keeps the files of INDEX pages apart for any number of pages: only
\* BLOB pages with one page id are written over each other.
THEOREM FilesKeptApart == Spec => []FilesApart
<1>1. IInv => FilesApart
  <2> SUFFICES ASSUME IInv, NEW j \in 1 .. Len(out), NEW k \in 1 .. Len(out), j # k,
                      out[j].name[1] # "COUNT", out[j].name = out[k].name
               PROVE  \A m \in {j, k} : medium[out[m].page].kind = "BLOB"
    BY DEF FilesApart
  <2>1. ~ NamedIndex(j) /\ ~ NamedIndex(k)
    BY DEF IInv, OutInv, NamedIndex
  <2> QED BY <2>1 DEF IInv, OutInv, NamedIndex
<1> QED BY <1>1, Inductive, PTL

-----------------------------------------------------------------------------
\* The refinement of PageCarving, one phase of the scan at a time.

LEMMA CarvingStart ==
  ASSUME Init
  PROVE  Carving!Init
<1>1. ScanPhase = "idle"
  BY DEF Init, ScanPhase, Failed
<1>2. Taken = {}
  <2>1. Len(out) = 0
    BY DEF Init
  <2> QED BY <2>1 DEF Taken
<1>3. Offsets \subseteq Nat
  BY Sizes DEF Offsets
<1>4. \A o \in Offsets : Wanted(o) => ValidPage(o)
  BY DEF Wanted
<1>5. Phases = [s \in Parser |-> "idle"] /\ Positions = [s \in Parser |-> 0]
  BY <1>1 DEF Phases, Positions
<1> QED BY <1>2, <1>3, <1>4, <1>5 DEF Carving!Init

\* What the scan shows of itself to PageCarving.
LEMMA Shown ==
  /\ "page_parser" \in Parser
  /\ \A s \in Parser : s = "page_parser"
  /\ Phases["page_parser"] = ScanPhase
  /\ ScanPhase \in {"scanning", "finished"} => Positions["page_parser"] = ScanOffset
BY DEF Parser, Phases, Positions

LEMMA MediumStays ==
  ASSUME [Next]_vars
  PROVE  /\ {o \in Offsets : ValidPage(o)}' = {o \in Offsets : ValidPage(o)}
         /\ {o \in Offsets : Wanted(o) /\ ~ Cut(o)}' = {o \in Offsets : Wanted(o) /\ ~ Cut(o)}
<1>1. UNCHANGED <<mode, filter, medium>>
  BY WantedStays
<1> QED BY <1>1, WantedStays DEF ValidPage

\* Every entry of the mapping is the one scan.
LEMMA OneScan ==
  ASSUME NEW from, NEW to, Positions["page_parser"] = from, Positions'["page_parser"] = to
  PROVE  /\ Positions' = [Positions EXCEPT !["page_parser"] = to]
         /\ [s \in Parser |-> Taken]' = [[s \in Parser |-> Taken] EXCEPT !["page_parser"] = Taken']
         /\ Phases' = [Phases EXCEPT !["page_parser"] = ScanPhase']
<1>1. Parser = {"page_parser"}
  BY DEF Parser
<1> QED BY <1>1 DEF Positions, Phases

\* A step of the scan saves the page it steps over, skips a page or a byte, or no
\* longer counts.
LEMMA ScanStep ==
  ASSUME IInv, TakePage \/ NextByte
  PROVE  Carving!Next \/ UNCHANGED Carving!vars
<1> DEFINE o == ScanOffset
           step == IF TakePage THEN PageSize ELSE 1
           hits == TakePage /\ ~ Skipped(medium[cache[i]])
<1>0. [Next]_vars /\ Scanning
  BY DEF Next, Step, TakePage, NextByte
<1>1. UNCHANGED <<{x \in Offsets : ValidPage(x)}, {x \in Offsets : Wanted(x) /\ ~ Cut(x)}>>
  BY <1>0, MediumStays
<1>2. CASE Overruns
  <2>1. ScanPhase = "failed" /\ ScanPhase' = "failed" /\ Taken' = Taken
    BY <1>0, <1>2, OverrunStays, TakenStep DEF IInv
  <2>2. UNCHANGED <<Phases, Positions>>
    BY <2>1 DEF Phases, Positions
  <2> QED BY <1>1, <2>1, <2>2 DEF Carving!vars
<1>3. CASE ~ Overruns
  <2>1. /\ ScanPhase = "scanning" /\ ScanPhase' = "scanning" /\ ScanOffset' = o + step
        /\ cache[i] = o /\ o \in Nat /\ o + PageSize < FileSize
    BY <1>0, <1>3, InStep, PassesOne DEF IInv
  <2>2. Phases["page_parser"] = "scanning" /\ UNCHANGED Phases
    BY <2>1 DEF Phases, Parser
  <2>3. Positions["page_parser"] = o /\ Positions'["page_parser"] = ScanOffset'
    BY <2>1 DEF Positions, Parser
  <2>4. /\ Positions' = [Positions EXCEPT !["page_parser"] = Positions["page_parser"] + step]
        /\ [s \in Parser |-> Taken]' = [[s \in Parser |-> Taken] EXCEPT !["page_parser"] = Taken']
    BY <2>1, <2>3, OneScan
  <2>5. /\ Positions["page_parser"] + step \in Positions["page_parser"] + 1 .. FileSize
        /\ Positions'["page_parser"] = Positions["page_parser"] + step
    BY <2>1, <2>3, Sizes
  <2>6. ASSUME NEW x \in {y \in Offsets : Wanted(y) /\ ~ Cut(y)}, o <= x, x < o + step
        PROVE  x = o /\ hits
    <3>1. x \in Nat /\ Wanted(x) /\ x \in DOMAIN medium
      BY <2>6, Sizes DEF Offsets, Wanted, ValidPage
    <3>2. x = o
      BY <1>3, <2>1, <2>6, <3>1, PassesOne DEF IInv
    <3> QED BY <1>3, <3>1, <3>2, PassesOne DEF IInv
  <2>7. CASE hits
    <3>1. Taken' = Taken \cup {o} /\ step = PageSize
      BY <1>0, <1>3, <2>1, <2>7, TakenStep DEF IInv
    <3>2. o \in {x \in Offsets : ValidPage(x)}
      BY <1>3, <2>1, <2>7, PassesOne, PageThere DEF IInv, TakePage
    <3>3. Carving!Misses("page_parser", o + 1 .. (o + step) - 1)
      <4> SUFFICES ASSUME NEW x \in {y \in Offsets : Wanted(y) /\ ~ Cut(y)}, o + 1 <= x, x <= (o + step) - 1
                   PROVE  FALSE
        BY DEF Carving!Misses
      <4>1. x \in Int
        BY DEF Offsets
      <4> QED BY <2>1, <2>6, <4>1, Sizes
    <3>4. Carving!Misses("page_parser",
                         Positions["page_parser"] + 1 .. Positions'["page_parser"] - 1)
      BY <2>3, <2>5, <3>3
    <3>5. [s \in Parser |-> Taken]' =
            [[s \in Parser |-> Taken] EXCEPT !["page_parser"] = @ \cup {Positions["page_parser"]}]
      BY <2>3, <2>4, <3>1 DEF Parser
    <3>6. Carving!Save("page_parser")
      BY <1>1, <2>2, <2>3, <2>4, <3>1, <3>2, <3>4, <3>5 DEF Carving!Save
    <3> QED BY <3>6 DEF Carving!Next, Parser
  <2>8. CASE ~ hits
    <3>1. Taken' = Taken
      BY <1>0, <1>3, <2>8, TakenStep DEF IInv
    <3>2. Carving!Misses("page_parser", o .. (o + step) - 1)
      <4> SUFFICES ASSUME NEW x \in {y \in Offsets : Wanted(y) /\ ~ Cut(y)}, o <= x, x <= (o + step) - 1
                   PROVE  FALSE
        BY DEF Carving!Misses
      <4>1. x \in Int
        BY DEF Offsets
      <4> QED BY <2>1, <2>6, <2>8, <4>1, Sizes
    <3>3. Carving!Misses("page_parser",
                         Positions["page_parser"] .. (Positions["page_parser"] + step) - 1)
      BY <2>3, <3>2
    <3>4. Carving!Skip("page_parser")
      BY <1>1, <2>2, <2>4, <2>5, <3>1, <3>3 DEF Carving!Skip
    <3> QED BY <3>4 DEF Carving!Next, Parser
  <2> QED BY <2>7, <2>8
<1> QED BY <1>2, <1>3

\* The other steps begin the scan, finish it, make it fail, or change nothing.
LEMMA OtherStep ==
  ASSUME IInv, [Next]_vars, ~ TakePage, ~ NextByte
  PROVE  Carving!Next \/ UNCHANGED Carving!vars
<1>1. UNCHANGED <<{x \in Offsets : ValidPage(x)}, {x \in Offsets : Wanted(x) /\ ~ Cut(x)}>>
  BY MediumStays
<1>2. [s \in Parser |-> Taken]' = [s \in Parser |-> Taken]
  BY TakenStep DEF IInv
<1>3. Phases["page_parser"] = ScanPhase /\ Phases' = [Phases EXCEPT !["page_parser"] = ScanPhase']
  BY OneScan, Shown
<1>4. CASE ScanPhase' = "failed" /\ ScanPhase \in {"idle", "scanning", "failed"}
  <2>1. Positions'["page_parser"] = 0
    BY <1>4 DEF Positions, Parser
  <2>2. Positions' = [Positions EXCEPT !["page_parser"] = 0]
    BY <2>1, OneScan
  <2>3. CASE ScanPhase = "failed"
    <3>1. UNCHANGED <<Phases, Positions>>
      BY <1>4, <2>3 DEF Phases, Positions
    <3> QED BY <1>1, <1>2, <3>1 DEF Carving!vars
  <2>4. CASE ScanPhase # "failed"
    <3>1. Carving!Fail("page_parser")
      BY <1>1, <1>2, <1>3, <1>4, <2>2, <2>4 DEF Carving!Fail
    <3> QED BY <3>1 DEF Carving!Next, Parser
  <2> QED BY <2>3, <2>4
<1>5. CASE ScanPhase = "idle" /\ ScanPhase' = "scanning" /\ ScanOffset' = 0
  <2>1. Positions'["page_parser"] = 0
    BY <1>5 DEF Positions, Parser
  <2>2. Positions' = [Positions EXCEPT !["page_parser"] = 0]
    BY <2>1, OneScan
  <2>3. [s \in Parser |-> 0]["page_parser"] = 0
    BY DEF Parser
  <2>4. Carving!Begin("page_parser")
    BY <1>1, <1>2, <1>3, <1>5, <2>2, <2>3 DEF Carving!Begin
  <2> QED BY <2>4 DEF Carving!Next, Parser
<1>6. CASE /\ ScanPhase = "scanning" /\ ScanPhase' = "finished" /\ ScanOffset' = ScanOffset
           /\ ScanOffset = FileSize
  <2>1. Positions["page_parser"] = ScanOffset /\ UNCHANGED Positions
    BY <1>6 DEF Positions, Parser
  <2>2. [s \in Parser |-> FileSize]["page_parser"] = FileSize /\ FileSize + PageSize > FileSize
    BY Sizes DEF Parser
  <2>3. Carving!Finish("page_parser")
    BY <1>1, <1>2, <1>3, <1>6, <2>1, <2>2 DEF Carving!Finish
  <2> QED BY <2>3 DEF Carving!Next, Parser
<1>7. ASSUME ScanPhase = "scanning", ScanPhase' = "scanning", ScanOffset \in Nat,
             NEW to \in ScanOffset + 1 .. FileSize, ScanOffset' = to,
             \A p \in Nat : ScanOffset <= p /\ p < to => Cut(p)
      PROVE  Carving!Next
  <2>1. Positions["page_parser"] = ScanOffset /\ Positions'["page_parser"] = to
    BY <1>7 DEF Positions, Parser
  <2>2. Positions' = [Positions EXCEPT !["page_parser"] = to]
    BY <2>1, OneScan
  <2>3. Phases["page_parser"] = "scanning" /\ UNCHANGED Phases
    BY <1>7 DEF Phases, Parser
  <2>4. Carving!Misses("page_parser", ScanOffset .. to - 1)
    <3> SUFFICES ASSUME NEW x \in {y \in Offsets : Wanted(y) /\ ~ Cut(y)},
                        ScanOffset <= x, x <= to - 1
                 PROVE  FALSE
      BY DEF Carving!Misses
    <3>1. x \in Nat /\ ~ Cut(x) /\ x < to
      BY Sizes DEF Offsets
    <3> QED BY <1>7, <3>1
  <2>5. Carving!Skip("page_parser")
    BY <1>1, <1>2, <1>7, <2>1, <2>2, <2>3, <2>4 DEF Carving!Skip
  <2> QED BY <2>5 DEF Carving!Next, Parser
<1>8. CASE ScanPhase' = ScanPhase /\ ScanOffset' = ScanOffset
  <2>1. UNCHANGED <<Phases, Positions>>
    BY <1>8 DEF Phases, Positions
  <2> QED BY <1>1, <1>2, <2>1 DEF Carving!vars
<1> QED BY <1>4, <1>5, <1>6, <1>7, <1>8, SilentStep DEF IInv

\* process_ibfile of page_parser carves the pages that no end of a read touches as
\* PageCarving says, although it reads the end of each full window twice and goes on
\* behind a short one.
THEOREM CarvingImplemented == Spec => CarvesPages
<1>1. IInv /\ [Next]_vars => [Carving!Next]_(Carving!vars)
  <2>1. CASE TakePage \/ NextByte
    BY <2>1, ScanStep
  <2>2. CASE ~ TakePage /\ ~ NextByte
    BY <2>2, OtherStep
  <2> QED BY <2>1, <2>2
<1> QED BY <1>1, CarvingStart, Inductive, PTL DEF Spec, CarvesPages, Carving!Spec
=============================================================================
