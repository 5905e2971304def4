------------------------- MODULE StreamParserProofs -------------------------
(***************************************************************************)
(* Proofs about StreamParser, for every number of workers, every cache and *)
(* page size, every medium and every set of failing system calls.          *)
(***************************************************************************)
EXTENDS StreamParser, TLAPS

\* The slices begin and have lengths that are byte counts.
LEMMA SliceType == /\ \A w \in Workers : Start(w) \in Nat
                   /\ SliceLength \in Nat
<1>1. ASSUME NEW a \in Nat, NEW b \in Nat \ {0} PROVE a \div b \in Nat
  BY <1>1
<1>2. ASSUME NEW w \in Workers PROVE w * IbSize \in Nat
  BY <1>2, SizesAssumption DEF Workers
<1>3. QED
  BY <1>1, <1>2, SizesAssumption DEF Start, SliceLength, Workers

\* A skip moves the cursor by at least one byte and stays within the cache.
LEMMA StepBounds ==
  ASSUME NEW o \in Int, NEW left \in Nat, left >= PageSize,
         NEW step \in Steps(o, left)
  PROVE  step \in Nat /\ 1 <= step /\ step <= left
<1>1. CASE ~ ZeroWordAt(o)
  BY <1>1, SizesAssumption DEF Steps
<1>2. CASE ZeroWordAt(o)
  <2>1. PICK i \in ZeroRunEnds(o, left) : step = i - (ZeroWord - 1)
    BY <1>2 DEF Steps
  <2>2. ASSUME i \in 0 .. left - 1, o + i \notin medium.zero
        PROVE  i >= ZeroWord
    BY <2>2, <1>2, SizesAssumption DEF ZeroWordAt
  <2>3. i \in Nat /\ i >= ZeroWord /\ i <= left + 1
    BY <2>1, <2>2, SizesAssumption DEF ZeroRunEnds
  <2>4. QED
    BY <2>1, <2>3, SizesAssumption
<1>3. QED
  BY <1>1, <1>2

-----------------------------------------------------------------------------
\* No step takes a variable out of its type.
LEMMA TypeStep ==
  ASSUME TypeOK, [Next]_vars PROVE TypeOK'
<1>1. CASE UNCHANGED vars
  BY <1>1 DEF vars, parentVars, cacheVars, TypeOK
<1>2. CASE Fork
  <2>1. n \in Workers /\ n' \in 0 .. NCpu
    BY <1>2, SizesAssumption DEF Fork, TypeOK, Workers
  <2>2. QED
    BY <1>2, <2>1 DEF Fork, TypeOK, cacheVars
<1>3. CASE StartWaiting
  BY <1>3, SizesAssumption DEF StartWaiting, TypeOK, cacheVars
<1>4. CASE Wait
  <2>1. n' \in 0 .. NCpu
    BY <1>4, SizesAssumption DEF Wait, TypeOK
  <2>2. reaped' \subseteq Workers
    <3>1. n \in Workers
      BY <1>4, SizesAssumption DEF Wait, TypeOK, Workers
    <3>2. reaped' = reaped \/ \E w \in Workers : reaped' = reaped \cup {w}
      BY <1>4, <3>1 DEF Wait
    <3>3. QED
      BY <3>2 DEF TypeOK
  <2>3. QED
    BY <1>4, <2>1, <2>2 DEF Wait, TypeOK, cacheVars
<1>5. CASE Report
  BY <1>5 DEF Report, TypeOK, cacheVars
<1>6. ASSUME NEW w \in Workers, Worker(w) PROVE TypeOK'
  <2>1. CASE OpenIbfile(w)
    BY <2>1, SliceType DEF OpenIbfile, TypeOK, parentVars
  <2>2. CASE ReadCache(w)
    <3>1. PICK got \in ReadSizes(w, CacheSize - curr_cache_offset[w]) :
            /\ got > 0
            /\ curr_disk_offset' = [curr_disk_offset EXCEPT ![w] = @ + got]
            /\ bytes_in_cache' = [bytes_in_cache EXCEPT ![w] = curr_cache_offset[w] + got]
      BY <2>2 DEF ReadCache
    <3>2. got \in Nat
      BY <3>1, SizesAssumption DEF ReadSizes, TypeOK
    <3>3. QED
      BY <2>2, <3>1, <3>2 DEF ReadCache, TypeOK, parentVars
  <2>3. CASE EndOfSlice(w)
    BY <2>3 DEF EndOfSlice, TypeOK, parentVars, cacheVars
  <2>4. CASE ReadError(w)
    BY <2>4 DEF ReadError, TypeOK, parentVars, cacheVars
  <2>5. CASE SavePage(w)
    <3>1. files' \in [FilesOf(medium) -> Seq(SaveRecord)]
      <4>1. CASE UNCHANGED files
        BY <4>1 DEF TypeOK
      <4>2. ASSUME NEW full \in BOOLEAN, 
                   files' = [files EXCEPT ![FileOf(medium.page[ScanOffset(w)])] =
                               Append(@, Record(w, ScanOffset(w), full))]
            PROVE  files' \in [FilesOf(medium) -> Seq(SaveRecord)]
        <5>1. ScanOffset(w) \in DOMAIN medium.page
          BY <2>5 DEF SavePage, ValidPage, ValidBlobPage, ValidInnodbPage
        <5>2. ScanOffset(w) \in Offsets
          BY <5>1, MediaAssumption, SizesAssumption DEF TypeOK, Offsets
        <5>3. Record(w, ScanOffset(w), full) \in SaveRecord
          BY <5>2 DEF Record, SaveRecord
        <5> DEFINE f == FileOf(medium.page[ScanOffset(w)])
        <5>4. f \in FilesOf(medium)
          BY <5>1 DEF FilesOf
        <5>5. Append(files[f], Record(w, ScanOffset(w), full)) \in Seq(SaveRecord)
          BY <5>3, <5>4 DEF TypeOK
        <5>6. QED
          BY <4>2, <5>5 DEF TypeOK
      <4>3. QED
        BY <2>5, <4>1, <4>2 DEF SavePage
    <3>2. curr_cache_offset' \in [Workers -> Nat]
      BY <2>5, SizesAssumption DEF SavePage, TypeOK
    <3>3. QED
      BY <2>5, <3>1, <3>2 DEF SavePage, TypeOK, parentVars
  <2>6. CASE SaveError(w)
    BY <2>6 DEF SaveError, TypeOK, parentVars, cacheVars
  <2>7. CASE SkipBytes(w)
    <3>1. PICK step \in Steps(ScanOffset(w), BytesLeft(w)) :
            curr_cache_offset' = [curr_cache_offset EXCEPT ![w] = @ + step]
      BY <2>7 DEF SkipBytes
    <3>2. ScanOffset(w) \in Int /\ BytesLeft(w) \in Nat /\ BytesLeft(w) >= PageSize
      BY <2>7, SizesAssumption DEF SkipBytes, TypeOK, ScanOffset, BytesLeft, PageInCache
    <3>3. step \in Nat
      BY <3>1, <3>2, StepBounds
    <3>4. QED
      BY <2>7, <3>1, <3>3 DEF SkipBytes, TypeOK, parentVars
  <2>8. CASE KeepTail(w)
    BY <2>8 DEF KeepTail, BytesLeft, TypeOK, parentVars
  <2>9. QED
    BY <1>6, <2>1, <2>2, <2>3, <2>4, <2>5, <2>6, <2>7, <2>8 DEF Worker
<1>7. QED
  BY <1>1, <1>2, <1>3, <1>4, <1>5, <1>6 DEF Next, Main, Terminated

\* Every variable keeps its type whatever the system calls return.
THEOREM TypeCorrect == Spec => []TypeOK
<1>1. Init => TypeOK
  <2> SUFFICES ASSUME Init PROVE TypeOK
    OBVIOUS
  <2>1. n \in 0 .. NCpu
    BY SizesAssumption DEF Init
  <2>2. files \in [FilesOf(medium) -> Seq(SaveRecord)]
    BY DEF Init
  <2>3. QED
    BY <2>1, <2>2 DEF Init, TypeOK
<1>2. TypeOK /\ [Next]_vars => TypeOK'
  BY TypeStep
<1>3. QED
  BY <1>1, <1>2, PTL DEF Spec

-----------------------------------------------------------------------------
(***************************************************************************)
(* The window each worker looks through.  A live worker is one that has    *)
(* opened the medium and has not failed.                                   *)
(***************************************************************************)
Live == {"read", "scan", "ok"}

WindowInv ==
  \A w \in Workers :
    /\ pc[w] = "scan" => /\ curr_cache_offset[w] <= bytes_in_cache[w]
                         /\ bytes_in_cache[w] <= CacheSize
                         /\ curr_disk_offset[w] <= FileSize
    /\ pc[w] \in {"read", "ok"} => curr_cache_offset[w] < PageSize
    /\ pc[w] \in {"none", "start"} => curr_cache_offset[w] = 0
    /\ pc[w] \in Live => Start(w) <= ScanOffset(w)
    /\ pc[w] = "ok" => SliceRead(w) \/ FileSize <= curr_disk_offset[w]

\* Workers that are not forked yet have done nothing.
ForkInv == parent = "fork" => \A w \in Workers : w >= n => pc[w] = "none"

THEOREM ForkOrder == Spec => []ForkInv
<1>1. Init => ForkInv
  BY DEF Init, ForkInv
<1>2. TypeOK /\ ForkInv /\ [Next]_vars => ForkInv'
  <2> SUFFICES ASSUME TypeOK, ForkInv, [Next]_vars PROVE ForkInv'
    OBVIOUS
  <2>1. CASE UNCHANGED vars
    BY <2>1 DEF vars, parentVars, ForkInv
  <2>2. CASE Fork
    <3>1. /\ n \in Nat /\ n' = n + 1 /\ parent = "fork" /\ parent' = "fork"
          /\ \A w \in Workers : w # n => pc'[w] = pc[w]
      BY <2>2 DEF Fork, TypeOK
    <3>2. \A w \in Workers : w \in Int
      BY DEF Workers
    <3>3. QED
      BY <3>1, <3>2 DEF ForkInv
  <2>3. CASE StartWaiting \/ Wait \/ Report
    BY <2>3 DEF StartWaiting, Wait, Report, ForkInv
  <2>4. ASSUME NEW w \in Workers, Worker(w) PROVE ForkInv'
    <3>1. pc[w] # "none" /\ UNCHANGED <<parent, n>>
      BY <2>4 DEF Worker, OpenIbfile, ReadCache, EndOfSlice, ReadError, SavePage,
                  SaveError, SkipBytes, KeepTail, parentVars
    <3>2. \A v \in Workers \ {w} : pc'[v] = pc[v]
      BY <2>4 DEF Worker, OpenIbfile, ReadCache, EndOfSlice, ReadError, SavePage,
                  SaveError, SkipBytes, KeepTail, TypeOK
    <3>3. QED
      BY <3>1, <3>2 DEF ForkInv
  <2>5. QED
    BY <2>1, <2>2, <2>3, <2>4 DEF Next, Main, Terminated
<1>3. QED
  BY <1>1, <1>2, TypeCorrect, PTL DEF Spec

\* A step of main leaves the window of every worker alone.
LEMMA MainKeepsWindows ==
  ASSUME TypeOK, Main, NEW v \in Workers
  PROVE  /\ pc'[v] = pc[v] \/ (parent = "fork" /\ v = n /\ pc'[v] = "start")
         /\ UNCHANGED <<medium, files, cacheVars>>
<1>1. CASE Fork
  BY <1>1 DEF Fork, TypeOK
<1>2. CASE StartWaiting
  BY <1>2 DEF StartWaiting
<1>3. CASE Wait
  BY <1>3 DEF Wait
<1>4. CASE Report
  BY <1>4 DEF Report
<1>5. QED
  BY <1>1, <1>2, <1>3, <1>4 DEF Main

\* A worker touches nobody's window but its own, and leaves the medium alone.
LEMMA WorkerFrame ==
  ASSUME TypeOK, NEW w \in Workers, Worker(w)
  PROVE  /\ UNCHANGED medium
         /\ \A v \in Workers \ {w} : /\ pc'[v] = pc[v]
                                     /\ curr_disk_offset'[v] = curr_disk_offset[v]
                                     /\ curr_cache_offset'[v] = curr_cache_offset[v]
                                     /\ bytes_in_cache'[v] = bytes_in_cache[v]
BY DEF Worker, OpenIbfile, ReadCache, EndOfSlice, ReadError, SavePage,
       SaveError, SkipBytes, KeepTail, TypeOK, cacheVars

\* What a step of a live worker that saves nothing does to its window.
LEMMA SilentStep ==
  ASSUME TypeOK, WindowInv, NEW w \in Workers,
         ReadCache(w) \/ EndOfSlice(w) \/ KeepTail(w)
  PROVE  /\ pc[w] \in Live /\ pc'[w] \in Live
         /\ ScanOffset(w)' = ScanOffset(w)
         /\ curr_disk_offset'[w] >= curr_disk_offset[w]
         /\ UNCHANGED files
         /\ pc'[w] = "scan" => /\ curr_cache_offset'[w] <= bytes_in_cache'[w]
                               /\ bytes_in_cache'[w] <= CacheSize
                               /\ curr_disk_offset'[w] <= FileSize
         /\ pc'[w] \in {"read", "ok"} => curr_cache_offset'[w] < PageSize
         /\ pc'[w] = "ok" => SliceRead(w)' \/ FileSize <= curr_disk_offset'[w]
<1>1. CASE ReadCache(w)
  <2>1. PICK got \in ReadSizes(w, CacheSize - curr_cache_offset[w]) :
          /\ got > 0
          /\ curr_disk_offset' = [curr_disk_offset EXCEPT ![w] = @ + got]
          /\ bytes_in_cache' = [bytes_in_cache EXCEPT ![w] = curr_cache_offset[w] + got]
    BY <1>1 DEF ReadCache
  <2>2. /\ got \in Nat /\ got <= CacheSize - curr_cache_offset[w]
        /\ got <= FileSize - curr_disk_offset[w]
    BY <2>1, SizesAssumption DEF ReadSizes, TypeOK
  <2>3. /\ pc[w] = "read" /\ pc'[w] = "scan" /\ curr_cache_offset'[w] = 0
        /\ curr_disk_offset'[w] = curr_disk_offset[w] + got
        /\ bytes_in_cache'[w] = curr_cache_offset[w] + got
        /\ UNCHANGED files
    BY <1>1, <2>1 DEF ReadCache, TypeOK
  <2>4. /\ curr_disk_offset[w] \in Nat /\ curr_cache_offset[w] \in Nat
        /\ CacheSize \in Nat /\ FileSize \in Nat
    BY SizesAssumption DEF TypeOK
  <2>5. ScanOffset(w)' = ScanOffset(w)
    BY <2>2, <2>3, <2>4 DEF ScanOffset
  <2>6. QED
    BY <2>2, <2>3, <2>4, <2>5 DEF Live
<1>2. CASE EndOfSlice(w)
  <2>1. /\ pc[w] = "read" /\ pc'[w] = "ok" /\ UNCHANGED <<cacheVars, files>>
    BY <1>2 DEF EndOfSlice, TypeOK
  <2>2. /\ curr_disk_offset[w] \in Nat /\ curr_cache_offset[w] \in Nat
        /\ curr_cache_offset[w] < PageSize
    BY <2>1 DEF TypeOK, WindowInv
  <2>3. SliceRead(w) \/ FileSize <= curr_disk_offset[w]
    BY <1>2, <2>2, SizesAssumption DEF EndOfSlice, ReadSizes
  <2>4. QED
    BY <2>1, <2>2, <2>3 DEF ScanOffset, Live, cacheVars, SliceRead
<1>3. CASE KeepTail(w)
  <2>1. /\ pc[w] = "scan" /\ pc'[w] = "read" /\ ~ PageInCache(w)
        /\ curr_cache_offset'[w] = IF BytesLeft(w) > 0 THEN BytesLeft(w) ELSE 0
        /\ UNCHANGED <<curr_disk_offset, bytes_in_cache, files>>
    BY <1>3 DEF KeepTail, TypeOK
  <2>2. /\ curr_disk_offset[w] \in Nat /\ curr_cache_offset[w] \in Nat
        /\ bytes_in_cache[w] \in Nat /\ curr_cache_offset[w] <= bytes_in_cache[w]
    BY <2>1 DEF TypeOK, WindowInv
  <2>3. QED
    BY <2>1, <2>2, SizesAssumption DEF ScanOffset, Live, BytesLeft, PageInCache
<1>4. QED
  BY <1>1, <1>2, <1>3

\* What a step of a worker that scans does to its window.
LEMMA ScanStep ==
  ASSUME TypeOK, WindowInv, NEW w \in Workers, SavePage(w) \/ SkipBytes(w)
  PROVE  /\ pc[w] = "scan" /\ pc'[w] = "scan"
         /\ UNCHANGED <<curr_disk_offset, bytes_in_cache>>
         /\ \E step \in Nat :
              /\ 1 <= step /\ step <= BytesLeft(w)
              /\ curr_cache_offset'[w] = curr_cache_offset[w] + step
              /\ ScanOffset(w)' = ScanOffset(w) + step
              /\ SavePage(w) => step = PageSize
              /\ SkipBytes(w) => step \in Steps(ScanOffset(w), BytesLeft(w))
         /\ curr_cache_offset'[w] <= bytes_in_cache'[w]
<1>1. /\ pc[w] = "scan" /\ pc'[w] = "scan" /\ PageInCache(w)
      /\ UNCHANGED <<pc, curr_disk_offset, bytes_in_cache>>
  BY DEF SavePage, SkipBytes
<1>2. /\ curr_disk_offset[w] \in Nat /\ curr_cache_offset[w] \in Nat
      /\ bytes_in_cache[w] \in Nat /\ curr_cache_offset[w] <= bytes_in_cache[w]
      /\ BytesLeft(w) \in Nat /\ BytesLeft(w) >= PageSize /\ ScanOffset(w) \in Int
  BY <1>1, SizesAssumption DEF TypeOK, WindowInv, BytesLeft, PageInCache, ScanOffset
<1>3. ASSUME SavePage(w)
      PROVE  ~ SkipBytes(w) /\ curr_cache_offset'[w] = curr_cache_offset[w] + PageSize
  BY <1>3 DEF SavePage, SkipBytes, TypeOK
<1>4. ASSUME SkipBytes(w)
      PROVE  \E step \in Steps(ScanOffset(w), BytesLeft(w)) :
               curr_cache_offset'[w] = curr_cache_offset[w] + step
  BY <1>4 DEF SkipBytes, TypeOK
<1>5. \E step \in Nat :
        /\ 1 <= step /\ step <= BytesLeft(w)
        /\ curr_cache_offset'[w] = curr_cache_offset[w] + step
        /\ SavePage(w) => step = PageSize
        /\ SkipBytes(w) => step \in Steps(ScanOffset(w), BytesLeft(w))
  BY <1>2, <1>3, <1>4, StepBounds, SizesAssumption
<1>6. QED
  BY <1>1, <1>2, <1>5 DEF ScanOffset, BytesLeft

-----------------------------------------------------------------------------
\* The window of every worker stays inside its cache, its file and its slice.
THEOREM WindowCorrect == Spec => []WindowInv
<1>1. Init => WindowInv
  BY DEF Init, WindowInv, Live
<1>2. TypeOK /\ ForkInv /\ WindowInv /\ [Next]_vars => WindowInv'
  <2> SUFFICES ASSUME TypeOK, ForkInv, WindowInv, [Next]_vars, NEW v \in Workers
               PROVE  WindowInv!(v)'
    BY DEF WindowInv
  <2> USE DEF WindowInv
  <2>1. CASE UNCHANGED <<pc, cacheVars>>
    BY <2>1 DEF cacheVars, ScanOffset, SliceRead
  <2>2. CASE Main
    <3>1. CASE pc'[v] = pc[v]
      BY <2>2, <3>1, MainKeepsWindows DEF cacheVars, ScanOffset, SliceRead
    <3>2. CASE pc'[v] # pc[v]
      <4>1. parent = "fork" /\ v = n /\ pc'[v] = "start" /\ UNCHANGED cacheVars
        BY <2>2, <3>2, MainKeepsWindows
      <4>2. pc[v] = "none"
        BY <4>1 DEF ForkInv, TypeOK
      <4>3. QED
        BY <4>1, <4>2 DEF cacheVars, Live
    <3>3. QED
      BY <3>1, <3>2
  <2>3. ASSUME NEW w \in Workers, Worker(w) PROVE WindowInv!(v)'
    <3>1. CASE v # w
      BY <2>3, <3>1, WorkerFrame DEF ScanOffset, SliceRead
    <3>2. CASE v = w
      <4>1. CASE OpenIbfile(w)
        BY <3>2, <4>1, SizesAssumption, SliceType DEF OpenIbfile, TypeOK, Live, ScanOffset
      <4>2. CASE ReadCache(w) \/ EndOfSlice(w) \/ KeepTail(w)
        BY <3>2, <4>2, SilentStep DEF Live
      <4>3. CASE SavePage(w) \/ SkipBytes(w)
        BY <3>2, <4>3, ScanStep, SliceType DEF Live, ScanOffset, TypeOK
      <4>4. CASE ReadError(w) \/ SaveError(w)
        BY <3>2, <4>4 DEF ReadError, SaveError, TypeOK, Live
      <4>5. QED
        BY <2>3, <4>1, <4>2, <4>3, <4>4 DEF Worker
    <3>3. QED
      BY <3>1, <3>2
  <2>4. QED
    BY <2>1, <2>2, <2>3 DEF Next, Terminated, vars
<1>3. QED
  BY <1>1, <1>2, TypeCorrect, ForkOrder, PTL DEF Spec

\* The cursor stays inside the cached bytes and a read always finds room.
THEOREM CursorStaysInCache == Spec => []CursorInCache
<1>1. TypeOK /\ WindowInv => CursorInCache
  BY SizesAssumption DEF TypeOK, WindowInv, CursorInCache
<1>2. QED
  BY <1>1, TypeCorrect, WindowCorrect, PTL

-----------------------------------------------------------------------------
\* Appending one record to one file.
LEMMA AppendToFile ==
  ASSUME NEW D, NEW F \in [D -> Seq(SaveRecord)], NEW g \in D, NEW e \in SaveRecord,
         NEW G, G = [F EXCEPT ![g] = Append(@, e)]
  PROVE  /\ G \in [D -> Seq(SaveRecord)]
         /\ \A f \in D : \A i \in 1 .. Len(F[f]) : i \in 1 .. Len(G[f]) /\ G[f][i] = F[f][i]
         /\ \A f \in D : \A i \in 1 .. Len(G[f]) :
              i \in 1 .. Len(F[f]) \/ (f = g /\ i = Len(F[g]) + 1 /\ G[f][i] = e)
         /\ Len(F[g]) + 1 \in 1 .. Len(G[g]) /\ G[g][Len(F[g]) + 1] = e
<1>1. /\ G[g] = Append(F[g], e) /\ F[g] \in Seq(SaveRecord)
      /\ \A f \in D \ {g} : G[f] = F[f]
  OBVIOUS
<1>2. /\ Append(F[g], e) \in Seq(SaveRecord) /\ Len(F[g]) \in Nat
      /\ Len(Append(F[g], e)) = Len(F[g]) + 1
      /\ Append(F[g], e)[Len(F[g]) + 1] = e
      /\ \A i \in 1 .. Len(F[g]) : Append(F[g], e)[i] = F[g][i]
  BY <1>1
<1>3. G \in [D -> Seq(SaveRecord)]
  BY <1>1, <1>2
<1>4. ASSUME NEW f \in D, NEW i \in 1 .. Len(F[f])
      PROVE  i \in 1 .. Len(G[f]) /\ G[f][i] = F[f][i]
  BY <1>1, <1>2, <1>4
<1>5. ASSUME NEW f \in D, NEW i \in 1 .. Len(G[f])
      PROVE  i \in 1 .. Len(F[f]) \/ (f = g /\ i = Len(F[g]) + 1 /\ G[f][i] = e)
  BY <1>1, <1>2, <1>5
<1>6. QED
  BY <1>1, <1>2, <1>3, <1>4, <1>5

\* Saving appends the page at the cursor to a file, unless it is filtered out.
LEMMA SaveStep ==
  ASSUME TypeOK, NEW w \in Workers, SavePage(w)
  PROVE  /\ ScanOffset(w) \in DOMAIN medium.page /\ ScanOffset(w) \in Offsets
         /\ \/ UNCHANGED files /\ Filtered(medium.page[ScanOffset(w)])
            \/ \E g \in FilesOf(medium), e \in SaveRecord :
                 /\ e.worker = w /\ e.page = ScanOffset(w)
                 /\ files' = [files EXCEPT ![g] = Append(@, e)]
<1>1. ScanOffset(w) \in DOMAIN medium.page
  BY DEF SavePage, ValidPage, ValidBlobPage, ValidInnodbPage
<1>2. ScanOffset(w) \in Offsets
  BY <1>1, MediaAssumption, SizesAssumption DEF TypeOK, Offsets
<1>3. FileOf(medium.page[ScanOffset(w)]) \in FilesOf(medium)
  BY <1>1 DEF FilesOf
<1>4. \A full \in BOOLEAN :
        /\ Record(w, ScanOffset(w), full) \in SaveRecord
        /\ Record(w, ScanOffset(w), full).worker = w
        /\ Record(w, ScanOffset(w), full).page = ScanOffset(w)
  BY <1>2 DEF Record, SaveRecord
<1>5. CASE ~ Filtered(medium.page[ScanOffset(w)])
  <2>1. \E full \in BOOLEAN :
          files' = [files EXCEPT ![FileOf(medium.page[ScanOffset(w)])] =
                      Append(@, Record(w, ScanOffset(w), full))]
    BY <1>5 DEF SavePage
  <2>2. QED
    BY <1>1, <1>2, <1>3, <1>4, <2>1
<1>6. CASE Filtered(medium.page[ScanOffset(w)])
  BY <1>1, <1>2, <1>6 DEF SavePage
<1>7. QED
  BY <1>5, <1>6

\* A live worker only moves forward.
LEMMA MovesForward ==
  ASSUME TypeOK, WindowInv, NEW w \in Workers, Worker(w)
  PROVE  /\ pc'[w] \notin {"none", "start"}
         /\ pc[w] # "start" =>
              /\ pc[w] \in Live
              /\ curr_disk_offset'[w] >= curr_disk_offset[w]
              /\ pc'[w] \in Live => ScanOffset(w)' >= ScanOffset(w)
         /\ SavePage(w) \/ UNCHANGED files
<1> curr_disk_offset[w] \in Nat /\ ScanOffset(w) \in Int
  BY DEF TypeOK, ScanOffset
<1>1. CASE OpenIbfile(w)
  BY <1>1 DEF OpenIbfile, TypeOK
<1>2. CASE ReadCache(w) \/ EndOfSlice(w) \/ KeepTail(w)
  BY <1>2, SilentStep DEF Live
<1>3. CASE SavePage(w) \/ SkipBytes(w)
  <2>1. pc[w] = "scan" /\ pc'[w] = "scan" /\ UNCHANGED curr_disk_offset
    BY <1>3, ScanStep
  <2>2. ScanOffset(w)' >= ScanOffset(w)
    BY <1>3, ScanStep
  <2>3. SavePage(w) \/ UNCHANGED files
    BY <1>3 DEF SkipBytes
  <2>4. QED
    BY <2>1, <2>2, <2>3 DEF Live
<1>4. CASE ReadError(w) \/ SaveError(w)
  BY <1>4 DEF ReadError, SaveError, TypeOK, Live, cacheVars
<1>5. QED
  BY <1>1, <1>2, <1>3, <1>4 DEF Worker

-----------------------------------------------------------------------------
(***************************************************************************)
(* The records: each lies between the start of its worker's slice and what *)
(* the worker has read; while the worker lives, before its scan position.  *)
(***************************************************************************)
InWindow(r) ==
  /\ pc[r.worker] \notin {"none", "start"}
  /\ Start(r.worker) <= r.page
  /\ r.page + PageSize <= curr_disk_offset[r.worker]
  /\ pc[r.worker] \in Live => r.page + PageSize <= ScanOffset(r.worker)

RecordInv == \A f \in DOMAIN files : \A i \in 1 .. Len(files[f]) : InWindow(files[f][i])

\* A record in its worker's window stays there.
LEMMA RecordsStay ==
  ASSUME TypeOK, ForkInv, WindowInv, [Next]_vars, NEW r \in SaveRecord, InWindow(r)
  PROVE  InWindow(r)'
<1> DEFINE v == r.worker
<1>1. v \in Workers /\ r.page \in Nat
  BY SizesAssumption DEF SaveRecord, Offsets
<1>2. CASE pc'[v] = pc[v] /\ UNCHANGED cacheVars
  BY <1>2 DEF InWindow, ScanOffset, cacheVars
<1>3. CASE Main
  <2>1. ~ (parent = "fork" /\ v = n)
    BY <1>1 DEF InWindow, ForkInv, TypeOK
  <2>2. QED
    BY <1>1, <1>2, <1>3, <2>1, MainKeepsWindows
<1>4. ASSUME NEW w \in Workers, Worker(w) PROVE InWindow(r)'
  <2>1. CASE v # w
    BY <1>1, <1>4, <2>1, WorkerFrame DEF InWindow, ScanOffset
  <2>2. CASE v = w
    <3>1. /\ curr_disk_offset[w] \in Nat /\ curr_disk_offset'[w] \in Int
          /\ curr_disk_offset'[w] >= curr_disk_offset[w] /\ pc'[w] \notin {"none", "start"}
      <4>1. TypeOK'
        BY <1>4, TypeStep DEF Next
      <4>2. QED
        BY <1>4, <2>2, <4>1, MovesForward DEF InWindow, TypeOK
    <3>2. ScanOffset(w) \in Int /\ ScanOffset(w)' \in Int
      <4>1. TypeOK'
        BY <1>4, TypeStep DEF Next
      <4>2. QED
        BY <4>1 DEF TypeOK, ScanOffset
    <3>3. pc'[w] \in Live => pc[w] \in Live /\ ScanOffset(w)' >= ScanOffset(w)
      BY <1>4, <2>2, MovesForward DEF InWindow
    <3>4. PageSize \in Nat
      BY SizesAssumption
    <3>5. QED
      BY <1>1, <2>2, <3>1, <3>2, <3>3, <3>4 DEF InWindow
  <2>3. QED
    BY <2>1, <2>2
<1>5. CASE UNCHANGED vars
  BY <1>2, <1>5 DEF vars, cacheVars
<1>6. QED
  BY <1>3, <1>4, <1>5 DEF Next, Terminated

\* Files only change by the append of SavePage.
LEMMA FilesStep ==
  ASSUME TypeOK, WindowInv, [Next]_vars
  PROVE  /\ UNCHANGED medium
         /\ UNCHANGED files \/ \E w \in Workers : SavePage(w)
<1>1. CASE UNCHANGED vars
  BY <1>1 DEF vars
<1>2. CASE Main
  BY <1>2, SizesAssumption DEF Main, Fork, StartWaiting, Wait, Report
<1>3. ASSUME NEW w \in Workers, Worker(w)
      PROVE  UNCHANGED medium /\ (SavePage(w) \/ UNCHANGED files)
  BY <1>3, WorkerFrame, MovesForward
<1>4. QED
  BY <1>1, <1>2, <1>3 DEF Next, Terminated

THEOREM RecordsInWindow == Spec => []RecordInv
<1>1. Init => RecordInv
  BY DEF Init, RecordInv
<1>2. TypeOK /\ ForkInv /\ WindowInv /\ RecordInv /\ [Next]_vars => RecordInv'
  <2> SUFFICES ASSUME TypeOK, ForkInv, WindowInv, RecordInv, [Next]_vars PROVE RecordInv'
    OBVIOUS
  <2>1. ASSUME NEW f \in DOMAIN files, NEW i \in 1 .. Len(files[f]),
               NEW r, r = files[f][i]
        PROVE  InWindow(r)'
    <3>1. r \in SaveRecord
      BY <2>1 DEF TypeOK
    <3>2. InWindow(r)
      BY <2>1 DEF RecordInv
    <3>3. QED
      BY <3>1, <3>2, RecordsStay
  <2>2. CASE UNCHANGED files
    BY <2>1, <2>2 DEF RecordInv, InWindow
  <2>3. ASSUME NEW w \in Workers, SavePage(w), files' # files PROVE RecordInv'
    <3>1. PICK g \in FilesOf(medium), e \in SaveRecord :
            /\ e.worker = w /\ e.page = ScanOffset(w)
            /\ files' = [files EXCEPT ![g] = Append(@, e)]
      BY <2>3, SaveStep
    <3>2. files \in [FilesOf(medium) -> Seq(SaveRecord)]
      BY DEF TypeOK
    <3>3. \A f \in DOMAIN files' : \A i \in 1 .. Len(files'[f]) :
            \/ f \in DOMAIN files /\ i \in 1 .. Len(files[f]) /\ files'[f][i] = files[f][i]
            \/ files'[f][i] = e
      BY <3>1, <3>2, AppendToFile
    <3>4. InWindow(e)'
      <4>1. /\ pc[w] = "scan" /\ pc'[w] = "scan" /\ UNCHANGED <<curr_disk_offset, bytes_in_cache>>
            /\ ScanOffset(w)' = ScanOffset(w) + PageSize
            /\ curr_cache_offset'[w] <= bytes_in_cache'[w]
        BY <2>3, ScanStep
      <4>2. Start(w) <= ScanOffset(w)
        BY <4>1 DEF WindowInv, Live
      <4>3. TypeOK'
        BY TypeStep
      <4>4. ScanOffset(w)' <= curr_disk_offset'[w]
        BY <4>1, <4>3 DEF TypeOK, ScanOffset
      <4>5. Start(w)' = Start(w)
        BY DEF Start
      <4>6. ScanOffset(w)' <= ScanOffset(w)'
        BY <4>3 DEF TypeOK, ScanOffset
      <4>7. QED
        BY <3>1, <4>1, <4>2, <4>4, <4>5, <4>6 DEF InWindow
    <3>5. ASSUME NEW f \in DOMAIN files', NEW i \in 1 .. Len(files'[f]),
                 NEW r, r = files'[f][i]
          PROVE  InWindow(r)'
      BY <2>1, <3>3, <3>4, <3>5
    <3>6. QED
      BY <3>5 DEF RecordInv, InWindow
  <2>4. QED
    BY <2>2, <2>3, FilesStep
<1>3. QED
  BY <1>1, <1>2, TypeCorrect, ForkOrder, WindowCorrect, PTL DEF Spec

\* Only bytes the worker has read, at or after its start, are ever saved.
THEOREM SavesStayInWindow == Spec => []SavesInWindow
<1>1. RecordInv => SavesInWindow
  BY DEF RecordInv, InWindow, SavesInWindow
<1>2. QED
  BY <1>1, RecordsInWindow, PTL

\* The pages one worker puts into a file ascend and do not overlap.
THEOREM WorkersKeepOrder == Spec => []WorkerOrderInFile
<1>1. Init => WorkerOrderInFile
  BY DEF Init, WorkerOrderInFile
<1>2. TypeOK /\ WindowInv /\ RecordInv /\ WorkerOrderInFile /\ [Next]_vars => WorkerOrderInFile'
  <2> SUFFICES ASSUME TypeOK, WindowInv, RecordInv, WorkerOrderInFile, [Next]_vars
               PROVE  WorkerOrderInFile'
    OBVIOUS
  <2>1. CASE UNCHANGED files
    BY <2>1 DEF WorkerOrderInFile
  <2>2. ASSUME NEW w \in Workers, SavePage(w), files' # files PROVE WorkerOrderInFile'
    <3>1. PICK g \in FilesOf(medium), e \in SaveRecord :
            /\ e.worker = w /\ e.page = ScanOffset(w)
            /\ files' = [files EXCEPT ![g] = Append(@, e)]
      BY <2>2, SaveStep
    <3>2. files \in [FilesOf(medium) -> Seq(SaveRecord)]
      BY DEF TypeOK
    <3>3. /\ files' \in [FilesOf(medium) -> Seq(SaveRecord)]
          /\ \A f \in FilesOf(medium) : \A i \in 1 .. Len(files[f]) : files'[f][i] = files[f][i]
          /\ \A f \in FilesOf(medium) : \A i \in 1 .. Len(files'[f]) :
               i \in 1 .. Len(files[f]) \/ (f = g /\ i = Len(files[g]) + 1 /\ files'[f][i] = e)
      BY <3>1, <3>2, AppendToFile
    <3>4. \A i \in 1 .. Len(files[g]) :
            files[g][i].worker = w => files[g][i].page + PageSize <= e.page
      <4>1. pc[w] = "scan"
        BY <2>2 DEF SavePage
      <4>2. QED
        BY <3>1, <3>2, <4>1 DEF RecordInv, InWindow, Live
    <3> SUFFICES ASSUME NEW f \in FilesOf(medium),
                        NEW i \in 1 .. Len(files'[f]), NEW j \in 1 .. Len(files'[f]),
                        i < j, files'[f][i].worker = files'[f][j].worker
                 PROVE  files'[f][i].page + PageSize <= files'[f][j].page
      BY <3>3 DEF WorkerOrderInFile
    <3>5. CASE j \in 1 .. Len(files[f])
      <4>1. i \in 1 .. Len(files[f]) /\ files'[f][i] = files[f][i] /\ files'[f][j] = files[f][j]
        BY <3>3, <3>5
      <4>2. QED
        BY <3>2, <3>5, <4>1 DEF WorkerOrderInFile
    <3>6. CASE j \notin 1 .. Len(files[f])
      <4>1. f = g /\ j = Len(files[g]) + 1 /\ files'[f][j] = e
        BY <3>3, <3>6
      <4>2. i \in 1 .. Len(files[g]) /\ files'[f][i] = files[g][i]
        BY <3>2, <3>3, <4>1
      <4>3. QED
        BY <3>1, <3>4, <4>1, <4>2
    <3>7. QED
      BY <3>5, <3>6
  <2>3. QED
    BY <2>1, <2>2, FilesStep
<1>3. QED
  BY <1>1, <1>2, TypeCorrect, WindowCorrect, RecordsInWindow, PTL DEF Spec

-----------------------------------------------------------------------------
\* Skipping never moves the cursor over a wanted page.
LEMMA SkipMisses ==
  ASSUME TypeOK, WindowInv, NEW w \in Workers, SkipBytes(w),
         NEW p \in DOMAIN medium.page, Wanted(p), ScanOffset(w) <= p
  PROVE  ScanOffset(w)' <= p
<1> DEFINE o == ScanOffset(w)
           left == BytesLeft(w)
<1>1. /\ o \in Int /\ p \in Int /\ left \in Int /\ ZeroWord \in Nat /\ ZeroWord > 1
  BY MediaAssumption, SizesAssumption DEF TypeOK, ScanOffset, BytesLeft
<1>2. PICK step \in Steps(o, left) : step \in Nat /\ ScanOffset(w)' = o + step
  BY ScanStep
<1>3. CASE ~ ZeroWordAt(o)
  <2>1. step = 1
    BY <1>2, <1>3 DEF Steps
  <2>2. p # o
    BY DEF SkipBytes, Wanted
  <2>3. QED
    BY <1>1, <1>2, <2>1, <2>2
<1>4. CASE ZeroWordAt(o)
  <2>1. PICK i \in ZeroRunEnds(o, left) : step = i - (ZeroWord - 1)
    BY <1>2, <1>4 DEF Steps
  <2>2. /\ i \in Int /\ i <= left + 1
        /\ \A k \in 0 .. left - 1 : k < i => o + k \in medium.zero
    BY <1>1, <2>1 DEF ZeroRunEnds
  <2>3. PICK k \in 0 .. ZeroWord - 2 : p + k \notin medium.zero
    BY DEF Wanted
  <2>4. ASSUME p < o + step PROVE FALSE
    <3>1. /\ p + k - o \in 0 .. left - 1 /\ p + k - o < i
      BY <1>1, <2>1, <2>2, <2>3, <2>4
    <3>2. o + (p + k - o) = p + k
      BY <1>1, <2>3
    <3>3. QED
      BY <2>2, <2>3, <3>1, <3>2
  <2>5. QED
    BY <1>1, <1>2, <2>4
<1>5. QED
  BY <1>3, <1>4

\* What is wanted depends on the medium alone.
LEMMA WantedStays ==
  ASSUME UNCHANGED medium, NEW p
  PROVE  Wanted(p)' <=> Wanted(p)
BY DEF Wanted, ValidPage, ValidBlobPage, ValidInnodbPage, ZeroWordAt

\* What is saved stays saved.
LEMMA SavedStays ==
  ASSUME TypeOK, WindowInv, [Next]_vars, NEW v, NEW p, SavedBy(v, p)
  PROVE  SavedBy(v, p)'
<1>0. PICK f \in DOMAIN files : \E i \in 1 .. Len(files[f]) :
        files[f][i].worker = v /\ files[f][i].page = p
  BY DEF SavedBy
<1>1. PICK i \in 1 .. Len(files[f]) : files[f][i].worker = v /\ files[f][i].page = p
  BY <1>0
<1>2. CASE UNCHANGED files
  BY <1>1, <1>2 DEF SavedBy
<1>3. ASSUME NEW w \in Workers, SavePage(w), files' # files PROVE SavedBy(v, p)'
  <2>1. files \in [FilesOf(medium) -> Seq(SaveRecord)]
    BY DEF TypeOK
  <2>2. PICK g \in FilesOf(medium), e \in SaveRecord :
          files' = [files EXCEPT ![g] = Append(@, e)]
    BY <1>3, SaveStep
  <2>3. f \in DOMAIN files' /\ i \in 1 .. Len(files'[f]) /\ files'[f][i] = files[f][i]
    BY <1>1, <2>1, <2>2, AppendToFile
  <2>4. QED
    BY <1>1, <2>3 DEF SavedBy
<1>4. QED
  BY <1>2, <1>3, FilesStep

\* The page a worker steps over by saving it is saved.
LEMMA SaveMisses ==
  ASSUME TypeOK, WindowInv, NEW w \in Workers, SavePage(w),
         NEW p \in DOMAIN medium.page, Wanted(p), ScanOffset(w) <= p, p < ScanOffset(w)'
  PROVE  SavedBy(w, p)'
<1>1. ScanOffset(w) \in DOMAIN medium.page /\ ScanOffset(w) \in Int
  BY SaveStep DEF Offsets
<1>2. ScanOffset(w)' = ScanOffset(w) + PageSize
  BY ScanStep
<1>3. p \in Int
  BY MediaAssumption, SizesAssumption DEF TypeOK
<1>4. p = ScanOffset(w)
  <2>1. p # ScanOffset(w) => p - ScanOffset(w) >= PageSize \/ ScanOffset(w) - p >= PageSize
    BY <1>1 DEF Wanted
  <2>2. QED
    BY <1>1, <1>2, <1>3, <2>1, SizesAssumption
<1>5. PICK g \in FilesOf(medium), e \in SaveRecord :
        /\ e.worker = w /\ e.page = ScanOffset(w)
        /\ files' = [files EXCEPT ![g] = Append(@, e)]
  BY <1>4, SaveStep DEF Wanted
<1>6. files \in [FilesOf(medium) -> Seq(SaveRecord)]
  BY DEF TypeOK
<1>7. g \in DOMAIN files' /\ \E i \in 1 .. Len(files'[g]) : files'[g][i] = e
  BY <1>5, <1>6, AppendToFile
<1>8. QED
  BY <1>4, <1>5, <1>7 DEF SavedBy

\* Every wanted page behind a live worker's scan position was saved by it.
THEOREM NothingSkipped == Spec => []NoPageSkipped
<1>1. Init => NoPageSkipped
  BY DEF Init, NoPageSkipped
<1>2. TypeOK /\ ForkInv /\ WindowInv /\ NoPageSkipped /\ [Next]_vars => NoPageSkipped'
  <2> SUFFICES ASSUME TypeOK, ForkInv, WindowInv, NoPageSkipped, [Next]_vars,
                      NEW v \in Workers, NEW p \in DOMAIN medium.page,
                      pc'[v] \in Live, Wanted(p), Start(v) <= p, p < ScanOffset(v)'
               PROVE  SavedBy(v, p)'
    BY FilesStep, WantedStays DEF NoPageSkipped, Live, Start
  <2>1. p \in Int /\ ScanOffset(v) \in Int /\ ScanOffset(v)' \in Int /\ Start(v) \in Int
    <3>1. TypeOK'
      BY TypeStep
    <3>2. p \in Int
      BY MediaAssumption, SizesAssumption DEF TypeOK
    <3>3. ScanOffset(v) \in Int
      BY DEF TypeOK, ScanOffset
    <3>4. ScanOffset(v)' \in Int
      BY <3>1 DEF TypeOK, ScanOffset
    <3>5. QED
      BY <3>2, <3>3, <3>4, SliceType
  <2>2. ASSUME pc[v] \in Live, p < ScanOffset(v) PROVE SavedBy(v, p)'
    BY <2>2, SavedStays DEF NoPageSkipped, Live
  <2>3. CASE pc'[v] = pc[v] /\ UNCHANGED cacheVars
    BY <2>2, <2>3 DEF ScanOffset, cacheVars
  <2>4. CASE Main
    BY <2>3, <2>4, MainKeepsWindows DEF Live
  <2>5. ASSUME NEW w \in Workers, Worker(w) PROVE SavedBy(v, p)'
    <3>1. CASE v # w
      BY <2>2, <2>5, <3>1, WorkerFrame DEF ScanOffset
    <3>2. CASE v = w /\ OpenIbfile(w)
      BY <2>1, <3>2, SizesAssumption DEF OpenIbfile, TypeOK, ScanOffset, WindowInv, Live
    <3>3. CASE v = w /\ (ReadCache(w) \/ EndOfSlice(w) \/ KeepTail(w))
      BY <2>2, <3>3, SilentStep
    <3>4. CASE v = w /\ SkipBytes(w)
      BY <2>1, <2>2, <3>4, ScanStep, SkipMisses DEF Live
    <3>5. CASE v = w /\ SavePage(w)
      BY <2>1, <2>2, <3>5, ScanStep, SaveMisses DEF Live
    <3>6. CASE v = w /\ (ReadError(w) \/ SaveError(w))
      BY <3>6 DEF ReadError, SaveError, TypeOK, Live
    <3>7. QED
      BY <2>5, <3>1, <3>2, <3>3, <3>4, <3>5, <3>6 DEF Worker
  <2>6. CASE UNCHANGED vars
    BY <2>3, <2>6 DEF vars, cacheVars
  <2>7. QED
    BY <2>4, <2>5, <2>6 DEF Next, Terminated
<1>3. QED
  BY <1>1, <1>2, TypeCorrect, ForkOrder, WindowCorrect, PTL DEF Spec

\* A worker that ends successfully has saved every wanted page of its slice.
THEOREM SlicesAreComplete == Spec => []SliceComplete
<1>1. TypeOK /\ WindowInv /\ NoPageSkipped => SliceComplete
  <2> SUFFICES ASSUME TypeOK, WindowInv, NoPageSkipped,
                      NEW w \in Workers, pc[w] = "ok",
                      NEW p \in DOMAIN medium.page, Wanted(p), Start(w) <= p,
                      p + PageSize <= Start(w) + SliceLength
               PROVE  SavedBy(w, p)
    BY DEF SliceComplete
  <2>1. /\ p \in Int /\ p + PageSize <= FileSize
        /\ curr_disk_offset[w] \in Int /\ curr_cache_offset[w] \in Int
    BY MediaAssumption, SizesAssumption DEF TypeOK
  <2>2. curr_cache_offset[w] < PageSize /\ (SliceRead(w) \/ FileSize <= curr_disk_offset[w])
    BY DEF WindowInv
  <2>3. p < ScanOffset(w)
    BY <2>1, <2>2, SizesAssumption, SliceType DEF ScanOffset, SliceRead
  <2>4. QED
    BY <2>3 DEF NoPageSkipped
<1>2. QED
  BY <1>1, TypeCorrect, WindowCorrect, NothingSkipped, PTL

-----------------------------------------------------------------------------
\* main has waited for every child with a smaller index than its loop variable.
WaitInv ==
  /\ parent \in {"wait", "done"} =>
       \A w \in Workers : (pids[w] = "child" /\ w < n) => pc[w] \in {"ok", "failed"}
  /\ \A w \in reaped : pc[w] \in {"ok", "failed"}
  /\ parent = "done" => n = NCpu
  /\ parent = "fork" => reaped = {}

THEOREM WaitsForAll == Spec => []WaitInv
<1>1. Init => WaitInv
  BY DEF Init, WaitInv
<1>2. TypeOK /\ ForkInv /\ WaitInv /\ [Next]_vars => WaitInv'
  <2> SUFFICES ASSUME TypeOK, ForkInv, WaitInv, [Next]_vars PROVE WaitInv'
    OBVIOUS
  <2>1. CASE UNCHANGED vars
    BY <2>1 DEF vars, parentVars, WaitInv
  <2>2. CASE Fork
    BY <2>2 DEF Fork, WaitInv
  <2>3. CASE StartWaiting
    BY <2>3 DEF StartWaiting, WaitInv, Workers
  <2>4. CASE Report
    BY <2>4 DEF Report, WaitInv
  <2>5. CASE Wait
    <3>1. n \in Workers /\ n \in Nat /\ n' = n + 1 /\ parent = "wait" /\ parent' = "wait"
          /\ UNCHANGED <<pids, pc>>
      BY <2>5, SizesAssumption DEF Wait, TypeOK, Workers
    <3>2. \A w \in reaped' : pc[w] \in {"ok", "failed"}
      BY <2>5 DEF Wait, WaitInv
    <3>3. pids[n] = "child" => n \in reaped'
      BY <2>5, <3>1 DEF Wait
    <3>4. \A w \in Workers : w < n + 1 => w < n \/ w = n
      BY <3>1 DEF Workers
    <3>5. QED
      BY <3>1, <3>2, <3>3, <3>4 DEF WaitInv
  <2>6. ASSUME NEW w \in Workers, Worker(w) PROVE WaitInv'
    <3>1. pc[w] \notin {"ok", "failed"} /\ UNCHANGED parentVars
      BY <2>6 DEF Worker, OpenIbfile, ReadCache, EndOfSlice, ReadError, SavePage,
                  SaveError, SkipBytes, KeepTail
    <3>2. \A v \in Workers \ {w} : pc'[v] = pc[v]
      BY <2>6, WorkerFrame
    <3>3. QED
      BY <3>1, <3>2 DEF WaitInv, parentVars, TypeOK
  <2>7. QED
    BY <2>1, <2>2, <2>3, <2>4, <2>5, <2>6 DEF Next, Main, Terminated
<1>3. QED
  BY <1>1, <1>2, TypeCorrect, ForkOrder, PTL DEF Spec

\* "All workers finished" is printed only after every forked worker has exited.
THEOREM ReportsAfterWorkers == Spec => []ReportAfterWorkers
<1>1. TypeOK /\ WaitInv => ReportAfterWorkers
  BY SizesAssumption DEF WaitInv, ReportAfterWorkers, Workers, TypeOK
<1>2. QED
  BY <1>1, TypeCorrect, WaitsForAll, PTL

-----------------------------------------------------------------------------
(***************************************************************************)
(* StreamParser implements PageCarving.                                    *)
(***************************************************************************)
\* Where a worker stands for PageCarving.
Position(w) == IF ScanPhase(w) \in {"scanning", "finished"} THEN ScanOffset(w) ELSE 0
PagesOf(w)  == {o \in Offsets : SavedBy(w, o)}

\* A step of one worker is invisible in what the others have done.
LEMMA OthersStay ==
  ASSUME TypeOK, WindowInv, NEW w \in Workers, Worker(w), NEW v \in Workers \ {w}
  PROVE  /\ ScanPhase(v)' = ScanPhase(v) /\ Position(v)' = Position(v)
         /\ PagesOf(v)' = PagesOf(v)
<1>1. ScanPhase(v)' = ScanPhase(v) /\ ScanOffset(v)' = ScanOffset(v)
  BY WorkerFrame DEF ScanPhase, ScanOffset
<1>2. Position(v)' = Position(v)
  BY <1>1 DEF Position
<1>3. ASSUME NEW p, SavedBy(v, p)' PROVE SavedBy(v, p)
  <2>1. CASE UNCHANGED files
    BY <1>3, <2>1 DEF SavedBy
  <2>2. CASE SavePage(w) /\ files' # files
    <3>1. files \in [FilesOf(medium) -> Seq(SaveRecord)]
      BY DEF TypeOK
    <3>2. PICK g \in FilesOf(medium), e \in SaveRecord :
            e.worker = w /\ files' = [files EXCEPT ![g] = Append(@, e)]
      BY <2>2, SaveStep
    <3>3. PICK f \in DOMAIN files' : \E i \in 1 .. Len(files'[f]) :
            files'[f][i].worker = v /\ files'[f][i].page = p
      BY <1>3 DEF SavedBy
    <3>4. PICK i \in 1 .. Len(files'[f]) :
            files'[f][i].worker = v /\ files'[f][i].page = p
      BY <3>3
    <3>5. f \in DOMAIN files /\ i \in 1 .. Len(files[f]) /\ files[f][i] = files'[f][i]
      BY <3>1, <3>2, <3>4, AppendToFile
    <3>6. QED
      BY <3>4, <3>5 DEF SavedBy
  <2>3. QED
    BY <2>1, <2>2, MovesForward
<1>4. ASSUME NEW p, SavedBy(v, p) PROVE SavedBy(v, p)'
  BY <1>4, SavedStays DEF Next
<1>5. QED
  BY <1>1, <1>2, <1>3, <1>4 DEF PagesOf

\* Every wanted page and every valid one is where it was.
LEMMA MediumStays ==
  ASSUME UNCHANGED medium
  PROVE  UNCHANGED <<ValidOffsets, WantedOffsets>>
BY WantedStays DEF ValidOffsets, WantedOffsets, ValidPage, ValidBlobPage, ValidInnodbPage,
   ZeroWordAt

\* The mapping, and its next value, of a worker.
LEMMA Mapped ==
  ASSUME TypeOK, WindowInv, NEW w \in Workers, Worker(w)
  PROVE  /\ Phases[w] = ScanPhase(w) /\ Phases' = [Phases EXCEPT ![w] = ScanPhase(w)']
         /\ Positions[w] = Position(w) /\ Positions' = [Positions EXCEPT ![w] = Position(w)']
         /\ SavedPages[w] = PagesOf(w) /\ SavedPages' = [SavedPages EXCEPT ![w] = PagesOf(w)']
<1>1. \A v \in Workers : v # w =>
        /\ ScanPhase(v)' = ScanPhase(v) /\ Position(v)' = Position(v)
        /\ PagesOf(v)' = PagesOf(v)
  BY OthersStay
<1>2. Phases = [v \in Workers |-> ScanPhase(v)] /\ Phases' = [v \in Workers |-> ScanPhase(v)']
  BY DEF Phases
<1>3. /\ Positions = [v \in Workers |-> Position(v)]
      /\ Positions' = [v \in Workers |-> Position(v)']
  BY DEF Positions, Position
<1>4. SavedPages = [v \in Workers |-> PagesOf(v)] /\ SavedPages' = [v \in Workers |-> PagesOf(v)']
  BY DEF SavedPages, PagesOf
<1>5. QED
  BY <1>1, <1>2, <1>3, <1>4

\* A worker that moves on without saving misses nothing.
LEMMA SkipIsSkip ==
  ASSUME TypeOK, WindowInv, NEW w \in Workers, SkipBytes(w)
  PROVE  Carving!Skip(w)
<1>1. /\ pc[w] = "scan" /\ pc'[w] = "scan" /\ UNCHANGED <<medium, files>>
      /\ UNCHANGED curr_disk_offset /\ curr_cache_offset'[w] <= bytes_in_cache'[w]
  BY ScanStep DEF SkipBytes
<1>2. PICK step \in Nat : step >= 1 /\ ScanOffset(w)' = ScanOffset(w) + step
  BY ScanStep
<1>3. TypeOK' /\ Worker(w)
  BY TypeStep DEF Worker, Next
<1>4. /\ ScanOffset(w) \in Int /\ ScanOffset(w)' <= FileSize /\ FileSize \in Nat
  BY <1>1, <1>3, SizesAssumption DEF TypeOK, ScanOffset, WindowInv
<1>5. /\ Phases[w] = "scanning" /\ Phases' = [Phases EXCEPT ![w] = "scanning"]
      /\ Positions[w] = ScanOffset(w) /\ Positions' = [Positions EXCEPT ![w] = ScanOffset(w)']
      /\ SavedPages' = SavedPages
  <2>1. ScanPhase(w) = "scanning" /\ ScanPhase(w)' = "scanning" /\ PagesOf(w)' = PagesOf(w)
    BY <1>1 DEF ScanPhase, PagesOf, SavedBy
  <2>2. QED
    BY <1>3, <2>1, Mapped DEF Position, SavedPages, PagesOf
<1>6. UNCHANGED <<ValidOffsets, WantedOffsets>>
  BY <1>1, MediumStays
<1>7. Carving!Misses(w, ScanOffset(w) .. ScanOffset(w)' - 1)
  <2>1. SUFFICES ASSUME NEW p \in WantedOffsets, ScanOffset(w) <= p, p <= ScanOffset(w)' - 1
                 PROVE  FALSE
    BY DEF Carving!Misses
  <2>2. p \in DOMAIN medium.page /\ Wanted(p) /\ p \in Int
    BY SizesAssumption
       DEF WantedOffsets, Wanted, ValidPage, ValidBlobPage, ValidInnodbPage, Offsets
  <2>3. ScanOffset(w)' <= p
    BY <2>1, <2>2, SkipMisses
  <2>4. QED
    BY <1>2, <1>4, <2>1, <2>2, <2>3
<1>8. Phases' = Phases
  BY <1>5 DEF Phases
<1>9. ScanOffset(w)' \in ScanOffset(w) + 1 .. FileSize
  BY <1>2, <1>4
<1>10. QED
  BY <1>5, <1>6, <1>7, <1>8, <1>9 DEF Carving!Skip

\* A worker that steps over a page saves it, or skips it because of the filter.
LEMMA SaveIsSave ==
  ASSUME TypeOK, WindowInv, NEW w \in Workers, SavePage(w)
  PROVE  Carving!Save(w) \/ Carving!Skip(w)
<1> DEFINE o == ScanOffset(w)
<1>1. /\ pc[w] = "scan" /\ pc'[w] = "scan" /\ UNCHANGED medium /\ ValidPage(o)
      /\ UNCHANGED <<curr_disk_offset, bytes_in_cache>>
      /\ curr_cache_offset'[w] <= bytes_in_cache'[w]
      /\ ScanOffset(w)' = o + PageSize
  BY ScanStep DEF SavePage
<1>2. TypeOK' /\ Worker(w)
  BY TypeStep DEF Worker, Next
<1>3. /\ o \in Offsets /\ o \in Int /\ o \in DOMAIN medium.page
      /\ o + PageSize <= FileSize /\ FileSize \in Nat /\ PageSize \in Nat /\ PageSize > 1
  <2>1. o \in Offsets /\ o \in DOMAIN medium.page
    BY SaveStep
  <2>2. QED
    BY <1>1, <1>2, <2>1, SizesAssumption, MediaAssumption DEF TypeOK, Offsets
<1>4. /\ Phases[w] = "scanning" /\ Phases' = Phases
      /\ Positions[w] = o /\ Positions' = [Positions EXCEPT ![w] = o + PageSize]
      /\ SavedPages[w] = PagesOf(w) /\ SavedPages' = [SavedPages EXCEPT ![w] = PagesOf(w)']
  <2>1. ScanPhase(w) = "scanning" /\ ScanPhase(w)' = "scanning"
    BY <1>1 DEF ScanPhase
  <2>2. QED
    BY <1>1, <1>2, <2>1, Mapped DEF Position, Phases
<1>5. UNCHANGED <<ValidOffsets, WantedOffsets>>
  BY <1>1, MediumStays
<1>6. ASSUME NEW p \in WantedOffsets, o < p, p < o + PageSize PROVE FALSE
  BY <1>3, <1>6 DEF WantedOffsets, Wanted, Offsets
<1>7. CASE UNCHANGED files /\ Filtered(medium.page[o])
  <2>1. o \notin WantedOffsets
    BY <1>7 DEF WantedOffsets, Wanted
  <2>2. Carving!Misses(w, o .. (o + PageSize) - 1)
    <3>1. SUFFICES ASSUME NEW p \in WantedOffsets, o <= p, p <= (o + PageSize) - 1 PROVE FALSE
      BY DEF Carving!Misses
    <3>2. p \in Int /\ p # o
      BY <2>1, <3>1 DEF WantedOffsets, Offsets
    <3>3. QED
      BY <1>3, <1>6, <3>1, <3>2
  <2>3. SavedPages' = SavedPages
    BY <1>7 DEF SavedPages, SavedBy
  <2>4. o + PageSize \in o + 1 .. FileSize
    BY <1>3
  <2>5. Carving!Misses(w, Positions[w] .. (o + PageSize) - 1)
    BY <1>4, <2>2 DEF Carving!Misses
  <2>6. o + PageSize \in Positions[w] + 1 .. FileSize
    BY <1>4, <2>4
  <2>7. Phases[w] = "scanning" /\ Positions' = [Positions EXCEPT ![w] = o + PageSize]
        /\ UNCHANGED <<ValidOffsets, WantedOffsets, Phases, SavedPages>>
    BY <1>4, <1>5, <2>3
  <2>8. QED
    BY <2>5, <2>6, <2>7 DEF Carving!Skip
<1>8. ASSUME NEW g \in FilesOf(medium), NEW e \in SaveRecord, e.worker = w, e.page = o,
             files' = [files EXCEPT ![g] = Append(@, e)]
      PROVE  Carving!Save(w)
  <2>1. files \in [FilesOf(medium) -> Seq(SaveRecord)]
    BY DEF TypeOK
  <2>2. /\ DOMAIN files = FilesOf(medium) /\ DOMAIN files' = FilesOf(medium)
        /\ \A f \in FilesOf(medium) : \A i \in 1 .. Len(files[f]) :
             i \in 1 .. Len(files'[f]) /\ files'[f][i] = files[f][i]
        /\ \A f \in FilesOf(medium) : \A i \in 1 .. Len(files'[f]) :
             i \in 1 .. Len(files[f]) \/ (f = g /\ i = Len(files[g]) + 1 /\ files'[f][i] = e)
        /\ Len(files[g]) + 1 \in 1 .. Len(files'[g]) /\ files'[g][Len(files[g]) + 1] = e
    BY <1>8, <2>1, AppendToFile
  <2>3. ASSUME NEW q PROVE SavedBy(w, q)' <=> SavedBy(w, q) \/ q = o
    BY <1>8, <2>2 DEF SavedBy
  <2>4. PagesOf(w)' = PagesOf(w) \cup {o}
    BY <1>3, <2>3 DEF PagesOf
  <2>5. o \in ValidOffsets
    BY <1>1, <1>3 DEF ValidOffsets
  <2>6. Positions'[w] = o + PageSize
    BY <1>4 DEF Positions
  <2>7. Carving!Misses(w, o + 1 .. (o + PageSize) - 1)
    <3>1. SUFFICES ASSUME NEW p \in WantedOffsets, o + 1 <= p, p <= (o + PageSize) - 1 PROVE FALSE
      BY DEF Carving!Misses
    <3>2. p \in Int
      BY DEF WantedOffsets, Offsets
    <3>3. QED
      BY <1>3, <1>6, <3>1, <3>2
  <2>8. Carving!Misses(w, Positions[w] + 1 .. Positions'[w] - 1)
    BY <1>4, <2>6, <2>7 DEF Carving!Misses
  <2>9. /\ Phases[w] = "scanning" /\ Positions[w] \in ValidOffsets
        /\ UNCHANGED <<ValidOffsets, WantedOffsets, Phases>>
    BY <1>4, <1>5, <2>5
  <2>10. SavedPages' = [SavedPages EXCEPT ![w] = SavedPages[w] \cup {Positions[w]}]
    BY <1>4, <2>4
  <2>11. Positions' = [Positions EXCEPT ![w] = Positions[w] + PageSize]
    BY <1>4
  <2>12. QED
    BY <2>8, <2>9, <2>10, <2>11 DEF Carving!Save
<1>9. QED
  BY <1>7, <1>8, SaveStep

\* What PageCarving sees of a refill, a carried tail, and the ends of a worker.
LEMMA SilentIsFinish ==
  ASSUME TypeOK, WindowInv, NEW w \in Workers,
         OpenIbfile(w) \/ ReadCache(w) \/ EndOfSlice(w) \/ KeepTail(w) \/ ReadError(w) \/ SaveError(w)
  PROVE  Carving!Begin(w) \/ Carving!Finish(w) \/ Carving!Fail(w) \/ UNCHANGED Carving!vars
<1>1. Worker(w)
  BY DEF Worker
<1>2. UNCHANGED <<medium, files>>
  BY DEF OpenIbfile, ReadCache, EndOfSlice, KeepTail, ReadError, SaveError
<1>3. UNCHANGED <<ValidOffsets, WantedOffsets, SavedPages>>
  BY <1>2, MediumStays DEF SavedPages, SavedBy
<1>4. /\ Phases[w] = ScanPhase(w) /\ Phases' = [Phases EXCEPT ![w] = ScanPhase(w)']
      /\ Positions[w] = Position(w) /\ Positions' = [Positions EXCEPT ![w] = Position(w)']
  BY <1>1, Mapped
<1>5. CASE OpenIbfile(w)
  <2>1. ScanPhase(w) = "idle"
    BY <1>5 DEF OpenIbfile, ScanPhase
  <2>2. CASE pc' = [pc EXCEPT ![w] = "read"]
               /\ curr_disk_offset' = [curr_disk_offset EXCEPT ![w] = Start(w)]
    <3>1. pc'[w] = "read" /\ curr_disk_offset'[w] = Start(w) /\ curr_cache_offset'[w] = 0
      BY <1>5, <2>2 DEF OpenIbfile, TypeOK, WindowInv
    <3>2. ScanPhase(w)' = "scanning" /\ Position(w)' = Start(w)
      BY <3>1, SliceType DEF ScanPhase, Position, ScanOffset
    <3>3. QED
      BY <1>3, <1>4, <2>1, <3>2 DEF Carving!Begin, SliceStarts
  <2>3. CASE pc' = [pc EXCEPT ![w] = "failed"]
    <3>1. ScanPhase(w)' = "failed" /\ Position(w)' = 0
      BY <2>3 DEF TypeOK, ScanPhase, Position
    <3>2. QED
      BY <1>3, <1>4, <2>1, <3>1 DEF Carving!Fail
  <2>4. QED
    BY <1>5, <2>2, <2>3 DEF OpenIbfile
<1>6. CASE ReadCache(w) \/ KeepTail(w)
  <2>1. pc[w] \in {"read", "scan"} /\ pc'[w] \in {"read", "scan"}
    BY <1>6 DEF ReadCache, KeepTail, TypeOK
  <2>2. ScanPhase(w)' = ScanPhase(w) /\ Position(w)' = Position(w)
    BY <1>6, <2>1, SilentStep DEF ScanPhase, Position
  <2>3. Phases' = Phases /\ Positions' = Positions
    BY <1>4, <2>2 DEF Phases, Positions, Position
  <2>4. QED
    BY <1>3, <2>3 DEF Carving!vars
<1>7. CASE EndOfSlice(w)
  <2>1. pc[w] = "read" /\ pc'[w] = "ok" /\ ScanOffset(w)' = ScanOffset(w)
        /\ curr_cache_offset[w] < PageSize
    BY <1>7, SilentStep DEF EndOfSlice, TypeOK, WindowInv
  <2>2. /\ ScanPhase(w) = "scanning" /\ ScanPhase(w)' = "finished"
        /\ Position(w) = ScanOffset(w) /\ Position(w)' = Position(w)
    BY <2>1 DEF ScanPhase, Position
  <2>3. Positions' = Positions
    BY <1>4, <2>2 DEF Positions, Position
  <2>4. /\ curr_disk_offset[w] \in Nat /\ curr_cache_offset[w] \in Nat
        /\ SliceLength \in Nat /\ Start(w) \in Nat /\ PageSize \in Nat /\ FileSize \in Nat
    BY SliceType, SizesAssumption DEF TypeOK
  <2>5. SliceRead(w) \/ FileSize <= curr_disk_offset[w]
    BY <1>7, <2>1, <2>4, SizesAssumption DEF EndOfSlice, ReadSizes
  <2>6. Position(w) + PageSize > Start(w) + SliceLength \/ Position(w) + PageSize > FileSize
    BY <2>1, <2>2, <2>4, <2>5 DEF ScanOffset, SliceRead
  <2>7. QED
    BY <1>3, <1>4, <2>2, <2>3, <2>6 DEF Carving!Finish, SliceEnds
<1>8. CASE ReadError(w) \/ SaveError(w)
  <2>1. ScanPhase(w) = "scanning" /\ ScanPhase(w)' = "failed" /\ Position(w)' = 0
    BY <1>8 DEF ReadError, SaveError, TypeOK, ScanPhase, Position
  <2>2. QED
    BY <1>3, <1>4, <2>1 DEF Carving!Fail
<1>9. QED
  BY <1>5, <1>6, <1>7, <1>8

\* process_ibfile carves its slice as PageCarving says, for any number of workers.
THEOREM CarvingImplemented == Spec => CarvesPages
<1>1. Init => Carving!Init
  <2> SUFFICES ASSUME Init PROVE Carving!Init
    OBVIOUS
  <2>1. \A w \in Workers : pc[w] = "none" /\ ScanPhase(w) = "idle"
    BY DEF Init, ScanPhase
  <2>2. \A w \in Workers : \A o : ~ SavedBy(w, o)
    BY DEF Init, SavedBy
  <2>3. Phases = [w \in Workers |-> "idle"] /\ Positions = [w \in Workers |-> 0]
        /\ SavedPages = [w \in Workers |-> {}]
    BY <2>1, <2>2 DEF Phases, Positions, SavedPages
  <2>4. ValidOffsets \in SUBSET Nat /\ WantedOffsets \in SUBSET ValidOffsets
    BY SizesAssumption DEF ValidOffsets, WantedOffsets, Wanted, Offsets
  <2>5. QED
    BY <2>3, <2>4 DEF Carving!Init
<1>2. TypeOK /\ ForkInv /\ WindowInv /\ [Next]_vars => [Carving!Next]_(Carving!vars)
  <2> SUFFICES ASSUME TypeOK, ForkInv, WindowInv, [Next]_vars
               PROVE  Carving!Next \/ UNCHANGED Carving!vars
    OBVIOUS
  <2>1. ASSUME NEW w \in Workers, Worker(w) PROVE Carving!Next \/ UNCHANGED Carving!vars
    <3>1. CASE SkipBytes(w)
      BY <3>1, SkipIsSkip DEF Carving!Next
    <3>2. CASE SavePage(w)
      BY <3>2, SaveIsSave DEF Carving!Next
    <3>3. CASE ~ SkipBytes(w) /\ ~ SavePage(w)
      BY <2>1, <3>3, SilentIsFinish DEF Worker, Carving!Next
    <3>4. QED
      BY <3>1, <3>2, <3>3
  <2>2. CASE Main
    <3>1. ASSUME NEW w \in Workers
          PROVE  ScanPhase(w)' = ScanPhase(w) /\ ScanOffset(w)' = ScanOffset(w)
      <4>1. pc'[w] = pc[w] \/ (pc[w] = "none" /\ pc'[w] = "start")
        BY <2>2, MainKeepsWindows, SizesAssumption DEF ForkInv, Workers
      <4>2. UNCHANGED cacheVars
        BY <2>2, <3>1, MainKeepsWindows
      <4>3. QED
        BY <4>1, <4>2 DEF ScanPhase, ScanOffset, cacheVars
    <3>2. UNCHANGED <<medium, files>>
      BY <2>2 DEF Main, Fork, StartWaiting, Wait, Report
    <3>3. UNCHANGED <<Phases, Positions, SavedPages>>
      BY <3>1, <3>2 DEF Phases, Positions, SavedPages, SavedBy
    <3>4. UNCHANGED <<ValidOffsets, WantedOffsets>>
      BY <3>2, MediumStays
    <3>5. QED
      BY <3>3, <3>4 DEF Carving!vars
  <2>3. CASE UNCHANGED vars
    <3>1. UNCHANGED <<ValidOffsets, WantedOffsets>>
      BY <2>3, MediumStays DEF vars
    <3>2. UNCHANGED <<Phases, Positions, SavedPages>>
      BY <2>3 DEF vars, cacheVars, Phases, ScanPhase, Positions, ScanOffset, SavedPages, SavedBy
    <3>3. QED
      BY <3>1, <3>2 DEF Carving!vars
  <2>4. QED
    BY <2>1, <2>2, <2>3 DEF Next, Terminated
<1>3. QED
  BY <1>1, <1>2, TypeCorrect, ForkOrder, WindowCorrect, PTL DEF Spec, CarvesPages, Carving!Spec
=============================================================================
