--------------------------- MODULE PageToolProofs ---------------------------
(***************************************************************************)
(* Theorems about the programs that go over the pages of a file:           *)
(* ChecksumIo, InnoChecksum and IncrementalUpdate, and about the promise   *)
(* of those that carve pages out of a medium (Carving); for files of any   *)
(* size, any number of runs, and every combination of faults.              *)
(***************************************************************************)
EXTENDS ChecksumIo, InnoChecksum, IncrementalUpdate, TLAPS

CONSTANTS Scanners, PageSize, MediumSize, From, Upto
VARIABLES valid, wanted, phase, at, saved

Carving == INSTANCE PageCarving

-----------------------------------------------------------------------------
(***************************************************************************)
(* test_checksum                                                           *)
(***************************************************************************)
\* main has filled the file before it creates a thread.
MainHolds ==
  /\ main = "write" => /\ \A t \in Threads : pc[t] = "none"
                       /\ tears = 0
                       /\ Sound(buf[0])
                       /\ \A q \in PagNo : q < page => q \in DOMAIN disk
  /\ main # "write" => PagNo \subseteq DOMAIN disk
  /\ main = "create" => \A t \in Threads : t >= page => pc[t] = "none"

\* What a thread has in its slot, and what its page looks like, phase by phase.
ThreadHolds(t) ==
  LET d == disk[page_no[t]] IN
    /\ page_no[t] \in Range(t)
    /\ pc[t] = "read_high" => buf[t].low = d.low
    /\ pc[t] \in {"verify", "change"} => buf[t] = d
    /\ pc[t] \in {"change", "write", "write_high"} => Sound(buf[t])
    /\ pc[t] \in {"change", "sum", "write"} => Sound(d)
    /\ pc[t] = "write_high" => d.low = buf[t].low

Held == \A t \in Threads : ThreadHolds(t)

IInv == TypeOK /\ MainHolds /\ Held /\ PagesSound

-----------------------------------------------------------------------------
\* The range of a thread is over before the next one begins.
LEMMA RangeOrder ==
  \A t, u \in Nat : t < u => (t + 1) * RangePages <= u * RangePages
<1> SUFFICES ASSUME NEW t \in Nat, NEW u \in Nat, t < u
             PROVE  (t + 1) * RangePages <= u * RangePages
  OBVIOUS
<1>1. PICK k \in Nat : u = (t + 1) + k
  <2>1. u - (t + 1) \in Nat /\ u = (t + 1) + (u - (t + 1))
    OBVIOUS
  <2> QED BY <2>1
<1>2. u * RangePages = (t + 1) * RangePages + k * RangePages
  BY <1>1, SizeAssumption
<1>3. k * RangePages \in Nat /\ (t + 1) * RangePages \in Nat
  BY <1>1, SizeAssumption
<1> QED BY <1>2, <1>3

\* The ranges of two threads have no page in common.
LEMMA RangesApart ==
  \A t, u \in Threads : \A q \in Range(t) \cap Range(u) : t = u
<1> SUFFICES ASSUME NEW t \in Threads, NEW u \in Threads, t < u,
                    NEW q \in Range(t), q \in Range(u)
             PROVE  FALSE
  BY SizeAssumption DEF Threads
<1>1. t \in Nat /\ u \in Nat /\ RangePages \in Nat \ {0}
  BY SizeAssumption DEF Threads
<1>2. (t + 1) * RangePages \in Nat /\ u * RangePages \in Nat
  BY <1>1
<1>3. q \in Int /\ q <= (t + 1) * RangePages - 1 /\ u * RangePages <= q
  BY <1>1 DEF Range
<1> QED BY <1>1, <1>2, <1>3, RangeOrder

\* Every page of a range is a page of the file.
LEMMA RangeInFile == \A t \in Threads : Range(t) \subseteq PagNo /\ t * RangePages \in Range(t)
<1> SUFFICES ASSUME NEW t \in Threads
             PROVE  Range(t) \subseteq PagNo /\ t * RangePages \in Range(t)
  OBVIOUS
<1>1. /\ t \in Nat /\ THD_NUM \in Nat /\ t < THD_NUM /\ RangePages \in Nat \ {0}
      /\ t * RangePages \in Nat /\ (t + 1) * RangePages \in Nat /\ THD_NUM * RangePages \in Nat
  BY SizeAssumption DEF Threads
<1>2. (t + 1) * RangePages = t * RangePages + RangePages
  BY <1>1
<1>3. (t + 1) * RangePages <= THD_NUM * RangePages
  BY <1>1, RangeOrder
<1>4. Range(t) \subseteq PagNo
  BY <1>1, <1>3 DEF Range, PagNo
<1>5. t * RangePages \in Range(t)
  BY <1>1, <1>2 DEF Range
<1> QED BY <1>4, <1>5

\* What every action of a thread finds: its page is in the file.
LEMMA PageInFile ==
  ASSUME TypeOK, MainHolds, NEW t \in Threads, pc[t] # "none"
  PROVE  /\ page_no[t] \in DOMAIN disk /\ disk[page_no[t]] \in Content /\ buf[t] \in Content
         /\ \A q \in Range(t) : q \in DOMAIN disk /\ disk[q] \in Content
BY RangeInFile DEF TypeOK, MainHolds

LEMMA TypeStep ==
  ASSUME TypeOK, MainHolds, [Next]_vars
  PROVE  TypeOK'
<1>1. CASE UNCHANGED vars
  BY <1>1 DEF vars, TypeOK
<1>2. CASE WriteFile
  <2>1. 0 \in Threads /\ buf[0] \in Content /\ page + 1 \in Nat
    BY SizeAssumption DEF Threads, TypeOK
  <2> QED BY <1>2, <2>1 DEF WriteFile, TypeOK
<1>3. CASE FileWritten \/ ThreadCreate \/ ThreadWait
  BY <1>3 DEF FileWritten, ThreadCreate, ThreadWait, TypeOK, Phases
<1>4. CASE Ended
  BY <1>4 DEF Ended, vars, TypeOK
<1>5. ASSUME NEW t \in Threads, ThreadStep(t) \/ ReadError(t) \/ TornWrite(t)
      PROVE  TypeOK'
  <2>0. pc[t] # "none" /\ main' = main /\ page' = page /\ pc' \in [Threads -> Phases]
    BY <1>5 DEF TypeOK, ThreadStep, ReadLow, ReadHigh, ReadError, Verify, RandBufData,
           StoreChecksum,
           WriteLow, WriteHigh, TornWrite, Thread, Phases
  <2>1. CASE ReadLow(t)
    <3>1. PICK q \in Range(t) : /\ page_no' = [page_no EXCEPT ![t] = q]
                                /\ buf' = [buf EXCEPT ![t].low = disk[q].low]
      BY <2>1 DEF ReadLow
    <3>2. q \in PagNo /\ disk[q].low \in Bytes
      BY <2>0, <3>1, RangeInFile, PageInFile DEF Content
    <3>3. buf' \in [Threads -> Content]
      BY <3>1, <3>2 DEF TypeOK, Content
    <3> QED BY <2>0, <2>1, <3>1, <3>2, <3>3 DEF ReadLow, TypeOK
  <2>2. CASE ReadHigh(t)
    <3>1. disk[page_no[t]].high \in Bytes /\ disk[page_no[t]].sum \in (Bytes \X Bytes) \cup {<<>>}
      BY <2>0, PageInFile DEF Content
    <3>2. buf' \in [Threads -> Content]
      BY <2>2, <3>1 DEF ReadHigh, TypeOK, Content
    <3> QED BY <2>0, <2>2, <3>2 DEF ReadHigh, TypeOK
  <2>3. CASE ReadError(t) \/ Verify(t)
    BY <2>0, <2>3 DEF ReadError, Verify, TypeOK
  <2>4. CASE RandBufData(t)
    <3>1. PICK b \in Bytes : \/ buf' = [buf EXCEPT ![t].low = b]
                           \/ buf' = [buf EXCEPT ![t].high = b]
      BY <2>4 DEF RandBufData
    <3>2. [buf[t] EXCEPT !.low = b] \in Content /\ [buf[t] EXCEPT !.high = b] \in Content
      BY DEF TypeOK, Content
    <3>3. buf' \in [Threads -> Content]
      BY <3>1, <3>2 DEF TypeOK
    <3> QED BY <2>0, <2>4, <3>3 DEF RandBufData, TypeOK
  <2>5. CASE StoreChecksum(t)
    <3>1. Checksum(buf[t]) \in Bytes \X Bytes
      BY <2>0, PageInFile DEF Checksum, Content
    <3>2. buf' \in [Threads -> Content]
      BY <2>5, <3>1 DEF StoreChecksum, TypeOK, Content
    <3> QED BY <2>0, <2>5, <3>2 DEF StoreChecksum, TypeOK
  <2>6. CASE WriteLow(t) \/ WriteHigh(t)
    <3>0. /\ page_no[t] \in DOMAIN disk /\ disk \in [DOMAIN disk -> Content]
          /\ buf[t].low \in Bytes /\ buf[t].high \in Bytes
          /\ buf[t].sum \in (Bytes \X Bytes) \cup {<<>>}
      BY <2>0, PageInFile DEF TypeOK, Content
    <3>1. disk' \in [DOMAIN disk -> Content]
      <4>1. CASE WriteLow(t)
        BY <3>0, <4>1 DEF WriteLow, Content
      <4>2. CASE WriteHigh(t)
        BY <3>0, <4>2 DEF WriteHigh, Content
      <4> QED BY <2>6, <4>1, <4>2
    <3>2. DOMAIN disk' = DOMAIN disk
      BY <3>1
    <3> QED BY <2>0, <2>6, <3>1, <3>2 DEF WriteLow, WriteHigh, TypeOK
  <2>7. CASE TornWrite(t)
    <3>1. tears' \in 0 .. MaxTears
      BY <2>7, SizeAssumption DEF TornWrite, TypeOK
    <3> QED BY <2>0, <2>7, <3>1 DEF TornWrite, TypeOK
  <2> QED BY <1>5, <2>1, <2>2, <2>3, <2>4, <2>5, <2>6, <2>7 DEF ThreadStep
<1> QED BY <1>1, <1>2, <1>3, <1>4, <1>5 DEF Next, MainStep

LEMMA MainStays ==
  ASSUME TypeOK, MainHolds, [Next]_vars
  PROVE  MainHolds'
<1>1. CASE UNCHANGED vars \/ Ended
  BY <1>1 DEF vars, Ended, MainHolds
<1>2. CASE WriteFile
  <2>1. /\ main = "write" /\ UNCHANGED <<main, buf, pc, tears>>
        /\ page' = page + 1 /\ page \in Nat /\ DOMAIN disk' = DOMAIN disk \cup {page}
    BY <1>2 DEF WriteFile, TypeOK
  <2>2. \A q \in PagNo : q < page + 1 => q < page \/ q = page
    BY <2>1 DEF PagNo
  <2> QED BY <2>1, <2>2 DEF MainHolds
<1>3. CASE FileWritten
  <2>1. /\ main = "write" /\ main' = "create" /\ disk' = disk
        /\ page \in Nat /\ page \notin PagNo
    BY <1>3 DEF FileWritten, TypeOK
  <2>2. \A q \in PagNo : q < page
    BY <2>1, SizeAssumption DEF PagNo
  <2>3. \A t \in Threads : pc'[t] = "none"
    BY <1>3 DEF FileWritten, MainHolds
  <2> QED BY <2>1, <2>2, <2>3 DEF MainHolds
<1>4. CASE ThreadCreate \/ ThreadWait
  <2>1. main # "write" /\ main' # "write" /\ disk' = disk
    BY <1>4 DEF ThreadCreate, ThreadWait
  <2>2. main' = "create" => \A t \in Threads : t >= page' => pc'[t] = "none"
    <3>1. CASE ThreadCreate
      <4>1. /\ main = "create" /\ page' = page + 1 /\ page \in Nat
            /\ \A t \in Threads : t # page => pc'[t] = pc[t]
        BY <3>1 DEF ThreadCreate, TypeOK
      <4>2. \A t \in Threads : t >= page + 1 => t >= page /\ t # page
        BY <4>1 DEF Threads
      <4> QED BY <4>1, <4>2 DEF MainHolds
    <3>2. CASE ThreadWait
      BY <3>2 DEF ThreadWait
    <3> QED BY <1>4, <3>1, <3>2
  <2> QED BY <2>1, <2>2 DEF MainHolds
<1>5. ASSUME NEW t \in Threads, ThreadStep(t) \/ ReadError(t) \/ TornWrite(t)
      PROVE  MainHolds'
  <2>1. /\ pc[t] # "none" /\ main' = main /\ page' = page /\ DOMAIN disk' = DOMAIN disk
        /\ \A u \in Threads : u # t => pc'[u] = pc[u]
    BY <1>5 DEF TypeOK, ThreadStep, ReadLow, ReadHigh, ReadError, Verify, RandBufData,
           StoreChecksum,
           WriteLow, WriteHigh, TornWrite, Thread
  <2>2. main # "write"
    BY <2>1 DEF MainHolds
  <2>3. main = "create" => \A u \in Threads : u >= page => u # t
    BY <2>1 DEF MainHolds
  <2> QED BY <2>1, <2>2, <2>3 DEF MainHolds
<1> QED BY <1>1, <1>2, <1>3, <1>4, <1>5 DEF Next, MainStep

-----------------------------------------------------------------------------
\* A thread changes nothing that another one holds: slots and ranges are apart.
LEMMA OthersUndisturbed ==
  ASSUME TypeOK, MainHolds, Held,
         NEW t \in Threads, ThreadStep(t) \/ ReadError(t) \/ TornWrite(t),
         NEW u \in Threads, u # t
  PROVE  /\ pc'[u] = pc[u] /\ buf'[u] = buf[u] /\ page_no'[u] = page_no[u]
         /\ disk'[page_no[u]] = disk[page_no[u]]
<1>1. pc[t] # "none" /\ pc'[u] = pc[u]
  BY DEF TypeOK, ThreadStep, ReadLow, ReadHigh, ReadError, Verify, RandBufData, StoreChecksum,
         WriteLow, WriteHigh, TornWrite, Thread
<1>2. buf'[u] = buf[u] /\ page_no'[u] = page_no[u]
  BY DEF TypeOK, ThreadStep, ReadLow, ReadHigh, ReadError, Verify, RandBufData, StoreChecksum,
         WriteLow, WriteHigh, TornWrite
<1>3. page_no[u] # page_no[t]
  BY RangesApart DEF Held, ThreadHolds
<1>4. main # "write"
  BY <1>1 DEF MainHolds
<1>5. page_no[u] \in DOMAIN disk
  BY <1>4 DEF MainHolds, TypeOK
<1>6. disk'[page_no[u]] = disk[page_no[u]]
  BY <1>3, <1>5 DEF ThreadStep, ReadLow, ReadHigh, ReadError, Verify, RandBufData, StoreChecksum,
         WriteLow, WriteHigh, TornWrite
<1> QED BY <1>1, <1>2, <1>6

\* What the thread itself holds after a step of its own.
LEMMA OwnStep ==
  ASSUME TypeOK, MainHolds, NEW t \in Threads, ThreadHolds(t),
         ThreadStep(t) \/ ReadError(t) \/ TornWrite(t)
  PROVE  ThreadHolds(t)'
<1>0. /\ t \in DOMAIN pc /\ t \in DOMAIN buf /\ t \in DOMAIN page_no
      /\ page_no[t] \in Range(t) /\ pc[t] # "none"
  BY DEF TypeOK, ThreadHolds, ThreadStep, ReadLow, ReadHigh, ReadError, Verify, RandBufData,
         StoreChecksum, WriteLow, WriteHigh, TornWrite, Thread
<1>1. page_no[t] \in DOMAIN disk /\ disk[page_no[t]] \in Content /\ buf[t] \in Content
  BY <1>0, PageInFile
<1>2. CASE ReadLow(t)
  <2>1. PICK q \in Range(t) : /\ page_no' = [page_no EXCEPT ![t] = q]
                              /\ buf' = [buf EXCEPT ![t].low = disk[q].low]
    BY <1>2 DEF ReadLow
  <2>2. page_no'[t] = q /\ pc'[t] = "read_high" /\ disk' = disk /\ buf'[t].low = disk[q].low
    BY <1>0, <1>1, <1>2, <2>1 DEF ReadLow, Thread, Content
  <2> QED BY <2>2 DEF ThreadHolds, Range
<1>3. CASE ReadHigh(t)
  <2>1. /\ pc[t] = "read_high" /\ pc'[t] = "verify" /\ disk' = disk /\ page_no' = page_no
    BY <1>0, <1>3 DEF ReadHigh, Thread
  <2>2. buf'[t] = [buf[t] EXCEPT !.high = disk[page_no[t]].high, !.sum = disk[page_no[t]].sum]
    BY <1>0, <1>3 DEF ReadHigh
  <2>3. buf'[t] = disk[page_no[t]]
    <3>1. PICK b, d : b = buf[t] /\ d = disk[page_no[t]]
      OBVIOUS
    <3>2. b \in Content /\ d \in Content /\ b.low = d.low
      BY <1>1, <2>1, <3>1 DEF ThreadHolds
    <3>3. [b EXCEPT !.high = d.high, !.sum = d.sum] = d
      BY ONLY <3>2 DEF Content
    <3> QED BY <2>2, <3>1, <3>3
  <2> QED BY <1>0, <2>1, <2>3 DEF ThreadHolds, Range
<1>4. CASE ReadError(t)
  BY <1>0, <1>4 DEF ReadError, Thread, ThreadHolds, Range
<1>5. CASE Verify(t)
  BY <1>0, <1>5 DEF Verify, Thread, ThreadHolds, Range, Sound, Checksum
<1>6. CASE RandBufData(t)
  <2>1. /\ pc[t] = "change" /\ pc'[t] = "sum" /\ disk' = disk /\ page_no' = page_no
    BY <1>0, <1>6 DEF RandBufData, Thread
  <2>2. buf[t] = disk[page_no[t]] /\ Sound(buf[t])
    BY <2>1 DEF ThreadHolds
  <2> QED BY <1>0, <2>1, <2>2 DEF ThreadHolds, Range, Sound, Checksum
<1>7. CASE StoreChecksum(t)
  <2>1. /\ pc[t] = "sum" /\ pc'[t] = "write" /\ disk' = disk /\ page_no' = page_no
        /\ buf'[t] = [buf[t] EXCEPT !.sum = Checksum(buf[t])]
    BY <1>0, <1>7 DEF StoreChecksum, Thread
  <2>2. Sound(buf[t])' /\ (pc[t] = "sum" /\ Sound(disk[page_no[t]]) => Sound(disk[page_no[t]])')
    BY <1>1, <2>1 DEF Sound, Checksum, Content
  <2> QED BY <1>0, <2>1, <2>2 DEF ThreadHolds, Range
<1>8. CASE WriteLow(t)
  <2>1. /\ pc[t] = "write" /\ pc'[t] = "write_high" /\ buf' = buf /\ page_no' = page_no
        /\ disk'[page_no[t]].low = buf[t].low
    BY <1>0, <1>1, <1>8 DEF WriteLow, Thread, Content
  <2>2. Sound(buf[t])'
    BY <2>1 DEF ThreadHolds, Sound, Checksum
  <2> QED BY <1>0, <2>1, <2>2 DEF ThreadHolds, Range
<1>9. CASE WriteHigh(t) \/ TornWrite(t)
  BY <1>0, <1>9 DEF WriteHigh, TornWrite, Thread, ThreadHolds, Range
<1> QED BY <1>2, <1>3, <1>4, <1>5, <1>6, <1>7, <1>8, <1>9 DEF ThreadStep

LEMMA ThreadsHold ==
  ASSUME TypeOK, MainHolds, Held, [Next]_vars
  PROVE  Held'
<1>1. CASE UNCHANGED vars \/ Ended
  BY <1>1 DEF vars, Ended, Held, ThreadHolds, Range, Sound, Checksum
<1>2. CASE WriteFile
  <2>1. \A t \in Threads : pc'[t] = "none" /\ page_no' = page_no
    BY <1>2 DEF WriteFile, MainHolds
  <2> QED BY <2>1 DEF Held, ThreadHolds, Range
<1>3. CASE FileWritten \/ ThreadCreate \/ ThreadWait
  <2>1. UNCHANGED <<disk, buf, page_no>>
        /\ \A t \in Threads : pc'[t] = pc[t] \/ pc'[t] = "read"
    BY <1>3 DEF FileWritten, ThreadCreate, ThreadWait, TypeOK
  <2> QED BY <2>1 DEF Held, ThreadHolds, Range, Sound, Checksum
<1>4. ASSUME NEW t \in Threads, ThreadStep(t) \/ ReadError(t) \/ TornWrite(t)
      PROVE  Held'
  <2>1. ThreadHolds(t)'
    BY <1>4, OwnStep DEF Held
  <2>2. ASSUME NEW u \in Threads, u # t
        PROVE  ThreadHolds(u)'
    <3>1. /\ pc'[u] = pc[u] /\ buf'[u] = buf[u] /\ page_no'[u] = page_no[u]
          /\ disk'[page_no[u]] = disk[page_no[u]]
      BY <1>4, <2>2, OthersUndisturbed
    <3> QED BY <3>1 DEF Held, ThreadHolds, Range, Sound, Checksum
  <2> QED BY <2>1, <2>2 DEF Held
<1> QED BY <1>1, <1>2, <1>3, <1>4 DEF Next, MainStep

-----------------------------------------------------------------------------
\* A page that nobody is writing and that is not sound is the work of a torn write.
LEMMA PagesStaySound ==
  ASSUME IInv, [Next]_vars
  PROVE  PagesSound'
<1> USE DEF IInv
<1>1. CASE UNCHANGED vars \/ Ended
  BY <1>1 DEF vars, Ended, PagesSound, BeingWritten, Sound, Checksum
<1>2. CASE WriteFile
  <2>1. /\ \A t \in Threads : pc'[t] = "none" /\ pc[t] = "none"
        /\ Sound(buf[0]) /\ tears' = tears
        /\ \A q \in DOMAIN disk' : \/ disk'[q] = buf[0]
                                   \/ q \in DOMAIN disk /\ disk'[q] = disk[q]
    BY <1>2 DEF WriteFile, MainHolds
  <2> QED BY <2>1 DEF PagesSound, BeingWritten, Sound, Checksum
<1>3. CASE FileWritten \/ ThreadCreate \/ ThreadWait
  <2>1. UNCHANGED <<disk, tears, page_no>>
    BY <1>3 DEF FileWritten, ThreadCreate, ThreadWait
  <2>2. \A t \in Threads : pc[t] = "write_high" => pc'[t] = "write_high"
    <3>1. CASE FileWritten \/ ThreadWait
      BY <3>1 DEF FileWritten, ThreadWait
    <3>2. CASE ThreadCreate
      <4>1. page \in Threads /\ main = "create" /\ page >= page
        BY <3>2 DEF ThreadCreate, TypeOK
      <4>2. pc[page] = "none"
        BY <4>1 DEF MainHolds
      <4> QED BY <3>2, <4>2 DEF ThreadCreate, TypeOK
    <3> QED BY <1>3, <3>1, <3>2
  <2> QED BY <2>1, <2>2 DEF PagesSound, BeingWritten, Sound, Checksum
<1>4. ASSUME NEW t \in Threads, ThreadStep(t) \/ ReadError(t) \/ TornWrite(t)
      PROVE  PagesSound'
  <2> SUFFICES ASSUME NEW q \in DOMAIN disk', ~ BeingWritten(q)', ~ Sound(disk[q])'
               PROVE  tears' > 0
    BY DEF PagesSound
  <2>1. /\ DOMAIN disk' = DOMAIN disk /\ page_no[t] \in DOMAIN disk
        /\ tears \in Nat /\ tears' \in Nat /\ tears' >= tears
    <3>1. pc[t] # "none" /\ DOMAIN disk' = DOMAIN disk /\ (tears' = tears \/ tears' = tears + 1)
      BY <1>4 DEF TypeOK, ThreadStep, ReadLow, ReadHigh, ReadError, Verify, RandBufData,
             StoreChecksum, WriteLow, WriteHigh, TornWrite, Thread
    <3>2. tears \in Nat
      BY SizeAssumption DEF TypeOK
    <3> QED BY <3>1, <3>2, PageInFile
  <2>2. \A u \in Threads : u # t => pc'[u] = pc[u] /\ page_no'[u] = page_no[u]
    BY <1>4, OthersUndisturbed
  <2>3. CASE q # page_no[t]
    <3>1. disk'[q] = disk[q]
      BY <1>4, <2>1, <2>3 DEF ThreadStep, ReadLow, ReadHigh, ReadError, Verify, RandBufData,
             StoreChecksum, WriteLow, WriteHigh, TornWrite
    <3>2. ~ BeingWritten(q)
      BY <2>2, <2>3 DEF BeingWritten
    <3> QED BY <2>1, <3>1, <3>2 DEF PagesSound, Sound, Checksum
  <2>4. CASE q = page_no[t] /\ WriteLow(t)
    <3>1. pc'[t] = "write_high" /\ page_no'[t] = q
      BY <2>4 DEF WriteLow, Thread, TypeOK
    <3> QED BY <3>1 DEF BeingWritten
  <2>5. CASE q = page_no[t] /\ WriteHigh(t)
    <3>1. /\ disk'[q].low = disk[q].low /\ disk'[q].high = buf[t].high /\ disk'[q].sum = buf[t].sum
      <4>1. disk[q] \in Content
        BY <2>1, <2>5 DEF TypeOK
      <4> QED BY <2>1, <2>5, <4>1 DEF WriteHigh, Content
    <3>2. disk[q].low = buf[t].low /\ Sound(buf[t])
      BY <2>5 DEF Held, ThreadHolds, WriteHigh, Thread
    <3> QED BY <3>1, <3>2 DEF Sound, Checksum
  <2>6. CASE TornWrite(t)
    BY <2>1, <2>6 DEF TornWrite
  <2>7. CASE /\ q = page_no[t] /\ ~ WriteLow(t) /\ ~ WriteHigh(t) /\ ~ TornWrite(t)
    <3>1. pc[t] # "write_high" \/ ReadError(t)
      BY <1>4, <2>7 DEF ThreadStep, ReadLow, ReadHigh, Verify, RandBufData, StoreChecksum, Thread
    <3>2. disk' = disk /\ pc[t] # "write_high"
      BY <1>4, <2>7, <3>1 DEF ThreadStep, ReadLow, ReadHigh, ReadError, Verify, RandBufData,
             StoreChecksum, Thread
    <3>3. ~ BeingWritten(q)
      BY <2>2, <3>2 DEF BeingWritten
    <3> QED BY <2>1, <3>2, <3>3 DEF PagesSound, Sound, Checksum
  <2> QED BY <2>3, <2>4, <2>5, <2>6, <2>7
<1> QED BY <1>1, <1>2, <1>3, <1>4 DEF Next, MainStep

LEMMA Inductive == Spec => []IInv
<1>1. Init => IInv
  <2> SUFFICES ASSUME Init PROVE IInv
    OBVIOUS
  <2>0. 0 \in Threads /\ Zero \in Bytes
    BY SizeAssumption DEF Threads
  <2>1. TypeOK
    BY <2>0, SizeAssumption, RangeInFile DEF Init, TypeOK, FreshPage, Content, Phases
  <2>2. MainHolds
    BY <2>0 DEF Init, MainHolds, FreshPage, Sound, Checksum, PagNo
  <2>3. Held
    BY RangeInFile DEF Init, Held, ThreadHolds
  <2>4. PagesSound
    BY DEF Init, PagesSound
  <2> QED BY <2>1, <2>2, <2>3, <2>4 DEF IInv
<1>2. IInv /\ [Next]_vars => IInv'
  BY TypeStep, MainStays, ThreadsHold, PagesStaySound DEF IInv
<1> QED BY <1>1, <1>2, PTL DEF Spec

\* Every field keeps its type; in particular no thread leaves the file.
THEOREM TypeCorrect == Spec => []TypeOK
<1>1. IInv => TypeOK
  BY DEF IInv
<1> QED BY <1>1, Inductive, PTL

\* No thread changes a page between another one's check and change of it, for
\* any number of threads: rand_read_write of one thread is as if it were alone.
THEOREM NoInterference == Spec => []ReadStaysCurrent
<1>1. IInv => ReadStaysCurrent
  BY DEF IInv, Held, ThreadHolds, ReadStaysCurrent
<1> QED BY <1>1, Inductive, PTL

\* Without a write that stopped half-way every page of the file is sound
\* whenever nobody is writing it: a checksum error the program reports is never
\* its own doing.
THEOREM SoundUnlessTorn == Spec => []PagesSound
<1>1. IInv => PagesSound
  BY DEF IInv
<1> QED BY <1>1, Inductive, PTL

\* A thread that meets a spoilt page leaves it, so that what the file system
\* did stays to be seen.
THEOREM EvidenceStays == Spec => SpoiltStaysSpoilt
<1> DEFINE Kept == \A q \in DOMAIN disk : ~ BeingWritten(q) /\ ~ Sound(disk[q]) =>
                      disk'[q] = disk[q]
<1>1. ASSUME IInv, [Next]_vars, NEW q \in DOMAIN disk, ~ BeingWritten(q), ~ Sound(disk[q])
      PROVE  disk'[q] = disk[q]
  <2> USE DEF IInv
  <2>1. CASE UNCHANGED vars \/ Ended \/ FileWritten \/ ThreadCreate \/ ThreadWait
    BY <2>1 DEF vars, Ended, FileWritten, ThreadCreate, ThreadWait
  <2>2. CASE WriteFile
    <3>1. main = "write" /\ tears = 0
      BY <1>1, <2>2 DEF WriteFile, MainHolds
    <3> QED BY <1>1, <3>1 DEF PagesSound
  <2>3. ASSUME NEW t \in Threads, ThreadStep(t) \/ ReadError(t) \/ TornWrite(t)
        PROVE  disk'[q] = disk[q]
    <3>1. CASE q # page_no[t]
      BY <2>3, <3>1 DEF ThreadStep, ReadLow, ReadHigh, ReadError, Verify, RandBufData,
             StoreChecksum, WriteLow, WriteHigh, TornWrite
    <3>2. CASE q = page_no[t]
      <4>1. pc[t] # "write" /\ pc[t] # "write_high"
        BY <1>1, <3>2 DEF Held, ThreadHolds, BeingWritten
      <4> QED BY <2>3, <4>1 DEF ThreadStep, ReadLow, ReadHigh, ReadError, Verify, RandBufData,
             StoreChecksum, WriteLow, WriteHigh, TornWrite, Thread
    <3> QED BY <3>1, <3>2
  <2> QED BY <1>1, <2>1, <2>2, <2>3 DEF Next, MainStep
<1>2. IInv /\ [Next]_vars => [Kept]_vars
  BY <1>1
<1> QED BY <1>2, Inductive, PTL DEF Spec, SpoiltStaysSpoilt

-----------------------------------------------------------------------------
(***************************************************************************)
(* innochecksum                                                            *)
(***************************************************************************)
\* What the buffer has to do with the file, phase by phase.
BufferHolds ==
  /\ loop \in {"check", "write", "next"} => ct \in Pages
  /\ loop = "check" => p = space[ct]
  /\ loop = "write" => Valid(p) /\ p.body = space[ct].body /\ ~ Valid(space[ct])
  /\ loop = "next" => Valid(space[ct])

\* PrefixValid, for every phase.
BehindValid == \A i \in InnoRange(opt.start_page, ct - 1) : Valid(space[i])

InnoInv == InnoTypeOK /\ BufferHolds /\ BehindValid /\ ValidOnSuccess

-----------------------------------------------------------------------------
\* A page that was not refused is valid after the repairs, is changed by them
\* only if it was not valid before, and keeps its body.
LEMMA RepairWorks ==
  ASSUME NEW b \in InnoPage, opt \in Options, ~ Refused(b)
  PROVE  /\ Fixed(b) \in InnoPage /\ Valid(Fixed(b)) /\ Fixed(b).body = b.body
         /\ Fixed(b) = b <=> Valid(b)
<1> DEFINE c == LsnFixed(b)
           d == NewFixed(c)
           e == OldFixed(d)
<1>0. e = Fixed(b)
  BY DEF Fixed
<1>1. c \in InnoPage /\ LsnOk(c) /\ c.body = b.body /\ (c = b <=> LsnOk(b))
  <2>1. CASE LsnOk(b)
    BY <2>1 DEF LsnFixed
  <2>2. CASE ~ LsnOk(b)
    <3>1. opt.fix_lsn \in Lsns
      BY <2>2 DEF Refused, Options
    <3>2. c = [b EXCEPT !.lsn = opt.fix_lsn, !.end_lsn = opt.fix_lsn]
      BY <2>2 DEF LsnFixed
    <3>3. c.lsn = opt.fix_lsn /\ c.end_lsn = opt.fix_lsn /\ c.body = b.body /\ c \in InnoPage
      BY <3>1, <3>2 DEF InnoPage
    <3> QED BY <2>2, <3>3 DEF LsnOk
  <2> QED BY <2>1, <2>2
<1> HIDE DEF c
<1>2. d \in InnoPage /\ LsnOk(d) /\ NewOk(d) /\ d.body = c.body
      /\ (d = c <=> NewOk(c))
  <2>1. CASE NewOk(c)
    BY <1>1, <2>1 DEF NewFixed
  <2>2. CASE ~ NewOk(c)
    <3>1. d = [c EXCEPT !.new = NewSum(c)]
      BY <2>2 DEF NewFixed
    <3>2. NewSum(c) \in NewSums
      BY <1>1 DEF NewSum, NewSums, InnoPage
    <3>3. d \in InnoPage /\ d.new = NewSum(c)
          /\ d.lsn = c.lsn /\ d.end_lsn = c.end_lsn /\ d.body = c.body
      BY <1>1, <3>1, <3>2 DEF InnoPage
    <3> QED BY <1>1, <2>2, <3>3 DEF LsnOk, NewOk, NewSum
  <2> QED BY <2>1, <2>2
<1> HIDE DEF d
<1>3. e \in InnoPage /\ LsnOk(e) /\ NewOk(e) /\ OldOk(e)
      /\ e.body = d.body /\ (e = d <=> OldOk(d))
  <2>1. CASE OldOk(d)
    BY <1>2, <2>1 DEF OldFixed
  <2>2. CASE ~ OldOk(d)
    <3>1. e = [d EXCEPT !.old = OldSum(d)]
      BY <2>2 DEF OldFixed
    <3>2. OldSum(d) \in OldSums
      BY <1>2 DEF OldSum, OldSums, InnoPage
    <3>3. /\ e \in InnoPage /\ e.old = OldSum(d) /\ e.new = d.new
          /\ e.lsn = d.lsn /\ e.end_lsn = d.end_lsn /\ e.body = d.body
      BY <1>2, <3>1, <3>2 DEF InnoPage
    <3> QED BY <1>2, <2>2, <3>3 DEF LsnOk, NewOk, OldOk, NewSum, OldSum
  <2> QED BY <2>1, <2>2
<1>4. Valid(e) /\ e.body = b.body
  BY <1>1, <1>2, <1>3 DEF Valid
<1>5. Valid(b) => e = b
  BY <1>1, <1>2, <1>3 DEF Valid
<1> QED BY <1>0, <1>3, <1>4, <1>5

LEMMA InnoTypeStep ==
  ASSUME InnoTypeOK, BufferHolds, [InnoNext]_innoVars
  PROVE  InnoTypeOK'
<1>1. CASE UNCHANGED innoVars \/ InnoEnded
  BY <1>1 DEF innoVars, InnoEnded, InnoTypeOK
<1>2. CASE ReadPage \/ InnoEndOfFile \/ InnoReadError \/ InnoKilled
  BY <1>2 DEF ReadPage, InnoEndOfFile, InnoReadError, InnoKilled, Return, InnoTypeOK
<1>3. CASE CheckPage
  <2>1. ~ Refused(p) => Fixed(p) \in InnoPage
    BY RepairWorks DEF InnoTypeOK
  <2> QED BY <1>3, <2>1 DEF CheckPage, Return, InnoTypeOK
<1>4. CASE WritePage
  BY <1>4 DEF WritePage, InnoTypeOK
<1>5. CASE InnoWriteError
  <2>1. ct \in Pages /\ p.lsn \in Lsns /\ p.new \in NewSums
    BY <1>5 DEF InnoWriteError, BufferHolds, InnoTypeOK, InnoPage
  <2>2. space' \in [Pages -> InnoPage]
    <3>1. CASE space' = space
      BY <3>1 DEF InnoTypeOK
    <3>2. CASE space' = [space EXCEPT ![ct].lsn = p.lsn, ![ct].new = p.new]
      BY <2>1, <3>2 DEF InnoTypeOK, InnoPage
    <3> QED BY <1>5, <3>1, <3>2 DEF InnoWriteError
  <2> QED BY <1>5, <2>2 DEF InnoWriteError, Return, InnoTypeOK
<1>6. CASE NextPage
  <2>1. ct + 1 \in 0 .. N
    BY <1>6, FileAssumption DEF NextPage, BufferHolds, Pages
  <2> QED BY <1>6, <2>1 DEF NextPage, Return, InnoTypeOK
<1>7. CASE InnoAgain
  <2>1. PICK o \in Options : StartWith(o)
    BY <1>7 DEF InnoAgain
  <2>2. o.start_page \in 0 .. N
    BY FileAssumption DEF Options, Pages
  <2> QED BY <1>7, <2>1, <2>2 DEF InnoAgain, StartWith, InnoTypeOK
<1> QED BY <1>1, <1>2, <1>3, <1>4, <1>5, <1>6, <1>7 DEF InnoNext, InnoStep

-----------------------------------------------------------------------------
\* A step changes no page but the one at ct, and only in the phase that writes.
LEMMA OnePageWritten ==
  ASSUME InnoTypeOK, BufferHolds, [InnoNext]_innoVars
  PROVE  /\ loop # "write" => space' = space
         /\ loop = "write" => \A i \in Pages : i # ct => space'[i] = space[i]
BY DEF InnoNext, InnoStep, InnoEnded, innoVars, ReadPage, InnoEndOfFile, InnoReadError,
       CheckPage, WritePage, InnoWriteError,
       NextPage, InnoKilled, InnoAgain, InnoTypeOK

LEMMA BufferStays ==
  ASSUME InnoTypeOK, BufferHolds, [InnoNext]_innoVars
  PROVE  BufferHolds'
<1>1. CASE UNCHANGED innoVars \/ InnoEnded
  BY <1>1 DEF innoVars, InnoEnded, BufferHolds, Valid, LsnOk, NewOk, OldOk,
         NewSum, OldSum
<1>2. CASE ReadPage
  BY <1>2 DEF ReadPage, BufferHolds
<1>3. CASE InnoEndOfFile \/ InnoReadError \/ InnoKilled \/ InnoWriteError
  BY <1>3 DEF InnoEndOfFile, InnoReadError, InnoKilled, InnoWriteError, Return, BufferHolds
<1>4. CASE CheckPage
  <2>1. CASE Refused(p)
    BY <1>4, <2>1 DEF CheckPage, Return, BufferHolds
  <2>2. CASE ~ Refused(p)
    <3>1. /\ p' = Fixed(p) /\ ct' = ct /\ space' = space /\ loop = "check"
          /\ loop' = IF Fixed(p) = p THEN "next" ELSE "write"
      BY <1>4, <2>2 DEF CheckPage
    <3>2. Valid(Fixed(p)) /\ Fixed(p).body = p.body
          /\ (Fixed(p) = p <=> Valid(p))
      BY <2>2, RepairWorks DEF InnoTypeOK
    <3>3. ct \in Pages /\ p = space[ct]
      BY <3>1 DEF BufferHolds
    <3> QED BY <3>1, <3>2, <3>3 DEF BufferHolds, Valid, LsnOk, NewOk, OldOk,
           NewSum, OldSum
  <2> QED BY <2>1, <2>2
<1>5. CASE WritePage
  BY <1>5 DEF WritePage, BufferHolds, InnoTypeOK, Valid, LsnOk, NewOk,
         OldOk, NewSum, OldSum
<1>6. CASE NextPage
  BY <1>6 DEF NextPage, Return, BufferHolds
<1>7. CASE InnoAgain
  BY <1>7 DEF InnoAgain, StartWith, BufferHolds
<1> QED BY <1>1, <1>2, <1>3, <1>4, <1>5, <1>6, <1>7 DEF InnoNext, InnoStep

\* What is behind the position stays valid, and the position only passes a page
\* that is valid.
LEMMA BehindStays ==
  ASSUME InnoTypeOK, BufferHolds, BehindValid, [InnoNext]_innoVars
  PROVE  BehindValid'
<1>0. \A i \in Pages : i \in Int
  BY DEF Pages
<1>1. CASE InnoAgain
  <2>1. ct' = opt'.start_page /\ ct' \in Int
    BY <1>1 DEF InnoAgain, StartWith, Options, Pages
  <2>2. \A i \in Pages : ~ (opt'.start_page <= i /\ i <= ct' - 1)
    BY <1>0, <2>1
  <2> QED BY <2>2 DEF BehindValid, InnoRange
<1>2. CASE NextPage
  <2>1. /\ space' = space /\ opt' = opt /\ ct \in Int /\ (ct' = ct \/ ct' = ct + 1)
        /\ Valid(space[ct])
    BY <1>2 DEF NextPage, BufferHolds, InnoTypeOK
  <2>2. \A i \in Pages : i <= ct' - 1 => i <= ct - 1 \/ i = ct
    BY <1>0, <2>1
  <2>3. \A i \in InnoRange(opt.start_page, ct' - 1) : Valid(space[i])
    BY <2>1, <2>2 DEF BehindValid, InnoRange
  <2>4. \A i \in InnoRange(opt'.start_page, ct' - 1) : Valid(space'[i])
    BY <2>1, <2>3
  <2> QED BY <2>4 DEF BehindValid, InnoRange, Valid, LsnOk, NewOk, OldOk,
         NewSum, OldSum
<1>3. CASE ~ InnoAgain /\ ~ NextPage
  <2>1. opt' = opt /\ ct' = ct
    BY <1>3 DEF InnoNext, InnoStep, InnoEnded, innoVars, ReadPage, InnoEndOfFile,
           InnoReadError, CheckPage, WritePage,
           InnoWriteError, InnoKilled
  <2>2. \A i \in InnoRange(opt.start_page, ct - 1) : i \in Pages /\ i # ct
    BY <1>0 DEF InnoRange, InnoTypeOK
  <2>3. \A i \in InnoRange(opt.start_page, ct - 1) : space'[i] = space[i]
    BY <2>2, OnePageWritten
  <2>4. \A i \in InnoRange(opt'.start_page, ct' - 1) : Valid(space'[i])
    BY <2>1, <2>3 DEF BehindValid
  <2> QED BY <2>4 DEF BehindValid, InnoRange, Valid, LsnOk, NewOk, OldOk,
         NewSum, OldSum
<1> QED BY <1>1, <1>2, <1>3

\* 0 is only returned once the position has passed everything asked about.
LEMMA SuccessStays ==
  ASSUME InnoTypeOK, BufferHolds, BehindValid, ValidOnSuccess,
      [InnoNext]_innoVars
  PROVE  ValidOnSuccess'
<1>0. (\A i \in Pages : i \in Int) /\ N \in Nat
  BY FileAssumption DEF Pages
<1> SUFFICES ASSUME status' = 0
             PROVE  \A i \in InnoRange(opt'.start_page, LastPage') : Valid(space'[i])
  BY DEF ValidOnSuccess, LastPage, InnoRange, Valid, LsnOk, NewOk,
         OldOk, NewSum, OldSum
<1>1. CASE InnoEndOfFile
  <2>1. /\ space' = space /\ opt' = opt /\ ct \in 0 .. N /\ ct \notin Pages
    BY <1>1 DEF InnoEndOfFile, InnoTypeOK
  <2>2. \A i \in Pages : i <= ct - 1
    BY <1>0, <2>1 DEF Pages
  <2> QED BY <2>1, <2>2 DEF BehindValid, InnoRange
<1>2. CASE NextPage
  <2>1. CASE opt.end_page # NoPage /\ ct >= opt.end_page
    <3>1. /\ space' = space /\ opt' = opt /\ ct \in Int /\ Valid(space[ct])
          /\ LastPage' = opt.end_page /\ opt.end_page \in Int
      BY <1>2, <2>1 DEF NextPage, BufferHolds, InnoTypeOK, LastPage, Options,
             Pages
    <3>2. \A i \in Pages : i <= opt.end_page => i <= ct - 1 \/ i = ct
      BY <1>0, <2>1, <3>1
    <3> QED BY <3>1, <3>2 DEF BehindValid, InnoRange
  <2>2. CASE ~ (opt.end_page # NoPage /\ ct >= opt.end_page)
    <3>1. loop' = "read" /\ loop = "next" /\ status' = status /\ space' = space /\ opt' = opt
      BY <1>2, <2>2 DEF NextPage
    <3> QED BY <3>1 DEF ValidOnSuccess, LastPage
  <2> QED BY <2>1, <2>2
<1>3. CASE UNCHANGED innoVars \/ InnoEnded \/ ReadPage
  <2>1. status = 0 /\ space' = space /\ opt' = opt
    BY <1>3 DEF innoVars, InnoEnded, ReadPage
  <2> QED BY <2>1 DEF ValidOnSuccess, LastPage
<1>4. CASE CheckPage
  <2>1. status = 0 /\ space' = space /\ opt' = opt
    BY <1>4 DEF CheckPage, Return
  <2> QED BY <2>1 DEF ValidOnSuccess, LastPage
<1>5. CASE WritePage
  <2>1. /\ status = 0 /\ opt' = opt /\ loop = "write" /\ space' = [space EXCEPT ![ct] = p]
    BY <1>5 DEF WritePage
  <2>2. \A i \in Pages : space'[i] = IF i = ct THEN p ELSE space[i]
    BY <2>1 DEF InnoTypeOK
  <2>3. Valid(p)
    BY <2>1 DEF BufferHolds
  <2> QED BY <2>1, <2>2, <2>3 DEF ValidOnSuccess, LastPage, InnoRange
<1>6. CASE InnoReadError \/ InnoWriteError \/ InnoKilled \/ InnoAgain
  BY <1>6 DEF InnoReadError, InnoWriteError, InnoKilled, InnoAgain, StartWith,
         Return
<1> QED BY <1>1, <1>2, <1>3, <1>4, <1>5, <1>6 DEF InnoNext, InnoStep

LEMMA InnoInductive ==
  InnoSpec => []InnoInv
<1>1. InnoInit => InnoInv
  <2> SUFFICES ASSUME InnoInit PROVE InnoInv
    OBVIOUS
  <2>1. InnoTypeOK
    <3>1. 0 \in Pages /\ FirstPages \subseteq InnoPage /\ Pages \subseteq 0 .. N
      BY FileAssumption DEF Pages
    <3>2. opt.start_page \in Pages
      BY DEF InnoInit, Options
    <3> QED BY <3>1, <3>2 DEF InnoInit, InnoTypeOK
  <2>2. BufferHolds /\ ValidOnSuccess
    BY DEF InnoInit, BufferHolds, ValidOnSuccess
  <2>3. BehindValid
    <3>1. ct = opt.start_page /\ ct \in Int /\ \A i \in Pages : i \in Int
      BY DEF InnoInit, Options, Pages
    <3>2. \A i \in Pages : ~ (opt.start_page <= i /\ i <= ct - 1)
      BY <3>1
    <3> QED BY <3>2 DEF BehindValid, InnoRange
  <2> QED BY <2>1, <2>2, <2>3 DEF InnoInv
<1>2. InnoInv /\ [InnoNext]_innoVars => InnoInv'
  BY InnoTypeStep, BufferStays, BehindStays, SuccessStays DEF InnoInv
<1> QED BY <1>1, <1>2, PTL DEF InnoSpec

\* Every field keeps its type; in particular the LSN that is written was given.
THEOREM RepairTypes ==
  InnoSpec => []InnoTypeOK
<1>1. InnoInv => InnoTypeOK
  BY DEF InnoInv
<1> QED BY <1>1, InnoInductive, PTL

\* A return of 0 means that every page in the range passes all three checks,
\* although each repair changes what the next check is of.
THEOREM SuccessMeansValid ==
  InnoSpec => []ValidOnSuccess
<1>1. InnoInv => ValidOnSuccess
  BY DEF InnoInv
<1> QED BY <1>1, InnoInductive, PTL

\* A run that stops, for whatever reason, has put right all it has passed.
THEOREM WorkIsKept ==
  InnoSpec => []PrefixValid
<1>1. InnoInv => PrefixValid
  BY DEF InnoInv, BehindValid, PrefixValid
<1> QED BY <1>1, InnoInductive, PTL

\* A page that is valid is not written, whatever the options.
THEOREM ValidPagesUntouched ==
  InnoSpec => ValidUntouched
<1> DEFINE Kept == \A i \in Pages : Valid(space[i]) => space'[i] = space[i]
<1>1. InnoInv /\ [InnoNext]_innoVars => [Kept]_innoVars
  <2> SUFFICES ASSUME InnoInv, [InnoNext]_innoVars, NEW i \in Pages, Valid(space[i])
               PROVE  space'[i] = space[i]
    OBVIOUS
  <2>1. loop = "write" => i # ct
    BY DEF InnoInv, BufferHolds
  <2> QED BY <2>1, OnePageWritten DEF InnoInv
<1> QED BY <1>1, InnoInductive, PTL DEF InnoSpec, ValidUntouched

\* No repair reaches the body of a page, its own or another one's.
THEOREM BodiesKept ==
  InnoSpec => BodyKept
<1> DEFINE Kept == \A i \in Pages : space'[i].body = space[i].body
<1>1. InnoInv /\ [InnoNext]_innoVars => [Kept]_innoVars
  <2> SUFFICES ASSUME InnoInv, [InnoNext]_innoVars, NEW i \in Pages
               PROVE  space'[i].body = space[i].body
    OBVIOUS
  <2>1. CASE i # ct \/ loop # "write"
    BY <2>1, OnePageWritten DEF InnoInv
  <2>2. CASE i = ct /\ WritePage
    BY <2>2 DEF InnoInv, BufferHolds, WritePage, InnoTypeOK
  <2>3. CASE i = ct /\ InnoWriteError
    <3>1. space[i] \in InnoPage
      BY DEF InnoInv, InnoTypeOK
    <3>2. CASE space' = [space EXCEPT ![ct].lsn = p.lsn, ![ct].new = p.new]
      BY <2>3, <3>1, <3>2 DEF InnoInv, InnoTypeOK, InnoPage
    <3> QED BY <2>3, <3>2 DEF InnoWriteError
  <2>4. CASE loop = "write" /\ ~ WritePage /\ ~ InnoWriteError
    BY <2>4 DEF InnoNext, InnoStep, InnoEnded, innoVars, ReadPage, InnoEndOfFile,
           InnoReadError, CheckPage, NextPage,
           InnoKilled, InnoAgain
  <2> QED BY <2>1, <2>2, <2>3, <2>4
<1> QED BY <1>1, InnoInductive, PTL DEF InnoSpec, BodyKept

-----------------------------------------------------------------------------
(***************************************************************************)
(* incrementalupdate                                                       *)
(***************************************************************************)
\* The page in memory is the one of the snapshot that is to be done next.
SnapshotHolds ==
  /\ loop \in {"backup", "compare"} => ct < Len(file) /\ p = file[ct + 1]
  /\ status = 0 => ct = Len(file)

\* As long as nothing was missed the two positions go side by side, and the
\* backup is neither longer nor shorter than it was.
InStep ==
  ~ missed => /\ Len(backup) = Len(old)
              /\ loop \in {"file", "backup"} => pos = ct
              /\ loop = "compare" => pos = ct + 1 /\ op = backup[ct + 1]

\* DonePagesCopied, without what it says of the status.
Done == ~ missed => \A i \in 1 .. ct : i <= Len(backup) /\ backup[i] = file[i]

\* RestIsOld, and while a run goes on no page is torn.
Untouched ==
  ~ missed /\ loop # "exit" => \A i \in ct + 1 .. Len(old) : backup[i] = old[i]

UpdInv == UpdateTypeOK /\ SnapshotHolds /\ InStep /\ Done /\ Untouched /\ RestIsOld

-----------------------------------------------------------------------------
\* Two whole pages that agree in what is compared are one page.
LEMMA SameIfNotDiffer ==
  ASSUME NEW b \in UpdatePage, NEW c \in UpdatePage, Whole(b), Whole(c), ~ Differ(b, c)
  PROVE  b = c
BY DEF UpdatePage, Whole, Differ

LEMMA TornType == ASSUME NEW b \in UpdatePage, NEW c \in UpdatePage PROVE Torn(b, c) \in UpdatePage
BY DEF UpdatePage, Torn

\* The page before the position, or the first one.
LEMMA RewoundType ==
  ASSUME UpdateTypeOK
  PROVE  Rewound \in Nat /\ Rewound <= pos /\ Rewound <= Len(backup)
         /\ (pos > 0 => Rewound = pos - 1)
BY DEF UpdateTypeOK, Rewound

\* A write changes one page of the backup or adds one to its end.
LEMMA WrittenType ==
  ASSUME NEW i \in Nat, i <= Len(backup), NEW b \in UpdatePage, backup \in Seq(UpdatePage)
  PROVE  /\ Written(i, b) \in Seq(UpdatePage)
         /\ Len(Written(i, b)) >= Len(backup) /\ Len(Written(i, b)) >= i + 1
<1>1. CASE i < Len(backup)
  <2>1. Written(i, b) = [backup EXCEPT ![i + 1] = b]
    BY <1>1 DEF Written
  <2> QED BY <1>1, <2>1
<1>2. CASE ~ (i < Len(backup))
  <2>1. Written(i, b) = Append(backup, b)
    BY <1>2 DEF Written
  <2> QED BY <1>2, <2>1
<1> QED BY <1>1, <1>2

\* Inside the backup it changes that page only.
LEMMA WrittenInside ==
  ASSUME NEW i \in Nat, i < Len(backup), NEW b \in UpdatePage, backup \in Seq(UpdatePage),
         NEW new, new = Written(i, b)
  PROVE  /\ Len(new) = Len(backup)
         /\ new[i + 1] = b
         /\ \A k \in 1 .. Len(backup) : k # i + 1 => new[k] = backup[k]
<1>1. new = [backup EXCEPT ![i + 1] = b] /\ i + 1 \in 1 .. Len(backup)
  BY DEF Written
<1> QED BY <1>1

-----------------------------------------------------------------------------
LEMMA UpdInitHolds ==
  UpdateInit => UpdInv
<1> SUFFICES ASSUME UpdateInit PROVE UpdInv
  OBVIOUS
<1>1. file \in Seq(UpdatePage) /\ backup \in Seq(UpdatePage)
  BY FilesAssumption DEF UpdateInit
<1>2. UpdateTypeOK
  <2>1. Len(file) \in Nat /\ Len(backup) \in Nat
    BY <1>1
  <2>2. ct \in 0 .. Len(file) /\ pos \in 0 .. Len(backup)
    BY <2>1 DEF UpdateInit
  <2>3. missed \in BOOLEAN
    BY Zenon DEF UpdateInit
  <2> QED BY <1>1, <2>2, <2>3 DEF UpdateInit, UpdateTypeOK
<1> QED BY <1>1, <1>2 DEF UpdateInit, UpdInv, SnapshotHolds, InStep, Done, Untouched, RestIsOld

\* No step takes a variable out of its type.
LEMMA UpdTypeStep ==
  ASSUME UpdateTypeOK, SnapshotHolds, [UpdateNext]_updateVars PROVE UpdateTypeOK'
<1>0. file \in Seq(UpdatePage)
  BY FilesAssumption DEF UpdateTypeOK
<1>1. CASE UNCHANGED updateVars
  BY <1>1 DEF updateVars, UpdateTypeOK
<1>2. CASE ReadFile
  <2>1. file[ct + 1] \in UpdatePage
    BY <1>0, <1>2 DEF ReadFile, UpdateTypeOK
  <2> QED BY <1>2, <2>1 DEF ReadFile, UpdateTypeOK
<1>3. CASE UpdateEndOfFile
  BY <1>3 DEF UpdateEndOfFile, Return, UpdateTypeOK
<1>4. CASE UpdateReadError
  BY <1>4 DEF UpdateReadError, Return, UpdateTypeOK
<1>5. CASE ReadBackup
  <2>1. op' \in UpdatePage /\ pos' \in 0 .. Len(backup) /\ missed' \in BOOLEAN
    <3>1. /\ backup \in Seq(UpdatePage) /\ pos \in 0 .. Len(backup) /\ op \in UpdatePage
          /\ missed \in BOOLEAN
      BY DEF UpdateTypeOK
    <3>2. CASE pos < Len(backup) /\ op' = backup[pos + 1] /\ pos' = pos + 1 /\ missed' = missed
      <4>1. pos + 1 \in 1 .. Len(backup)
        BY <3>1, <3>2
      <4> QED BY <3>1, <3>2, <4>1
    <3>3. CASE missed' = TRUE /\ op' = op /\ pos' = pos
      BY <3>1, <3>3
    <3> QED BY <1>5, <3>2, <3>3 DEF ReadBackup
  <2> QED BY <1>5, <2>1 DEF ReadBackup, UpdateTypeOK
<1>6. CASE NotWhole
  BY <1>6 DEF NotWhole, Return, UpdateTypeOK
<1>7. CASE SamePage
  <2>1. ct' \in 0 .. Len(file)
    BY <1>0, <1>7 DEF SamePage, SnapshotHolds, UpdateTypeOK
  <2> QED BY <1>7, <2>1 DEF SamePage, UpdateTypeOK
<1>8. CASE CopyPage
  <2>1. ct' \in 0 .. Len(file)
    BY <1>0, <1>8 DEF CopyPage, ToWrite, SnapshotHolds, UpdateTypeOK
  <2>2. backup' = Written(Rewound, p) /\ pos' = Rewound + 1
    BY <1>8 DEF CopyPage
  <2>3. p \in UpdatePage /\ backup \in Seq(UpdatePage)
    BY DEF UpdateTypeOK
  <2>4. backup' \in Seq(UpdatePage) /\ pos' \in 0 .. Len(backup')
    BY <2>2, <2>3, RewoundType, WrittenType
  <2> QED BY <1>8, <2>1, <2>4 DEF CopyPage, UpdateTypeOK
<1>9. CASE UpdateWriteError
  <2>1. ct' \in 0 .. Len(file)
    BY <1>0, <1>9 DEF UpdateWriteError, ToWrite, SnapshotHolds, UpdateTypeOK
  <2>2. pos' \in 0 .. Len(backup)
    BY <1>9, RewoundType DEF UpdateWriteError, UpdateTypeOK
  <2> QED BY <1>9, <2>1, <2>2 DEF UpdateWriteError, UpdateTypeOK
<1>10. CASE UpdateKilled
  <2>1. backup' \in Seq(UpdatePage) /\ Len(backup') >= Len(backup)
    <3>1. CASE backup' = backup
      BY <3>1 DEF UpdateTypeOK
    <3>2. CASE Rewound < Len(backup) /\ backup' = Written(Rewound, Torn(p,
        backup[Rewound + 1]))
      <4>1. backup[Rewound + 1] \in UpdatePage /\ p \in UpdatePage /\ backup \in Seq(UpdatePage)
        BY <3>2, RewoundType DEF UpdateTypeOK
      <4>2. Torn(p, backup[Rewound + 1]) \in UpdatePage
        BY <4>1, TornType
      <4> QED BY <3>2, <4>1, <4>2, RewoundType, WrittenType
    <3> QED BY <1>10, <3>1, <3>2 DEF UpdateKilled
  <2> QED BY <1>10, <2>1 DEF UpdateKilled, Return, UpdateTypeOK
<1>11. CASE UpdateAgain
  <2>1. file' \in Seq(UpdatePage)
    BY <1>11, FilesAssumption DEF UpdateAgain
  <2>2. missed' \in BOOLEAN
    BY <1>11, Zenon DEF UpdateAgain
  <2>3. ct' \in 0 .. Len(file') /\ pos' \in 0 .. Len(backup')
    <3>1. Len(file') \in Nat /\ Len(backup') \in Nat
      BY <1>11, <2>1 DEF UpdateAgain, UpdateTypeOK
    <3> QED BY <1>11, <3>1 DEF UpdateAgain
  <2> QED BY <1>11, <2>1, <2>2, <2>3 DEF UpdateAgain, UpdateTypeOK
<1>12. CASE UpdateEnded
  BY <1>12 DEF UpdateEnded, updateVars, UpdateTypeOK
<1> QED BY <1>1, <1>2, <1>3, <1>4, <1>5, <1>6, <1>7, <1>8, <1>9, <1>10, <1>11, <1>12
        DEF UpdateNext, UpdateStep

-----------------------------------------------------------------------------
\* The steps that end a run without touching the backup.
LEMMA EndKeeps ==
  ASSUME UpdInv, UpdateEndOfFile \/ UpdateReadError \/ NotWhole \/ (UpdateKilled /\ backup' = backup)
  PROVE  SnapshotHolds' /\ InStep' /\ Done' /\ Untouched' /\ RestIsOld'
<1>1. /\ UNCHANGED <<file, backup, old, ct, missed>> /\ loop' = "exit"
      /\ status' = 0 => ct = Len(file)
  BY DEF UpdateEndOfFile, UpdateReadError, NotWhole, UpdateKilled, Return
<1> QED BY <1>1 DEF UpdInv, SnapshotHolds, InStep, Done, Untouched, RestIsOld

\* A run killed in the middle of a write leaves one page torn, the one it was at.
LEMMA KilledWriting ==
  ASSUME UpdInv, UpdateKilled, ToWrite, Rewound < Len(backup),
         backup' = Written(Rewound, Torn(p, backup[Rewound + 1]))
  PROVE  SnapshotHolds' /\ InStep' /\ Done' /\ Untouched' /\ RestIsOld'
<1>1. /\ UNCHANGED <<file, old, ct, missed>> /\ loop' = "exit" /\ status' = -1
      /\ loop = "compare"
  BY DEF UpdateKilled, Return, ToWrite
<1>2. SnapshotHolds' /\ Untouched'
  BY <1>1 DEF SnapshotHolds, Untouched
<1>3. CASE missed
  BY <1>1, <1>2, <1>3 DEF InStep, Done, RestIsOld
<1>4. CASE ~ missed
  <2>1. /\ ct \in Nat /\ pos = ct + 1 /\ Len(backup) = Len(old) /\ p = file[ct + 1]
        /\ ct < Len(file) /\ old \in Seq(UpdatePage) /\ backup \in Seq(UpdatePage) /\ p \in UpdatePage
        /\ file \in Seq(UpdatePage)
    BY <1>1, <1>4, FilesAssumption DEF UpdInv, InStep, SnapshotHolds, UpdateTypeOK
  <2>2. Rewound = ct
    BY <2>1, RewoundType DEF UpdInv
  <2>3. ct + 1 \in 1 .. Len(old) /\ backup[ct + 1] = old[ct + 1] /\ backup[ct + 1] \in UpdatePage
    BY <1>1, <1>4, <2>1, <2>2 DEF UpdInv, Untouched
  <2> DEFINE b == Torn(file[ct + 1], old[ct + 1])
  <2>4. b \in UpdatePage /\ backup' = Written(ct, b)
    BY <2>1, <2>2, <2>3, TornType
  <2>5. /\ Len(backup') = Len(backup) /\ backup'[ct + 1] = b
        /\ \A k \in 1 .. Len(backup) : k # ct + 1 => backup'[k] = backup[k]
    <3> HIDE DEF b
    <3>1. ct < Len(backup)
      BY <2>1, <2>3
    <3> QED BY <2>1, <2>4, <3>1, WrittenInside
  <2> HIDE DEF b
  <2>6. Done' /\ InStep'
    BY <1>1, <1>4, <2>1, <2>5 DEF UpdInv, InStep, Done
  <2>7. RestIsOld'
    <3> SUFFICES ASSUME NEW i \in ct + 1 .. Len(old)
                 PROVE  backup'[i] = old[i] \/ (i = ct + 1 /\ i <= Len(file) /\ backup'[i] = b)
      BY <1>1 DEF RestIsOld, b
    <3>1. i \in 1 .. Len(backup)
      BY <2>1
    <3>2. CASE i = ct + 1
      BY <2>1, <2>5, <3>1, <3>2
    <3>3. CASE i # ct + 1
      BY <1>1, <1>4, <2>1, <2>5, <3>1, <3>3 DEF UpdInv, Untouched
    <3> QED BY <3>2, <3>3
  <2> QED BY <1>2, <2>6, <2>7
<1> QED BY <1>3, <1>4

\* A page that is written, or need not be, is done.
LEMMA PageKeeps ==
  ASSUME UpdInv, SamePage \/ CopyPage
  PROVE  SnapshotHolds' /\ InStep' /\ Done' /\ Untouched' /\ RestIsOld'
<1>1. /\ UNCHANGED <<file, old, missed, status>> /\ loop' = "file" /\ ct' = ct + 1
      /\ loop = "compare"
  BY DEF SamePage, CopyPage, ToWrite
<1>2. ct \in Nat /\ ct < Len(file) /\ p = file[ct + 1] /\ file \in Seq(UpdatePage)
  BY <1>1, FilesAssumption DEF UpdInv, SnapshotHolds, UpdateTypeOK
<1>3. SnapshotHolds'
  BY <1>1, <1>2 DEF UpdInv, SnapshotHolds
<1>4. CASE missed
  BY <1>1, <1>3, <1>4 DEF InStep, Done, Untouched, RestIsOld
<1>5. CASE ~ missed
  <2>1. /\ pos = ct + 1 /\ pos <= Len(backup) /\ Len(backup) = Len(old)
        /\ op = backup[ct + 1] /\ backup \in Seq(UpdatePage) /\ old \in Seq(UpdatePage)
        /\ p \in UpdatePage /\ op \in UpdatePage
    BY <1>1, <1>5 DEF UpdInv, InStep, UpdateTypeOK
  <2>2. /\ pos' = ct + 1 /\ Len(backup') = Len(backup) /\ backup'[ct + 1] = p
        /\ \A k \in 1 .. Len(backup) : k # ct + 1 => backup'[k] = backup[k]
    <3>1. CASE SamePage
      <4>1. p = op /\ backup' = backup /\ pos' = pos
        BY <2>1, <3>1, SameIfNotDiffer DEF SamePage
      <4> QED BY <2>1, <4>1
    <3>2. CASE CopyPage
      <4>1. Rewound = ct
        BY <1>2, <2>1, RewoundType DEF UpdInv
      <4>2. backup' = Written(ct, p) /\ pos' = ct + 1
        BY <3>2, <4>1 DEF CopyPage
      <4>3. ct < Len(backup)
        BY <1>2, <2>1
      <4>4. ct \in Nat /\ p \in UpdatePage /\ backup \in Seq(UpdatePage)
        BY <1>2, <2>1
      <4>5. PICK new : new = backup'
        OBVIOUS
      <4>6. /\ Len(new) = Len(backup) /\ new[ct + 1] = p
            /\ \A k \in 1 .. Len(backup) : k # ct + 1 => new[k] = backup[k]
        BY ONLY <4>2, <4>3, <4>4, <4>5, WrittenInside
      <4> QED BY <4>2, <4>5, <4>6
    <3> QED BY <3>1, <3>2
  <2>3. InStep'
    BY <1>1, <2>1, <2>2 DEF InStep
  <2>4. Done'
    <3> SUFFICES ASSUME NEW i \in 1 .. ct + 1
                 PROVE  i <= Len(backup') /\ backup'[i] = file[i]
      BY <1>1 DEF Done
    <3>1. i \in 1 .. Len(backup)
      BY <1>2, <2>1
    <3>2. CASE i = ct + 1
      BY <1>2, <2>2, <3>1, <3>2
    <3>3. CASE i # ct + 1
      BY <1>2, <1>5, <2>2, <3>1, <3>3 DEF UpdInv, Done
    <3> QED BY <3>2, <3>3
  <2>5. \A i \in ct + 2 .. Len(old) : backup'[i] = old[i]
    BY <1>1, <1>2, <1>5, <2>1, <2>2 DEF UpdInv, Untouched
  <2>6. ct' + 1 = ct + 2
    BY <1>1, <1>2
  <2>7. Untouched' /\ RestIsOld'
    BY <1>1, <2>5, <2>6 DEF Untouched, RestIsOld
  <2> QED BY <1>3, <2>3, <2>4, <2>7
<1> QED BY <1>4, <1>5

LEMMA UpdInductive ==
  UpdateSpec => []UpdInv
<1>1. UpdInv /\ [UpdateNext]_updateVars => UpdInv'
  <2> SUFFICES ASSUME UpdInv, [UpdateNext]_updateVars PROVE UpdInv'
    OBVIOUS
  <2>0. UpdateTypeOK'
    BY UpdTypeStep DEF UpdInv
  <2>1. CASE UNCHANGED updateVars \/ UpdateEnded
    BY <2>0, <2>1 DEF UpdInv, UpdateEnded, updateVars, SnapshotHolds, InStep, Done, Untouched,
           RestIsOld
  <2>2. CASE ReadFile
    BY <2>0, <2>2 DEF UpdInv, ReadFile, SnapshotHolds, InStep, Done, Untouched, RestIsOld
  <2>3. CASE ReadBackup
    <3>1. UNCHANGED <<file, backup, old, ct, p, status>> /\ loop = "backup" /\ loop' = "compare"
      BY <2>3 DEF ReadBackup
    <3>2. ~ missed' => ~ missed /\ pos' = pos + 1 /\ op' = backup[pos + 1]
      BY <2>3 DEF ReadBackup
    <3>3. SnapshotHolds' /\ InStep'
      BY <3>1, <3>2 DEF UpdInv, SnapshotHolds, InStep
    <3> QED BY <2>0, <3>1, <3>2, <3>3 DEF UpdInv, Done, Untouched, RestIsOld
  <2>4. CASE UpdateWriteError
    <3>1. /\ UNCHANGED <<file, status>> /\ missed' = TRUE /\ loop' = "file" /\ ct' = ct + 1
          /\ loop = "compare"
      BY <2>4 DEF UpdateWriteError, ToWrite
    <3>2. status # 0
      <4>1. file \in Seq(UpdatePage) /\ ct \in Nat
        BY FilesAssumption DEF UpdInv, UpdateTypeOK
      <4> QED BY <3>1, <4>1 DEF UpdInv, SnapshotHolds
    <3> QED BY <2>0, <3>1, <3>2 DEF UpdInv, SnapshotHolds, InStep, Done, Untouched, RestIsOld
  <2>5. CASE UpdateAgain
    <3>1. /\ ct' = 0 /\ pos' = 0 /\ loop' = "file" /\ status' = -1
          /\ old' = backup /\ backup' = backup
      BY <2>5 DEF UpdateAgain
    <3> QED BY <2>0, <3>1 DEF UpdInv, SnapshotHolds, InStep, Done, Untouched, RestIsOld
  <2>6. CASE SamePage \/ CopyPage
    BY <2>0, <2>6, PageKeeps DEF UpdInv
  <2>7. CASE UpdateEndOfFile \/ UpdateReadError \/ NotWhole
    BY <2>0, <2>7, EndKeeps DEF UpdInv
  <2>8. CASE UpdateKilled
    BY <2>0, <2>8, EndKeeps, KilledWriting DEF UpdInv, UpdateKilled
  <2> QED BY <2>1, <2>2, <2>3, <2>4, <2>5, <2>6, <2>7, <2>8 DEF UpdateNext, UpdateStep
<1> QED BY <1>1, UpdInitHolds, PTL DEF UpdateSpec

\* Every variable keeps its type: the position of the loop of main stays in the
\* snapshot and the position in the backup within the backup.
THEOREM UpdateTypes ==
  UpdateSpec => []UpdateTypeOK
<1>1. UpdInv => UpdateTypeOK
  BY DEF UpdInv
<1> QED BY <1>1, UpdInductive, PTL

\* As long as every page of the backup was read and written, the pages the loop
\* of main has done are the snapshot's, and a return of 0 means all of them.
THEOREM DonePagesAreCopied ==
  UpdateSpec => []DonePagesCopied
<1>1. UpdInv => DonePagesCopied
  BY DEF UpdInv, SnapshotHolds, Done, DonePagesCopied
<1> QED BY <1>1, UpdInductive, PTL

\* Such a run leaves the pages it has not come to alone, and only the page it is
\* at can be torn, whenever it is killed.
THEOREM RestStaysOld ==
  UpdateSpec => []RestIsOld
<1>1. UpdInv => RestIsOld
  BY DEF UpdInv
<1> QED BY <1>1, UpdInductive, PTL

-----------------------------------------------------------------------------
(***************************************************************************)
(* What a program that implements PageCarving has promised                 *)
(***************************************************************************)
\* Nothing wanted is behind a scanner that it has not saved.
NothingBehind ==
  \A s \in Scanners : phase[s] \in {"scanning", "finished"} =>
    \A q \in wanted : From[s] <= q /\ q < at[s] => q \in saved[s]

CarvingInv ==
  /\ wanted \subseteq Nat
  /\ phase \in [Scanners -> {"idle", "scanning", "finished", "failed"}]
  /\ at \in [Scanners -> Int] /\ saved \in [Scanners -> SUBSET Int]
  /\ \A s \in Scanners : phase[s] = "finished" =>
       at[s] + PageSize > Upto[s] \/ at[s] + PageSize > MediumSize
  /\ NothingBehind

LEMMA CarvingStep ==
  ASSUME PageSize \in Nat \ {0}, MediumSize \in Nat,
         From \in [Scanners -> Int], Upto \in [Scanners -> Int], CarvingInv,
             [Carving!Next]_(Carving!vars)
  PROVE  CarvingInv'
<1>1. ASSUME NEW s \in Scanners, Carving!Begin(s) PROVE CarvingInv'
  BY <1>1 DEF CarvingInv, NothingBehind, Carving!Begin
<1>2. ASSUME NEW s \in Scanners, Carving!Save(s) PROVE CarvingInv'
  <2>1. /\ phase[s] = "scanning" /\ UNCHANGED <<wanted, phase>> /\ at[s] \in Int
        /\ at' = [at EXCEPT ![s] = at[s] + PageSize] /\ at'[s] = at[s] + PageSize
        /\ saved' = [saved EXCEPT ![s] = saved[s] \cup {at[s]}]
    BY <1>2 DEF Carving!Save, CarvingInv
  <2>2. \A q \in wanted : ~ (at[s] + 1 <= q /\ q <= at'[s] - 1)
    BY <1>2, <2>1 DEF Carving!Save, Carving!Misses, CarvingInv
  <2>3. NothingBehind'
    <3>1. SUFFICES ASSUME NEW r \in Scanners, phase[r] \in {"scanning", "finished"},
                          NEW q \in wanted, From[r] <= q, q < at'[r]
                   PROVE  q \in saved'[r]
      BY <2>1 DEF NothingBehind
    <3>2. CASE r = s
      <4>1. q \in Int /\ (q < at[s] \/ q = at[s])
        BY <2>1, <2>2, <3>1, <3>2 DEF CarvingInv
      <4>2. q < at[s] => q \in saved[s]
        BY <3>1, <3>2 DEF CarvingInv, NothingBehind
      <4> QED BY <2>1, <3>2, <4>1, <4>2 DEF CarvingInv
    <3>3. CASE r # s
      BY <2>1, <3>1, <3>3 DEF CarvingInv, NothingBehind
    <3> QED BY <3>2, <3>3
  <2> QED BY <2>1, <2>3 DEF CarvingInv
<1>3. ASSUME NEW s \in Scanners, Carving!Skip(s) PROVE CarvingInv'
  <2>1. PICK to \in at[s] + 1 .. MediumSize :
          Carving!Misses(s, at[s] .. to - 1) /\ at' = [at EXCEPT ![s] = to]
    BY <1>3 DEF Carving!Skip
  <2>2. phase[s] = "scanning" /\ UNCHANGED <<wanted, phase, saved>> /\ at[s] \in Int /\ to \in Int
    BY <1>3, <2>1 DEF Carving!Skip, CarvingInv
  <2>3. \A q \in wanted : q < to => q < at[s]
    BY <2>1, <2>2 DEF Carving!Misses, CarvingInv
  <2> QED BY <2>1, <2>2, <2>3 DEF CarvingInv, NothingBehind
<1>4. ASSUME NEW s \in Scanners, Carving!Finish(s) PROVE CarvingInv'
  BY <1>4 DEF CarvingInv, NothingBehind, Carving!Finish
<1>5. ASSUME NEW s \in Scanners, Carving!Fail(s) PROVE CarvingInv'
  BY <1>5 DEF CarvingInv, NothingBehind, Carving!Fail
<1>6. CASE UNCHANGED Carving!vars
  BY <1>6 DEF CarvingInv, NothingBehind, Carving!vars
<1> QED BY <1>1, <1>2, <1>3, <1>4, <1>5, <1>6 DEF Carving!Next

\* Whatever implements PageCarving has saved every wanted page of the share of
\* each scanner that has finished.
THEOREM SharesCarved ==
  ASSUME PageSize \in Nat \ {0}, MediumSize \in Nat,
         From \in [Scanners -> Int], Upto \in [Scanners -> Int]
  PROVE  Carving!Spec => []Carving!Carved
<1>1. Carving!Init => CarvingInv
  BY DEF Carving!Init, CarvingInv, NothingBehind
<1>2. CarvingInv /\ [Carving!Next]_(Carving!vars) => CarvingInv'
  BY CarvingStep
<1>3. CarvingInv => Carving!Carved
  <2> SUFFICES ASSUME CarvingInv, NEW s \in Scanners, phase[s] = "finished", NEW q \in wanted,
                      From[s] <= q, q + PageSize <= Upto[s], q + PageSize <= MediumSize
               PROVE  q \in saved[s]
    BY DEF Carving!Carved
  <2>1. q \in Int /\ at[s] \in Int /\ Upto[s] \in Int
    BY DEF CarvingInv
  <2>2. q < at[s]
    BY <2>1 DEF CarvingInv
  <2> QED BY <2>2 DEF CarvingInv, NothingBehind
<1> QED BY <1>1, <1>2, <1>3, PTL DEF Carving!Spec
=============================================================================
