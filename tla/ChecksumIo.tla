----------------------------- MODULE ChecksumIo -----------------------------
(***************************************************************************)
(* test_checksum/main.c: a load on the file system that checks that a page *)
(* comes back as it was written.                                           *)
(*                                                                         *)
(* main writes every page of a fresh file, then starts the threads.  Each  *)
(* thread has a slot of the common buffer and a range of pages, and does   *)
(* for ever: read a page of the range, compare its checksum, change a byte,*)
(* store the new checksum, write the page.  Nothing is locked.  The result *)
(* of a write is not looked at.                                            *)
(*                                                                         *)
(* A page is two blocks, each of which is read and written as a whole; the *)
(* checksum is in the second.  Two pages that differ are taken to have     *)
(* different checksums.                                                    *)
(***************************************************************************)
EXTENDS Integers

CONSTANTS
  THD_NUM,      \* number of threads
  RangePages,   \* pages of a thread: FIL_MAX_SIZ_1G / UNIV_PAGE_SIZE
  Bytes,        \* contents of a block
  Zero,         \* the contents of buf at first
  MaxTears,     \* bound on the number of writes that stop half-way
  Faults        \* what may fail: a subset of FaultKinds

FaultKinds == {"create", "read", "write"}

Threads == 0 .. THD_NUM - 1

ASSUME SizeAssumption ==
  /\ THD_NUM \in Nat \ {0}
  /\ RangePages \in Nat \ {0}
  /\ Zero \in Bytes
  /\ MaxTears \in Nat /\ Faults \subseteq FaultKinds

VARIABLES
  main,      \* phase of main
  page,      \* i, the page main writes next, or the thread it creates next
  disk,      \* the file
  buf,       \* buf[t]: the slot of thread t
  pc,        \* phase of each thread
  page_no,   \* the page each thread is at
  tears      \* writes that stopped half-way so far

vars == <<main, page, disk, buf, pc, page_no, tears>>

-----------------------------------------------------------------------------
PagNo == 0 .. THD_NUM * RangePages - 1   \* PAG_COUNT_IN_FILE pages

Content == [low : Bytes, high : Bytes, sum : (Bytes \X Bytes) \cup {<<>>}]

\* Stands for ut_fold_binary, without its collisions.
Checksum(b) == <<b.low, b.high>>
Sound(b) == b.sum = Checksum(b)

\* rand() % (end - start), in pages
Range(t) == t * RangePages .. (t + 1) * RangePages - 1

\* the zeros of buf and their checksum (main)
FreshPage == [low |-> Zero, high |-> Zero, sum |-> <<Zero, Zero>>]

Thread(t, from, to) == pc[t] = from /\ pc' = [pc EXCEPT ![t] = to]

Init ==
  /\ main = "write" /\ page = 0 /\ tears = 0
  /\ disk = [p \in {} |-> FreshPage]
  /\ buf = [t \in Threads |-> IF t = 0 THEN FreshPage ELSE [FreshPage EXCEPT !.sum = <<>>]]
  /\ pc = [t \in Threads |-> "none"]
  /\ page_no = [t \in Threads |-> t * RangePages]

\* main fills the file; the file is truncated first.
WriteFile ==
  /\ main = "write" /\ page \in PagNo
  /\ disk' = [p \in DOMAIN disk \cup {page} |-> IF p = page THEN buf[0] ELSE disk[p]]
  /\ page' = page + 1
  /\ UNCHANGED <<main, buf, pc, page_no, tears>>

FileWritten ==
  /\ main = "write" /\ page \notin PagNo
  /\ main' = "create" /\ page' = 0
  /\ UNCHANGED <<disk, buf, pc, page_no, tears>>

\* A thread that cannot be created is missing, and main goes on.
ThreadCreate ==
  /\ main = "create" /\ page \in Threads
  /\ \/ pc' = [pc EXCEPT ![page] = "read"]
     \/ "create" \in Faults /\ pc' = pc
  /\ page' = page + 1
  /\ UNCHANGED <<main, disk, buf, page_no, tears>>

\* thread_wait: no thread ever ends, so main stays here unless there is none.
ThreadWait ==
  /\ main = "create" /\ page \notin Threads
  /\ main' = IF \A t \in Threads : pc[t] = "none" THEN "return" ELSE "join"
  /\ UNCHANGED <<page, disk, buf, pc, page_no, tears>>

-----------------------------------------------------------------------------
\* pread of the first block of a page of the range, then of the second
ReadLow(t) ==
  /\ Thread(t, "read", "read_high")
  /\ \E p \in Range(t) :
       /\ page_no' = [page_no EXCEPT ![t] = p]
       /\ buf' = [buf EXCEPT ![t].low = disk[p].low]
  /\ UNCHANGED <<main, page, disk, tears>>

ReadHigh(t) ==
  /\ Thread(t, "read_high", "verify")
  /\ LET b == disk[page_no[t]] IN
       buf' = [buf EXCEPT ![t].high = b.high, ![t].sum = b.sum]
  /\ UNCHANGED <<main, page, disk, page_no, tears>>

\* pread fails, before or after the first block was copied
ReadError(t) ==
  /\ "read" \in Faults
  /\ Thread(t, "read_high", "read")
  /\ UNCHANGED <<main, page, disk, buf, page_no, tears>>

\* A page that is not sound is left alone and the thread picks another one.
\* mutant: the result of read_page is not looked at
Verify_Ignored(t) ==
  /\ Thread(t, "verify", "change")
  /\ UNCHANGED <<main, page, disk, buf, page_no, tears>>

\* mutant: a page that is not sound is compared again without a new read
Verify_Again(t) ==
  /\ Thread(t, "verify", IF Sound(buf[t]) THEN "change" ELSE "verify")
  /\ UNCHANGED <<main, page, disk, buf, page_no, tears>>

Verify(t) ==
  /\ Thread(t, "verify", IF Sound(buf[t]) THEN "change" ELSE "read")
  /\ UNCHANGED <<main, page, disk, buf, page_no, tears>>

RandBufData(t) ==
  /\ Thread(t, "change", "sum")
  /\ \E b \in Bytes : \/ buf' = [buf EXCEPT ![t].low = b]
                      \/ buf' = [buf EXCEPT ![t].high = b]
  /\ UNCHANGED <<main, page, disk, page_no, tears>>

\* mutant: the checksum is stored after the page was written
StoreChecksum_Late(t) ==
  /\ Thread(t, "sum", "write")
  /\ UNCHANGED <<main, page, disk, buf, page_no, tears>>

StoreChecksum(t) ==
  /\ Thread(t, "sum", "write")
  /\ buf' = [buf EXCEPT ![t].sum = Checksum(buf[t])]
  /\ UNCHANGED <<main, page, disk, page_no, tears>>

WriteLow(t) ==
  /\ Thread(t, "write", "write_high")
  /\ disk' = [disk EXCEPT ![page_no[t]].low = buf[t].low]
  /\ UNCHANGED <<main, page, buf, page_no, tears>>

WriteHigh(t) ==
  /\ Thread(t, "write_high", "read")
  /\ disk' = [disk EXCEPT ![page_no[t]].high = buf[t].high, ![page_no[t]].sum = buf[t].sum]
  /\ UNCHANGED <<main, page, buf, page_no, tears>>

\* pwrite returns after the first block, or an error: nobody asks.
TornWrite(t) ==
  /\ "write" \in Faults /\ tears < MaxTears
  /\ Thread(t, "write_high", "read")
  /\ tears' = tears + 1
  /\ UNCHANGED <<main, page, disk, buf, page_no>>

MainStep == WriteFile \/ FileWritten \/ ThreadCreate \/ ThreadWait

ThreadStep(t) == \/ ReadLow(t) \/ ReadHigh(t) \/ Verify(t)
                 \/ RandBufData(t) \/ StoreChecksum(t)
                 \/ WriteLow(t) \/ WriteHigh(t)

Ended == main = "return" /\ UNCHANGED vars

Next == \/ MainStep \/ Ended
        \/ \E t \in Threads : ThreadStep(t) \/ ReadError(t) \/ TornWrite(t)

\* Every thread is scheduled again and again; none waits for another.
Spec == Init /\ [][Next]_vars /\ WF_vars(MainStep) /\ \A t \in Threads : WF_vars(ThreadStep(t))

-----------------------------------------------------------------------------
Phases == {"none", "read", "read_high", "verify", "change", "sum", "write", "write_high"}

TypeOK ==
  /\ main \in {"write", "create", "join", "return"} /\ page \in Nat
  /\ DOMAIN disk \subseteq PagNo /\ disk \in [DOMAIN disk -> Content]
  /\ buf \in [Threads -> Content]
  /\ pc \in [Threads -> Phases] /\ page_no \in [Threads -> PagNo]
  /\ tears \in 0 .. MaxTears

BeingWritten(p) == \E t \in Threads : pc[t] = "write_high" /\ page_no[t] = p

\* Whoever is not writing a page sees it sound: threads that share the file and
\* the buffer array without a lock do not disturb one another, because ranges
\* and slots are apart.  Only a write that stopped half-way may spoil a page.
PagesSound ==
  \A p \in DOMAIN disk : ~ BeingWritten(p) /\ ~ Sound(disk[p]) => tears > 0

\* A page that passed the check is in memory as it is on disk until it is
\* written: no thread changes a page between another's read and write of it.
ReadStaysCurrent ==
  \A t \in Threads :
    pc[t] = "change" => buf[t] = disk[page_no[t]]

\* The evidence stays: once a page is spoilt no thread writes over it.
SpoiltStaysSpoilt ==
  [][\A q \in DOMAIN disk : ~ BeingWritten(q) /\ ~ Sound(disk[q]) => disk'[q] = disk[q]]_vars

\* No thread stops, whatever it finds: a created thread reads again and again.
KeepReading == \A t \in Threads : []<>(pc[t] = "none" \/ pc[t] = "read")
=============================================================================
