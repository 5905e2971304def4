---------------------------- MODULE StreamParser ----------------------------
(***************************************************************************)
(* undrop-for-innodb/stream_parser.c: carving InnoDB pages out of a        *)
(* tablespace, a partition or a disk image.                                *)
(*                                                                         *)
(* The parent forks one worker per CPU and waits for all of them.  Worker  *)
(* n opens the medium itself, seeks to the start of its slice and fills a  *)
(* private cache; it slides over the cache, appends every byte position    *)
(* that looks like a page to the file named after the page's index id (or  *)
(* page id), carries the unscanned tail of the cache to its front and      *)
(* reads on until it has read at least the length of its slice.            *)
(*                                                                         *)
(* The contents of a medium are abstracted to the offsets at which a page  *)
(* image starts, the header fields the parser tests there, and the set of  *)
(* zero bytes (the parser skips runs of zeros).                            *)
(***************************************************************************)
EXTENDS Integers, Sequences

CONSTANTS
  NCpu,        \* number of workers (sysconf(_SC_NPROCESSORS_CONF))
  PageSize,    \* UNIV_PAGE_SIZE
  ZeroWord,    \* width of the word tested before a run of zeros is skipped: 4
  CacheSize,   \* cache_size, option -s; not a multiple of PageSize in general
  FileSize,    \* bytes that can be read from the medium
  IbSize,      \* ib_size: st_size, or option -t
  FilterOption,\* the numbers given with -T, separated by ':'; <<>> without -T
  Media,       \* the contents the medium may have
  ShortReads,  \* may read() return fewer bytes than asked for before EOF?
  Faults       \* the system calls that may fail: a subset of FaultKinds

FaultKinds == {"fork", "open", "read", "write", "shortwrite"}
Kinds      == {"INDEX", "BLOB", "OTHER"}      \* FIL_PAGE_TYPE
Workers    == 0 .. NCpu - 1
Offsets    == 0 .. FileSize - 1

(***************************************************************************)
(* The header fields of a page image.  text: both record literals          *)
(* "infimum" and "supremum" are where PAGE_N_HEAP says; sum: the checksum  *)
(* fields and the BLOB part length are right.                              *)
(***************************************************************************)
Header == [kind : Kinds, id : Nat, index : Nat, text : BOOLEAN, sum : BOOLEAN]

\* [page: header of the image starting at an offset, zero: the zero bytes]
Medium == [page : UNION {[S -> Header] : S \in SUBSET (0 .. FileSize - PageSize)},
           zero : SUBSET Offsets]

ASSUME SizesAssumption ==
  /\ NCpu \in Nat \ {0}
  /\ ZeroWord \in Nat /\ ZeroWord > 1
  /\ PageSize \in Nat /\ PageSize >= ZeroWord
  /\ CacheSize \in Nat /\ CacheSize >= PageSize      \* main exits otherwise
  /\ FileSize \in Nat
  /\ IbSize \in Nat /\ IbSize > 0                    \* open_ibfile exits otherwise
  /\ FilterOption \in Seq(Nat)

ASSUME MediaAssumption ==
  \A m \in Media : /\ DOMAIN m.page \subseteq 0 .. FileSize - PageSize
                   /\ \A p \in DOMAIN m.page : m.page[p] \in Header
                   /\ m.zero \subseteq Offsets

ASSUME FaultsAssumption == ShortReads \in BOOLEAN /\ Faults \subseteq FaultKinds

VARIABLES
  medium,             \* contents of the medium, never written
  parent, n,          \* phase and loop index of main
  pids,               \* pids[w]: "unset", "child" or "failed" (fork returned -1)
  reaped,             \* workers whose exit status was collected
  pc,                 \* phase of each worker
  curr_disk_offset,   \* file position of each worker
  curr_cache_offset,  \* cursor in (or, before a read, fill of) each cache
  bytes_in_cache,
  files               \* output files: a sequence of appended records each

parentVars == <<parent, n, pids, reaped>>
cacheVars  == <<curr_disk_offset, curr_cache_offset, bytes_in_cache>>
vars       == <<medium, parentVars, pc, cacheVars, files>>

-----------------------------------------------------------------------------
MaxPageId   == IbSize \div PageSize
Start(w)    == (w * IbSize) \div NCpu
SliceLength == IbSize \div NCpu

ZeroWordAt(o) == \A k \in 0 .. ZeroWord - 1 : o + k \in medium.zero

ValidBlobPage(o) ==
  /\ o \in DOMAIN medium.page
  /\ medium.page[o].kind = "BLOB"
  /\ medium.page[o].sum

ValidInnodbPage(o) ==
  /\ o \in DOMAIN medium.page
  /\ ~ ZeroWordAt(o)
  /\ medium.page[o].id \in 1 .. MaxPageId
  /\ medium.page[o].text

ValidPage(o) == ValidBlobPage(o) \/ ValidInnodbPage(o)

\* strtoull stops at the ':'; 0 keeps every page
FilterId == IF FilterOption = <<>> THEN 0 ELSE FilterOption[1]

Filtered(h) == FilterId # 0 /\ FilterId # h.index

\* FIL_PAGE_INDEX/<index id>.page; every other type goes to the BLOB directory
FileOf(h) == IF h.kind = "INDEX" THEN <<"INDEX", h.index>> ELSE <<"BLOB", h.id>>

FilesOf(m) == {FileOf(m.page[p]) : p \in DOMAIN m.page}

(***************************************************************************)
(* How far an invalid position with `left' bytes after it in the cache is  *)
(* skipped.  The scan for the end of a run of zeros also looks at the byte *)
(* after the cached ones, which holds anything.                            *)
(***************************************************************************)
ZeroRunEnds(o, left) ==
  LET nonzero == {k \in 0 .. left - 1 : o + k \notin medium.zero}
  IN  IF nonzero = {} THEN {left, left + 1}
      ELSE {k \in nonzero : \A j \in nonzero : k <= j}

\* mutant: skips to the first byte that is not zero
Steps_PastRun(o, left) ==
  IF ZeroWordAt(o) THEN ZeroRunEnds(o, left) ELSE {1}

\* mutant: steps back over the whole zero word
Steps_Back(o, left) ==
  IF ZeroWordAt(o) THEN {i - ZeroWord : i \in ZeroRunEnds(o, left)} ELSE {1}

Steps(o, left) ==
  IF ZeroWordAt(o) THEN {i - (ZeroWord - 1) : i \in ZeroRunEnds(o, left)} ELSE {1}

Record(w, o, full) == [worker |-> w, page |-> o, whole |-> full]

ScanOffset(w) ==
  IF pc[w] = "scan" THEN curr_disk_offset[w] - bytes_in_cache[w] + curr_cache_offset[w]
                    ELSE curr_disk_offset[w] - curr_cache_offset[w]

BytesLeft(w) == bytes_in_cache[w] - curr_cache_offset[w]
PageInCache(w) == BytesLeft(w) >= PageSize

-----------------------------------------------------------------------------
Init ==
  /\ medium \in Media
  /\ parent = "fork" /\ n = 0 /\ reaped = {}
  /\ pids = [w \in Workers |-> "unset"]
  /\ pc = [w \in Workers |-> "none"]
  /\ curr_disk_offset = [w \in Workers |-> 0]
  /\ curr_cache_offset = [w \in Workers |-> 0]
  /\ bytes_in_cache = [w \in Workers |-> 0]
  /\ files = [f \in FilesOf(medium) |-> <<>>]

\* main: fork the next worker; the result is stored without being tested
Fork ==
  /\ parent = "fork" /\ n < NCpu
  /\ \/ /\ pids' = [pids EXCEPT ![n] = "child"]
        /\ pc' = [pc EXCEPT ![n] = "start"]
     \/ /\ "fork" \in Faults
        /\ pids' = [pids EXCEPT ![n] = "failed"]
        /\ UNCHANGED pc
  /\ n' = n + 1
  /\ UNCHANGED <<medium, parent, reaped, cacheVars, files>>

StartWaiting ==
  /\ parent = "fork" /\ n = NCpu
  /\ parent' = "wait" /\ n' = 0
  /\ UNCHANGED <<medium, pids, reaped, pc, cacheVars, files>>

\* mutant: does not block (WNOHANG)
Wait_NoHang ==
  /\ parent = "wait" /\ n < NCpu
  /\ n' = n + 1
  /\ UNCHANGED <<medium, parent, pids, reaped, pc, cacheVars, files>>

\* main: waitpid(pids[n]).  With pid -1 it reaps any child; without a child
\* left to reap it returns at once.
Wait ==
  LET waited == IF pids[n] = "failed" THEN {w \in Workers : pids[w] = "child"} ELSE {n}
      pending == waited \ reaped
  IN  /\ parent = "wait" /\ n < NCpu
      /\ \/ pending = {} /\ UNCHANGED reaped
         \/ \E w \in pending : pc[w] \in {"ok", "failed"} /\ reaped' = reaped \cup {w}
      /\ n' = n + 1
      /\ UNCHANGED <<medium, parent, pids, pc, cacheVars, files>>

\* main: "All workers finished", exit(EXIT_SUCCESS)
Report ==
  /\ parent = "wait" /\ n = NCpu
  /\ parent' = "done"
  /\ UNCHANGED <<medium, n, pids, reaped, pc, cacheVars, files>>

\* open_ibfile and the initial seek of process_ibfile
OpenIbfile(w) ==
  /\ pc[w] = "start"
  /\ \/ /\ pc' = [pc EXCEPT ![w] = "read"]
        /\ curr_disk_offset' = [curr_disk_offset EXCEPT ![w] = Start(w)]
     \/ /\ "open" \in Faults
        /\ pc' = [pc EXCEPT ![w] = "failed"]
        /\ UNCHANGED curr_disk_offset
  /\ UNCHANGED <<medium, parentVars, curr_cache_offset, bytes_in_cache, files>>

SliceRead(w) == curr_disk_offset[w] - Start(w) >= SliceLength

\* What read() may return for a cache with `room' free bytes
ReadSizes(w, room) ==
  LET avail == FileSize - curr_disk_offset[w]
      full  == IF avail < room THEN avail ELSE room
  IN  IF avail <= 0 \/ room <= 0 THEN {0}
      ELSE IF ShortReads THEN 1 .. full ELSE {full}

\* process_ibfile: fill the rest of the cache
ReadCache(w) ==
  /\ pc[w] = "read" /\ ~ SliceRead(w)
  /\ \E got \in ReadSizes(w, CacheSize - curr_cache_offset[w]) :
       /\ got > 0
       /\ curr_disk_offset' = [curr_disk_offset EXCEPT ![w] = @ + got]
       /\ bytes_in_cache' = [bytes_in_cache EXCEPT ![w] = curr_cache_offset[w] + got]
  /\ curr_cache_offset' = [curr_cache_offset EXCEPT ![w] = 0]
  /\ pc' = [pc EXCEPT ![w] = "scan"]
  /\ UNCHANGED <<medium, parentVars, files>>

\* process_ibfile: the slice was read, or read() reported end of file
EndOfSlice(w) ==
  /\ pc[w] = "read"
  /\ SliceRead(w) \/ 0 \in ReadSizes(w, CacheSize - curr_cache_offset[w])
  /\ pc' = [pc EXCEPT ![w] = "ok"]
  /\ UNCHANGED <<medium, parentVars, cacheVars, files>>

ReadError(w) ==
  /\ pc[w] = "read" /\ ~ SliceRead(w) /\ "read" \in Faults
  /\ pc' = [pc EXCEPT ![w] = "failed"]
  /\ UNCHANGED <<medium, parentVars, cacheVars, files>>

\* process_ibpage: append the page at the cursor, then step over it.  Only a
\* result of -1 is taken for an error; a short count is not noticed.
SavePage(w) ==
  LET o == ScanOffset(w)
      h == medium.page[o]
  IN  /\ pc[w] = "scan" /\ PageInCache(w) /\ ValidPage(o)
      /\ \/ /\ Filtered(h)
            /\ UNCHANGED files
         \/ /\ ~ Filtered(h)
            /\ \E full \in {TRUE} \cup (IF "shortwrite" \in Faults THEN {FALSE} ELSE {}) :
                 files' = [files EXCEPT ![FileOf(h)] = Append(@, Record(w, o, full))]
      /\ curr_cache_offset' = [curr_cache_offset EXCEPT ![w] = @ + PageSize]
      /\ UNCHANGED <<medium, parentVars, pc, curr_disk_offset, bytes_in_cache>>

\* open or write returned -1: the worker exits
SaveError(w) ==
  /\ pc[w] = "scan" /\ PageInCache(w) /\ "write" \in Faults
  /\ ValidPage(ScanOffset(w)) /\ ~ Filtered(medium.page[ScanOffset(w)])
  /\ pc' = [pc EXCEPT ![w] = "failed"]
  /\ UNCHANGED <<medium, parentVars, cacheVars, files>>

SkipBytes(w) ==
  /\ pc[w] = "scan" /\ PageInCache(w) /\ ~ ValidPage(ScanOffset(w))
  /\ \E step \in Steps(ScanOffset(w), BytesLeft(w)) :
       curr_cache_offset' = [curr_cache_offset EXCEPT ![w] = @ + step]
  /\ UNCHANGED <<medium, parentVars, pc, curr_disk_offset, bytes_in_cache, files>>

\* mutant: the tail is not carried over
KeepTail_Dropped(w) ==
  /\ pc[w] = "scan" /\ ~ PageInCache(w)
  /\ curr_cache_offset' = [curr_cache_offset EXCEPT ![w] = 0]
  /\ pc' = [pc EXCEPT ![w] = "read"]
  /\ UNCHANGED <<medium, parentVars, curr_disk_offset, bytes_in_cache, files>>

\* mutant: an exhausted cache is carried over as one more page
KeepTail_Page(w) ==
  /\ pc[w] = "scan" /\ ~ PageInCache(w)
  /\ curr_cache_offset' =
       [curr_cache_offset EXCEPT ![w] = IF BytesLeft(w) > 0 THEN BytesLeft(w) ELSE PageSize]
  /\ pc' = [pc EXCEPT ![w] = "read"]
  /\ UNCHANGED <<medium, parentVars, curr_disk_offset, bytes_in_cache, files>>

\* process_ibfile: move what is left of the cache to its front
KeepTail(w) ==
  /\ pc[w] = "scan" /\ ~ PageInCache(w)
  /\ curr_cache_offset' =
       [curr_cache_offset EXCEPT ![w] = IF BytesLeft(w) > 0 THEN BytesLeft(w) ELSE 0]
  /\ pc' = [pc EXCEPT ![w] = "read"]
  /\ UNCHANGED <<medium, parentVars, curr_disk_offset, bytes_in_cache, files>>

Worker(w) ==
  \/ OpenIbfile(w) \/ ReadCache(w) \/ EndOfSlice(w) \/ ReadError(w)
  \/ SavePage(w) \/ SaveError(w) \/ SkipBytes(w) \/ KeepTail(w)

Main == Fork \/ StartWaiting \/ Wait \/ Report

\* the program has exited
Terminated == parent = "done" /\ UNCHANGED vars

Next == Main \/ (\E w \in Workers : Worker(w)) \/ Terminated

Spec == Init /\ [][Next]_vars

\* every process keeps being scheduled
FairSpec == Spec /\ WF_vars(Main) /\ \A w \in Workers : WF_vars(Worker(w))

-----------------------------------------------------------------------------
(***************************************************************************)
(* Properties                                                              *)
(***************************************************************************)
SaveRecord == [worker : Workers, page : Offsets, whole : BOOLEAN]

TypeOK ==
  /\ medium \in Media
  /\ parent \in {"fork", "wait", "done"}
  /\ n \in 0 .. NCpu
  /\ pids \in [Workers -> {"unset", "child", "failed"}]
  /\ reaped \subseteq Workers
  /\ pc \in [Workers -> {"none", "start", "read", "scan", "ok", "failed"}]
  /\ curr_disk_offset \in [Workers -> Nat]
  /\ curr_cache_offset \in [Workers -> Nat]
  /\ bytes_in_cache \in [Workers -> Nat]
  /\ files \in [FilesOf(medium) -> Seq(SaveRecord)]

SavedBy(w, p) ==
  \E f \in DOMAIN files : \E i \in 1 .. Len(files[f]) :
    files[f][i].worker = w /\ files[f][i].page = p

(***************************************************************************)
(* The pages nobody would accept to lose: valid, not filtered out, not     *)
(* overlapping another image, and not beginning with the three zero bytes  *)
(* that a run of zeros may swallow.                                        *)
(***************************************************************************)
Wanted(p) ==
  /\ ValidPage(p) /\ ~ Filtered(medium.page[p])
  /\ \A q \in DOMAIN medium.page \ {p} : p - q >= PageSize \/ q - p >= PageSize
  /\ \E k \in 0 .. ZeroWord - 2 : p + k \notin medium.zero

\* The cursor never leaves the cached bytes, the cached bytes never exceed the
\* cache, and a read always finds room behind the carried tail: a full cache
\* would make read() return 0, which process_ibfile takes for the end of file.
CursorInCache ==
  \A w \in Workers :
    /\ pc[w] = "scan" =>
         curr_cache_offset[w] <= bytes_in_cache[w] /\ bytes_in_cache[w] <= CacheSize
    /\ pc[w] = "read" => curr_cache_offset[w] < CacheSize

\* Sliding over zeros, carrying the tail and refilling never jump over a wanted
\* page: each one the scan of process_ibfile has passed was saved.
NoPageSkipped ==
  \A w \in Workers : pc[w] \in {"read", "scan", "ok"} =>
    \A p \in DOMAIN medium.page :
      Wanted(p) /\ Start(w) <= p /\ p < ScanOffset(w) => SavedBy(w, p)

\* A worker that exits successfully has saved every wanted page that lies
\* within its slice, whatever the cache size and however read() splits it.
SliceComplete ==
  \A w \in Workers : pc[w] = "ok" =>
    \A p \in DOMAIN medium.page :
      Wanted(p) /\ Start(w) <= p /\ p + PageSize <= Start(w) + SliceLength
        => SavedBy(w, p)

\* process_ibpage only writes whole images that process_ibfile has read, at or
\* after the start of the slice: workers repeat each other's pages only past
\* the end of the earlier worker's slice.
SavesInWindow ==
  \A f \in DOMAIN files : \A i \in 1 .. Len(files[f]) :
    LET r == files[f][i]
    IN  Start(r.worker) <= r.page /\ r.page + PageSize <= curr_disk_offset[r.worker]

\* Whatever the interleaving of the appends, the pages one worker puts into a
\* file ascend and do not overlap; in particular none is saved twice by it.
WorkerOrderInFile ==
  \A f \in DOMAIN files : \A i, j \in 1 .. Len(files[f]) :
    i < j /\ files[f][i].worker = files[f][j].worker =>
      files[f][i].page + PageSize <= files[f][j].page

\* main reports only when every worker it managed to fork has exited, although
\* waitpid(-1, ...) for a failed fork reaps somebody else's child.
ReportAfterWorkers ==
  parent = "done" => \A w \in Workers : pids[w] = "child" => pc[w] \in {"ok", "failed"}

ScanPhase(w) ==
  CASE pc[w] \in {"none", "start"} -> "idle"
    [] pc[w] \in {"read", "scan"}  -> "scanning"
    [] pc[w] = "ok"                -> "finished"
    [] OTHER                       -> "failed"

Phases        == [w \in Workers |-> ScanPhase(w)]
Positions     == [w \in Workers |-> IF ScanPhase(w) \in {"scanning", "finished"}
                                      THEN ScanOffset(w) ELSE 0]
SavedPages    == [w \in Workers |-> {o \in Offsets : SavedBy(w, o)}]
ValidOffsets  == {o \in Offsets : ValidPage(o)}
WantedOffsets == {o \in Offsets : Wanted(o)}
SliceStarts   == [w \in Workers |-> Start(w)]
SliceEnds     == [w \in Workers |-> Start(w) + SliceLength]

Carving == INSTANCE PageCarving WITH
  Scanners <- Workers, MediumSize <- FileSize, From <- SliceStarts, Upto <- SliceEnds,
  valid <- ValidOffsets, wanted <- WantedOffsets,
  phase <- Phases, at <- Positions, saved <- SavedPages

\* The worker's window, with its refills, carried tails and runs of zeros, is a
\* plain scan of its slice: process_ibfile implements PageCarving.
CarvesPages == Carving!Spec

\* stream_parser ends: skipping zeros always advances, and every wait returns.
Termination == <>(parent = "done")

-----------------------------------------------------------------------------
(***************************************************************************)
(* What the documentation and the tests say, and the code does not do      *)
(***************************************************************************)
\* test.sh compares each recovered table's checksum with the original's: no
\* page of the tablespace may be lost when every worker succeeded.
EveryPageExtracted ==
  parent = "done" /\ (\A w \in Workers : pc[w] = "ok") =>
    \A p \in DOMAIN medium.page : Wanted(p) => \E w \in Workers : SavedBy(w, p)
=============================================================================
