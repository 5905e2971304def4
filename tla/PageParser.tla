----------------------------- MODULE PageParser -----------------------------
(***************************************************************************)
(* percona-data-recovery-tool/page_parser.c: carving pages out of a        *)
(* tablespace with one process and one cache.                              *)
(*                                                                         *)
(* Every window is read to the front of the cache; what the scan has left  *)
(* of a full window is read again after a seek back.  A page goes to a     *)
(* file of its own, or (-c, -C) adds one to the counter of its index.      *)
(*                                                                         *)
(* `cache' says which byte of the medium each byte of the cache holds: a   *)
(* short read leaves the rest as it was.  read may return less than the    *)
(* cache holds long before the end of the file, at a bad sector or at the  *)
(* kernel's limit for one call: `breaks' are the places where it may.  The *)
(* program takes every such window for the last and seeks back from none.  *)
(***************************************************************************)
EXTENDS Integers, Sequences, FiniteSets

CONSTANTS
  PageSize,     \* UNIV_PAGE_SIZE
  CacheSize,    \* cache_size: main rounds -s down to whole pages
  FileSize,     \* bytes that can be read
  Media,        \* what the medium may hold
  BreakSets,    \* the sets of places at which a read may end early
  MaxIndexId,   \* page_counters has a row for the index ids below it
  FilterIds,    \* -T; 0: every index
  Faults        \* the system calls that may fail: a subset of FaultKinds

FaultKinds == {"read", "open", "mkdir"}
Kinds      == {"INDEX", "BLOB"}   \* the page types it looks for
Modes      == {"save", "count", "count_ignore_crap"}
Offsets    == 0 .. FileSize - 1

\* As in StreamParser: text, sum: valid_innodb_page, valid_innodb_checksum accept it.
Header == [kind : Kinds, id : Nat, index : Nat, text : BOOLEAN, sum : BOOLEAN]

ASSUME PageParserAssumption ==
  /\ PageSize \in Nat \ {0} /\ FileSize \in Nat /\ MaxIndexId \in Nat /\ FilterIds \subseteq Nat
  /\ CacheSize \in Nat /\ CacheSize > PageSize /\ CacheSize % PageSize = 0
  /\ \A m \in Media : DOMAIN m \subseteq 0 .. FileSize - PageSize /\ \A p \in DOMAIN m : m[p] \in Header
  /\ BreakSets \subseteq SUBSET (1 .. FileSize) /\ Faults \subseteq FaultKinds

VARIABLES
  mode,         \* -c, -C or neither
  filter,       \* filter_id
  medium,       \* the header of the page image at an offset
  breaks,       \* where a read may end before the cache is full
  pc,           \* "read", "scan", "done", "exit" (an error), "crash" (outside the cache)
  file_pos, read_bytes, last,
  i,            \* the cursor in the cache
  cache,
  out           \* what process_ibpage has written or counted, in order

vars == <<mode, filter, medium, breaks, pc, file_pos, read_bytes, last, i, cache, out>>

NoByte == -1

\* (unsigned int) -1: more bytes than any cache has
MinusOne == 2 * CacheSize + PageSize

Init ==
  /\ mode \in Modes /\ filter \in FilterIds /\ medium \in Media /\ breaks \in BreakSets
  /\ pc = "read" /\ file_pos = 0 /\ read_bytes = 0 /\ last = FALSE /\ i = 0
  /\ cache = [k \in 0 .. CacheSize - 1 |-> NoByte]
  /\ out = <<>>

ValidPage(o) ==
  /\ o \in DOMAIN medium
  /\ \/ medium[o].kind = "INDEX" /\ medium[o].text
     \/ medium[o].kind = "BLOB" /\ medium[o].sum

\* a page begins in the cache at i, and all of it is there
PageAt(k) ==
  /\ k + PageSize <= CacheSize
  /\ \A j \in 0 .. PageSize - 1 : cache[k + j] = cache[k] + j
  /\ ValidPage(cache[k])

\* what read may return: a full cache, the rest of the file, or the bytes before a break
ReadSizes ==
  LET left == FileSize - file_pos
      most == IF left < CacheSize THEN left ELSE CacheSize
  IN  {got \in 1 .. most : got = most \/ file_pos + got \in breaks}

ReadCache ==
  /\ pc = "read"
  /\ \E got \in ReadSizes :
       /\ cache' = [k \in DOMAIN cache |-> IF k < got THEN file_pos + k ELSE cache[k]]
       /\ file_pos' = file_pos + got /\ read_bytes' = got
       /\ last' = (got < CacheSize)
  /\ i' = 0
  /\ pc' = "scan"
  /\ UNCHANGED <<mode, filter, medium, breaks, out>>

EndOfFile ==
  /\ pc = "read" /\ FileSize <= file_pos
  /\ pc' = "done"
  /\ UNCHANGED <<mode, filter, medium, breaks, file_pos, read_bytes, last, i, cache, out>>

\* read returns -1, which read_bytes holds as the largest number of bytes
ReadError ==
  /\ pc = "read" /\ "read" \in Faults
  /\ read_bytes' = MinusOne /\ last' = FALSE /\ i' = 0
  /\ pc' = "scan"
  /\ UNCHANGED <<mode, filter, medium, breaks, file_pos, cache, out>>

\* read_bytes - UNIV_PAGE_SIZE is an unsigned difference
Wraps == read_bytes < PageSize

\* mutant: looks for a page until the last byte that was read
InWindow_ToEnd == Wraps \/ i < read_bytes

InWindow == Wraps \/ i < read_bytes - PageSize

\* the scan does not end with what was read, and goes on for 4 GB
Overruns == Wraps \/ read_bytes = MinusOne

Scanning == pc = "scan" /\ InWindow /\ (Overruns => i + PageSize <= CacheSize)

\* process_ibpage: the pages that are left out on purpose
Skipped(h) ==
  \/ mode = "count_ignore_crap" /\ (h.index = 0 \/ h.index >= MaxIndexId)
  \/ filter # 0 /\ h.index # filter

\* "Too high index id!"
TooHigh(h) == mode = "count" /\ h.index >= MaxIndexId

\* the static id: how many pages that are no BLOBs have been written
NextId == Cardinality({k \in 1 .. Len(out) : out[k].name[1] = "INDEX"})

\* mutant: without the static id
NameOf_NoId(h) ==
  IF mode # "save" THEN <<"COUNT", h.index>> ELSE <<h.kind, h.index, h.id>>

\* the file, or the counter, of a page
NameOf(h) ==
  IF mode # "save" THEN <<"COUNT", h.index>>
  ELSE IF h.kind = "BLOB" THEN <<"BLOB", h.id>> ELSE <<"INDEX", h.index, NextId>>

\* process_ibpage; open fails with -1, which `if (!fn)' does not see, and write is
\* not looked at
TakePage ==
  LET h == medium[cache[i]]
  IN  /\ Scanning /\ PageAt(i)
      /\ Skipped(h) \/ ~ TooHigh(h)
      /\ \/ Skipped(h) /\ UNCHANGED out
         \/ /\ ~ Skipped(h)
            /\ \E ok \in {TRUE} \cup (IF mode = "save" /\ "open" \in Faults THEN {FALSE} ELSE {}) :
                 out' = Append(out, [page |-> cache[i], name |-> NameOf(h), stored |-> ok,
                                     stale |-> Overruns])
      /\ i' = i + PageSize
      /\ UNCHANGED <<mode, filter, medium, breaks, pc, file_pos, read_bytes, last, cache>>

\* exit: an index id without a counter, a directory that cannot be made
TakePageExit ==
  LET h == medium[cache[i]]
  IN  /\ Scanning /\ PageAt(i) /\ ~ Skipped(h)
      /\ TooHigh(h) \/ (mode = "save" /\ "mkdir" \in Faults)
      /\ pc' = "exit"
      /\ UNCHANGED <<mode, filter, medium, breaks, file_pos, read_bytes, last, i, cache, out>>

NextByte ==
  /\ Scanning /\ ~ PageAt(i)
  /\ i' = i + 1
  /\ UNCHANGED <<mode, filter, medium, breaks, pc, file_pos, read_bytes, last, cache, out>>

RunOutOfCache ==
  /\ pc = "scan" /\ Overruns /\ i + PageSize > CacheSize
  /\ pc' = "crash"
  /\ UNCHANGED <<mode, filter, medium, breaks, file_pos, read_bytes, last, i, cache, out>>

\* mutant: also after the last window
SeekBack_Always == file_pos - (read_bytes - i)

\* mutant: the minus is missing
SeekBack_Forward == IF last THEN file_pos ELSE file_pos + (read_bytes - i)

\* mutant: goes back by a page, whatever was left
SeekBack_Page == IF last THEN file_pos ELSE file_pos - PageSize

SeekBack == IF last THEN file_pos ELSE file_pos - (read_bytes - i)

EndOfWindow ==
  /\ pc = "scan" /\ ~ InWindow
  /\ file_pos' = SeekBack
  /\ pc' = "read"
  /\ UNCHANGED <<mode, filter, medium, breaks, read_bytes, last, i, cache, out>>

Step ==
  \/ ReadCache \/ EndOfFile \/ ReadError \/ TakePage \/ TakePageExit \/ NextByte
  \/ RunOutOfCache \/ EndOfWindow

Ended == pc \in {"done", "exit", "crash"}

Next == Step \/ (Ended /\ UNCHANGED vars)

Spec == Init /\ [][Next]_vars

FairSpec == Spec /\ WF_vars(Step)

-----------------------------------------------------------------------------
(***************************************************************************)
(* Properties                                                              *)
(***************************************************************************)
\* The types; and the cursor of process_ibfile stays within the bytes that were read.
TypeOK ==
  /\ mode \in Modes /\ filter \in FilterIds /\ \A p \in DOMAIN medium : medium[p].kind \in Kinds
  /\ breaks \in BreakSets
  /\ pc \in {"read", "scan", "done", "exit", "crash"}
  /\ file_pos \in 0 .. FileSize /\ read_bytes \in (0 .. CacheSize) \cup {MinusOne} /\ last \in BOOLEAN
  /\ i \in 0 .. CacheSize /\ (pc = "scan" /\ ~ Overruns => i < read_bytes)
  /\ cache \in [0 .. CacheSize - 1 -> Offsets \cup {NoByte}]
  /\ \A k \in 1 .. Len(out) : out[k].page \in Offsets

\* A page that must not be lost: valid, not left out, apart from other images.
Wanted(p) ==
  /\ ValidPage(p) /\ ~ Skipped(medium[p])
  /\ \A q \in DOMAIN medium \ {p} : p - q >= PageSize \/ q - p >= PageSize

Taken == {out[k].page : k \in {j \in 1 .. Len(out) : ~ out[j].stale}}

\* A read may end inside the page or right behind it: at a break, or with the file.
Cut(p) == \E e \in breaks \cup {FileSize} : p < e /\ e <= p + PageSize

\* However the windows fall, page_parser misses a page only where a read ended early
\* or the file ended: inside the page or right behind it (line 224 compares with <,
\* and 255 does not seek back).  Two such pages do not fit before one end, so each
\* short read costs one page at most, and the rest of the file is still carved.
OnlyCutPagesLost ==
  pc = "done" => \A p \in DOMAIN medium : Wanted(p) /\ ~ Cut(p) => p \in Taken

\* Two pages of one run end in one file only if they are BLOB pages of one page id,
\* as the same page of two tablespaces is: copies of an INDEX page are all kept.
FilesApart ==
  \A j, k \in 1 .. Len(out) :
    j # k /\ out[j].name[1] # "COUNT" /\ out[j].name = out[k].name =>
      \A m \in {j, k} : medium[out[m].page].kind = "BLOB"

Failed == pc \in {"exit", "crash"} \/ (pc = "scan" /\ Overruns)

\* a file of no bytes is never scanned
ScanPhase ==
  IF Failed THEN "failed"
  ELSE IF read_bytes = 0 THEN "idle"
  ELSE IF pc = "done" THEN "finished" ELSE "scanning"

\* of the file, that the scan has come to
ScanOffset == IF pc = "scan" THEN file_pos - read_bytes + i ELSE file_pos

Parser    == {"page_parser"}
Phases    == [s \in Parser |-> ScanPhase]
Positions == [s \in Parser |-> IF ScanPhase \in {"scanning", "finished"} THEN ScanOffset ELSE 0]

Carving == INSTANCE PageCarving WITH
  Scanners   <- Parser,
  MediumSize <- FileSize,
  From       <- [s \in Parser |-> 0],
  Upto       <- [s \in Parser |-> FileSize],
  valid      <- {o \in Offsets : ValidPage(o)},
  wanted     <- {o \in Offsets : Wanted(o) /\ ~ Cut(o)},
  phase      <- Phases,
  at         <- Positions,
  saved      <- [s \in Parser |-> Taken]

\* Reading the end of each full window again, and of a short one not, is a plain scan
\* of the file for the pages that no end of a read touches: process_ibfile implements
\* PageCarving.
CarvesPages == Carving!Spec

\* page_parser ends: every window of more than one page makes progress.
Termination == <> Ended
=============================================================================
