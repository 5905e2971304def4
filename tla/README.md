# Verification of mysql_tools

A TLA+ development of the tools collected in this repository: programs that
carve InnoDB pages out of damaged media, parse records out of pages, reconnect
tablespaces to the data dictionary, check, repair and update tablespace files
page by page, load a file system or a server, replay SQL and set up replication,
with the server sources that the recovery tools were built from. Modules are
translated from the source they name. TLC checks them on small instances; TLAPS
proves the main invariants for every value of the constants.

- [1. The system and its parts](#1-the-system-and-its-parts)
- [2. Plan](#2-plan)
- [3. Modules and code](#3-modules-and-code)
- [4. Runs, bounds and fairness](#4-runs-bounds-and-fairness)
- [5. Proofs](#5-proofs)
- [6. Where code and documents disagree](#6-where-code-and-documents-disagree)
- [7. What is not covered](#7-what-is-not-covered)

`PROJECT.json` has the same in a form for tools: components, runs, the source
lines of every definition (`map`), the mutant that breaks each property,
findings, hazards and theorems.

Commands, in this directory: `tlasany M.tla`, `tlc -config X.cfg MCM.tla`,
`tlapm MProofs.tla`.

## 1. The system and its parts

Paths are below `src/`. `undrop/` is `undrop-for-innodb/`, `percona/` is
`ibd_recovery_with_frm/percona-data-recovery-tool-for-innodb-0.5/`.

### Recovery of lost tables

The programs of a recovery talk through files: **stream_parser** reads a medium
and leaves one file per index, **c_parser** reads those files and leaves rows and
a `LOAD DATA` statement, **recover_dictionary.sh** does both for the four
dictionary tables and loads them into a server, **sys_parser** asks that server
for a table's definition, **ibdconnect** changes `ibdata1` so that a server
accepts an `.ibd` file again, and **innochecksum** makes the pages it changed
acceptable.

| part | state | operations | what is hard | correct means |
| --- | --- | --- | --- | --- |
| stream_parser (`undrop/stream_parser.c`) | a window of cached bytes per forked worker; output files shared by all of them | fork and wait; open, seek, read, test a position, append a page, skip zeros, carry the tail | workers append to one file with no lock; page images at any byte, across reads and across slices; short reads; calls that fail | no page of a slice is lost or doubled, no hole between two reads, the report comes last, it ends |
| c_parser (`undrop/c_parser.c`) | the page in memory, two walks over its record list, totals over all pages | read a page, check the list, walk it or search byte by byte, dump a row, print the totals | damaged lists: cycles, pointers out of the page, two walks with different integer types and end conditions; chains of BLOB pages; exits in the middle | both walks end and agree, no row twice, the status line tells the truth; chains end |
| record parsing (`undrop/c_parser.c`, `check_data.c`, `tables_dict.c`) | none: a function of bytes and table definition | offsets of fields, their sizes, limits and characters | lengths taken from damaged bytes | a row that is accepted fits the definition |
| value printing (`undrop/print_data.c`) | the page and offset a BLOB goes on at, what was printed of it | bytes to text; follow the chain of BLOB pages | a chain that comes back to itself, breaks off, or leads to no BLOB; an exit when memory is short (139) | it ends, whatever the chain |
| sys_parser (`undrop/sys_parser.c`) | a connection | queries, printing | fixed arrays; results used after they are freed (lines 292, 354) | the definition is that of the dictionary |
| sql_parser (`undrop/sql_parser.y`, `.l`) | `table_def_t` | grammar actions | - | the definition is that of the statement |
| recover_dictionary.sh, test.sh | files and a server | run the programs above | the second c_parser writes over the first one's statement (line 38) | as in test.sh: checksums of tables before and after are equal |
| ibdconnect (`percona/ibdconnect.c`, `include/ibdconnect.h`) | `ibdata1`, changed in place | check that the space id is free, update the table's row, update the rows of its indexes | no log: it may stop between two pages; a check that is separate from the use; 8-byte ids in a 4-byte world | no two tables get one tablespace; success means connected; only the named table changes |
| innochecksum (`undrop/innochecksum.c`) | the file; one page in memory | check the LSNs and two checksums of each page, repair and write back | the fields cover one another; a write may stop half-way; runs are repeated | success means valid; valid pages and page bodies are left alone |
| incrementalupdate (`percona/incrementalupdate.c`) | a snapshot, a backup, a position in each | read both, compare, write the page over the old one | the two positions move apart when a read or write goes wrong; it may stop between or inside pages | pages that are done are the snapshot's, the rest the backup's |
| page_parser (`percona/page_parser.c`) | a window that seeks back; one output file or counter per page | as stream_parser, in one process | off by one at the end of the window (224), reads that end early (221), a cache of one page (256), BLOB pages that overwrite each other (179) | no page is missed but one that the end of a read or of the file cuts or touches; every index page is in a file of its own; it ends |
| constraints_parser and helpers (`percona/constraints_parser.c`, ...) | as c_parser | as c_parser, compiled for one table | as c_parser | as c_parser |
| innochecksum of Percona (`percona/innochecksum.c`) | as innochecksum | one write per repaired field | the old checksum is repaired before the new one it covers (224) | as innochecksum |
| server threads (`percona/mysql-source/sql/mysqld.cc`) | lists of THDs, idle threads and their counters under `LOCK_thread_count`, shutdown flags outside of it | accept, refuse or queue a connection; end a connection; idle threads; SIGHUP and SIGTERM; close all connections and exit | one condition variable for all idle threads; counters read outside the lock; a shutdown that begins at any time, with three parties waiting for one another | a THD is with one thread, nobody is forgotten, what is queued is served, the shutdown ends |
| create_defs.pl, the rest of `mysql-source/` | - | header generator; vendored sources | - | - |

### Load and test programs

| part | state | operations | what is hard | correct means |
| --- | --- | --- | --- | --- |
| test_checksum (`test_checksum/main.c`) | a file, one buffer array, ten threads | fill the file; each thread: read, verify, change, store checksum, write | no lock anywhere; `pwrite` unchecked and possibly partial; threads that outlive an error | threads do not disturb each other; a spoilt page is found and kept |
| ibd page simulator (`write_ibd_page_simulator/*.cc`) | a file, a work area per worker | the same with another page for the write than for the read | short writes count as success (94), last chunk (138), shared seed (253) | as above |
| mysql client simulator (`mysql_client_simulator/*.py`) | a connection and a log file per thread | replay each statement until it is taken | a lost answer is retried (44), on the same dead connection; a connection that is the number 1 (27) | what a thread has got through is in the binlog once, in the order of its file |
| sysbench-tpcc (`sysbench_tools/mysql_perf/sysbench-tpcc/*.lua`, the same text in `sysbench_tools/tokudb/lua2`) | the server's tables; a transaction per thread | new order, payment, delivery; restart after an error | transactions that compute in the client between a read and a write; deadlocks and lock waits at any statement; consistent and locking reads side by side | the conditions of tpcc_check.lua |
| sysbench scripts | the server's tables | random statements, XA | - | - |

### Replication, diagnosis, the rest

| part | state | operations | what is hard | correct means |
| --- | --- | --- | --- | --- |
| rpl.py (`master_slave/rpl.py`) | two servers | read the binlog position, grant, change master, start, look once | position without a dump (36), answers only printed, a check that comes too early (79) | a slave that had a copy follows the master without a gap |
| stonedb_slave.sh (`master_slave/stoneDB/`) | two servers, a dump | export, convert, import, change master, look once | data and GTIDs read at two moments (113), statuses that nobody looks at (136, 137), a check that comes too early (144) | the slave has the dump and what follows it; it catches up |
| ibdscan, innblock, page diagnosis, ibdscan_python | none: one pass over a file | count, list, print | lists without a bound (`innblock/an_block.cpp:80`), sums that leave pages out (`ibdscan.v1.0.cpp:576`) | the sums are those of the file |
| StoneDB build files, server scripts, notes | - | single commands, third-party headers | - | - |

The hazards listed in `PROJECT.json` are those lines at which these difficulties
bite, with the properties that would show it.

## 2. Plan

Ordered by how much of a recovery depends on the part, then by how much
concurrency a part has.

Done, in this order: **StreamParser** (carving; everything later works on its
output), **IbdConnect** (the only program that changes a dictionary in place),
**CParser** (walks and totals) with its proofs, **ChecksumIo** (unlocked threads
on one file), **InnoChecksum** (repair in the presence of crashes),
**IncrementalUpdate** (two files side by side), **PageCarving** (an abstract
carver) with the refinements of StreamParser, which is proved, and of
**PageParser**, both proved; **ServerThreads** with its proofs; **ClientReplay** and, composed
with it, **ReplicationSetup**, with their proofs; **Tpcc**, whose conditions are proved for any
number of threads and both isolation levels.

Left, in this order:

1. **PerconaChecksum** as a variant of InnoChecksum with the other order of
   repairs, and one abstract repair that both are measured against.
2. **Recovery**: StreamParser's output as CParser's input (pages of one index
   appended by several workers in any order, some of them twice at a slice
   boundary), with the question which rows come out twice.
3. **RecordFormat**: field offsets, sizes and limits as operators, against a
   reference decoder, for both record formats.
4. The page simulator as an instance of ChecksumIo's protocol, and the list walks
   of innblock.
5. Proofs: the repair lemma of item 1 for both orders. Every safety property that a run checks
   has a theorem by now (section 5).

A run is added only for a question that no run asks yet; an instance is shared
where it can be, as the one-page and the many-page questions of CParser are.

## 3. Modules and code

Each component has a module `M`, an instance `MCM` with its configurations, and
`MProofs`, which extends `M` and TLAPS. ClientReplay and ReplicationSetup share
`MCReplication` and `ReplicationProofs`; the four modules in which one program works on
one page after the other - ChecksumIo, InnoChecksum, IncrementalUpdate and
PageCarving - have their proofs in `PageToolProofs`. A mutant - a definition
with a plausible bug, marked `\* mutant:` - stands in front of the definition it
would replace and is used by nothing else.

### StreamParser (`undrop/stream_parser.c`)

`main` forks one worker per CPU (`Fork`), then waits (`StartWaiting`, `Wait`) and
reports (`Report`). A fork that fails leaves `pids[n] = -1`, and `waitpid(-1)`
reaps any child. Worker `w` opens the medium and seeks (`OpenIbfile`), then
alternates between `read` (`ReadCache`, `EndOfSlice`, `ReadError`) and `scan`
(`SavePage`, `SaveError`, `SkipBytes`, `KeepTail`). `curr_disk_offset`,
`curr_cache_offset` and `bytes_in_cache` are those of `process_ibfile`, one of
each per worker.

A medium is the offsets at which images start, with the header fields the
program tests, and the set of zero bytes. The scan for the end of a run of zeros
looks one byte past the cache; `ZeroRunEnds` lets that byte be anything. Reads
may be short; a short write leaves a record with `whole = FALSE`, which the
program does not notice. Progress output and the semaphores, whose calls are
commented out, are left out.

### PageCarving, and how it is implemented

The promise of a carver without caches, seeks and processes: a scanner stands at
a position of its share; there it may save a valid page and step over it (`Save`),
or move on past positions at which no wanted page begins (`Skip`); it is finished
when no page fits into what is left (`Finish`), and may fail at any time.
`Carved` follows: nothing wanted in a finished scanner's share is missing.

`StreamParser!CarvesPages` maps a scanner to a worker. Its position is the medium
offset of the cursor, `curr_disk_offset - bytes_in_cache + curr_cache_offset`; a
refill, a carried tail and every step of `main` are stutters. A step over zeros is
a `Skip`, which may pass many positions: that none of them begins a wanted page is
what has to be shown. `PageParser!CarvesPages` has one scanner, whose share is the file;
wanted are the pages that no end of a read cuts, for the reason given below.

### PageParser (`percona/page_parser.c`)

`ReadCache`, `EndOfFile` and `ReadError` are the read at the top of
`process_ibfile`; `TakePage` and `TakePageExit` are `process_ibpage` with its
options (`-c`, `-C`, `-T`) and its exits; `NextByte`, `EndOfWindow` and
`RunOutOfCache` are the scan, with `SeekBack` the `lseek` behind it. `cache` says
which byte of the medium each byte of the cache holds, because a window that is
not filled leaves the rest of the last one behind. `Wraps` is the unsigned
difference in `i < read_bytes - UNIV_PAGE_SIZE`: with fewer bytes than a page the
scan goes on over bytes of earlier windows (`stale` pages) and out of the cache, which
is modelled as a crash. The
strict comparison is kept, so the page that ends with the last byte of the file is
never looked at.

`read` may return less than the cache in the middle of the medium (a bad sector, a pipe,
the kernel's limit on one read). The code takes that for the last window (`last`,
220-222) and does not seek back behind it (255-257), but reads on: the bytes that were not
scanned, a page at most, are lost. `breaks` are the places where that happens; a read
comes to the first of them in its way or fills the cache (`ReadSizes`). A page is `Cut`
if one of them, or the end of the file, lies in it or right behind it. `OnlyCutPagesLost`
says that no other page is lost, and `CarvesPages` that the rest is found as PageCarving
promises. With no breaks only the page at the very end of the file is cut.

### ServerThreads (`percona/mysql-source/sql/mysqld.cc`)

An action is what happens between taking and leaving `LOCK_thread_count`, or one
access to shared state outside of it. `main`: `NewConnection`, `NoConnection`,
`TestAbort`; `CheckConnection` (max_connections, compared before the lock is
taken), `QueueThd`, `CreateThread` or `CreateFails`, `DeleteThd`; then the way out:
`LeaveSelect`, `TellLeft`, `WaitReady`, `DestroyMutexes`, `Exit`. A connection thread:
`EndOfConnection`, `KillMysql`, then `end_thread` as `EndThreadIdle`, `EndThreadNext`
or `EndThreadExit`; an idle thread `CacheSleep`, `TakeThd`, `CacheLeave`, and
`TellDeath` for the broadcast that follows the unlock. The signal thread: `TakeTerm`, `TakeHup`,
`KillCached`, `FlushThreadCache`, `WaitSelect`, `TellThreads`, `ForceClose`, `Drain`,
`CleanUp`. `asleep` are the threads in `pthread_cond_wait` that nothing has woken: a
signal removes one of the waiters, a broadcast all, and `SpuriousWakeup` any.
`WaitSelect` interrupts main's `select` until main has noticed `abort_loop`.

### IbdConnect (`percona/ibdconnect.c`, `percona/include/ibdconnect.h`)

A run is three walks: `CheckPage`, `SpaceTaken`, `CheckDone`; then `UpdateTable`,
`NextTables`, `TableMissing`; then `UpdateIndexes`, `Finish`. Each step is one
page. `ReadError`, `WriteError` and `Kill` end it anywhere, a `WriteError` with
any part of the page written; `Start` begins the next run on what is there.
`ReadId` is `mach_read_from_8` as it is written, with its shift by 31 instead of
32; `HalfWord` is 2^31. Rows below the root level, which the walks never come to, are
left out (section 6). The checksum of a written page is not modelled:
the program leaves it stale and innochecksum has to follow.

### CParser (`undrop/c_parser.c`)

`ReadPage` applies `-d` and `-T`. `CheckNothing`, `FollowPointer`, `PageIsBad` and
`PageIsGood` are `check_page`; `StartWalk`, `DumpRecord`, `NoRecord` and `PageDone`
are `process_ibpage`; `PrintStatus` is the end of `main`. `FollowBlob`, `EndOfBlob` and
`BlobFault` are the loop in `print_field_value_with_external` (`print_data.c:435-491`),
which prints the column that a record stores on other pages: what a BLOB header says is
`BlobPages`, in which a number stands for page and offset; a page that is not in
it cannot be opened or read. A row has at most one such column, and is in `dump` from its first byte
on. `OpenExit` is the exit of `open_ibfile` at what is no regular file (724; the comment above
it, "Skip non-regular files", is not what it does) and that of `process_ibfile` without memory
(684), `PrintExit` the one of `print_hex` (139); after either there is no status line. `check_page` computes in
`int16_t` (`NextRecord`), `process_ibpage` in an unsigned type (`NextOffset`). A
page is the word in front of each position and the positions whose bytes pass the
record checks. `dump` is what was written, with the page and position each row
came from.

### ChecksumIo (`test_checksum/main.c`)

`WriteFile`, `FileWritten`, `ThreadCreate`, `ThreadWait` are `main`; a thread goes
through `ReadLow`, `ReadHigh`, `Verify`, `RandBufData`, `StoreChecksum`, `WriteLow`,
`WriteHigh` and begins again. A page is two blocks, each transferred as a whole, so
that another thread's transfer may come between them. `TornWrite` stops after the
first block. A checksum is what it is of: collisions are left out. `rand_write`
and `is_the_file_corrupt`, which nothing calls, are left out.

### InnoChecksum (`undrop/innochecksum.c`, `include/mysql_def.h`)

`PageLoop` declares what this module and the next have in common - the loop over a file with
one buffer, which is run again and again. `ReadPage`, `CheckPage`, `WritePage`, `NextPage`, `InnoEndOfFile` are the loop of
`main`; `CheckPage` contains the three checks with their repairs in the code's
order (`LsnFixed`, `NewFixed`, `OldFixed`) and the refusals between them
(`Refused`). An `InnoWriteError` may leave the front of the page written; `InnoKilled` ends
the run between two steps; `InnoAgain` starts another with other options. The new
checksum is of the LSN and the body, the old one of the LSN and of the new
checksum *as stored* (the 26 bytes it covers), which is why the order matters.

### IncrementalUpdate (`percona/incrementalupdate.c`)

`ReadFile`, `ReadBackup`, then `NotWhole`, `SamePage` or `CopyPage`, per page.
`ReadBackup` keeps the page before when there is nothing to read, because the
result of `fread` is not looked at; `Rewound` is the `fseek` by minus one page, which
fails at the start of the file; `UpdateWriteError` is a failed `fwrite` that nobody looks
at either. `UpdateKilled` may leave a page torn, `UpdateAgain` takes another snapshot.

### ClientReplay and ReplicationSetup (`mysql_client_simulator.py`, `rpl.py`, `stonedb_slave.sh`)

`ClientReplay`: `Connect` is `conn_mysql` with its three tries, after which the number 1
is used as a connection; `ExecSql`, `Answered`, `Unanswered`, `Raise` and `EndOfLog` are
a thread. External are the server (`Take`, `Refuse`) and the network (`LoseLink`), which
may lose an answer to a row that was carried out. A thread repeats a row until it
has an answer, on a connection that nobody opens again (`LinkAfterLoss`).

`ReplicationSetup` extends it with a script and a slave, so that clients write
between any two of the script's statements. rpl.py: `ShowMasterStatus`,
`GrantReplication` (itself in the binlog), `StopSlave`, `ChangeMaster`, `StartSlave`,
`SlaveCheck`, `RplRaises`. stonedb_slave.sh: `Checks`, `ExportData`, `ExportGtids`,
`ExportFails`, `ResetSlave`, `Import`, `ImportFails`, `ChangeSyncMaster`, `Message`. `SlaveConnects`
and `SlaveApplies` are the slave's own threads. `SlaveApplies` applies one transaction after
the other, as a slave does by default; `change_my_cnf` of stonedb_slave.sh (82-83), which is commented
out at 156, would set eight parallel workers with `LOGICAL_CLOCK`, which may
commit in another order: that configuration is not modelled. A
transaction that does not follow what the slave holds may stop them with an error. `sound` is a
history variable: it is true as long as what the script relies on is so - the
slave held exactly the binlog up to the position that was read (rpl.py); no
transaction came between data and GTIDs, and the import was complete
(stonedb_slave.sh).

### Tpcc (`sysbench-tpcc/tpcc_run.lua`, `tpcc_common.lua`, `tpcc.lua`, `tpcc_check.lua`)

An action is one statement, or several that lock the same row. New order:
`BeginNewOrder`, `TakeNextOid`, `InsertOrder`, `InsertNewOrder`, `OrderLine` or
`MissingItem`; payment: `BeginPayment`, `PayWarehouse`, `PayDistrict`, `PayCustomer`;
delivery, for each district: `TakeOldest`, `ReadOrder`, `SetCarrier`, `AddBalance`. InnoDB is
external: row locks are shared or exclusive, kept to the end of the transaction, and a
lock on the end of `new_orders` stands for the gap lock that keeps inserts
away at REPEATABLE-READ; a locking read sees the newest committed row, a
consistent one what was committed when the transaction first read (`Sees`). `Restart`
is a deadlock or a timeout of any statement that waits for a lock: what was written is
thrown away by the `ROLLBACK` of `before_restart_event`. The
conditions of `tpcc_check.lua` are stated for every committed state, not only for the last.

## 4. Runs, bounds and fairness

`old`, `missed`, `visited`, `tears`, `sound` and the `worker` of a saved record are history
variables: no guard of a program step depends on them, but for the bound on torn
writes.

| run | configuration | asks | instance |
| --- | --- | --- | --- |
| `stream` | StreamParser.cfg | `NoPageSkipped`, `WorkerOrderInFile`, `ReportAfterWorkers`; `CarvesPages` (refinement); `Termination` | 2 workers, pages of 3 bytes, cache of 4, 11 bytes of medium, 24 media (4 layouts by 6 sets of zeros), all failures: 226 000 states |
| `stream_loss` | StreamParserLoss.cfg | `EveryPageExtracted`, violated | one image at any offset, no failures |
| `page_parser` | PageParser.cfg | `TypeOK`, `OnlyCutPagesLost`, `FilesApart`; `CarvesPages`; `Termination` | pages of 3 bytes, cache of 6, file of 12, up to 3 images at any bytes, reads that end early at none, one, two or three places, all modes and failures: 2 144 000 states |
| `ibdconnect` | IbdConnect.cfg | `TablesOwnSpaces`, `SuccessConnects`; `OneTableChanges`, `IndexesFollowTable` (actions) | dictionaries of up to 3 pages, 6 jobs, 3 runs, all failures: 2 700 states |
| `ibdconnect_id` | IbdConnectId.cfg | `OneTableChanges`, violated | a table id above 2^32 |
| `c_parser` | CParser.cfg | `WalkAgreesWithCheck`, `NoRowTwice`, `TotalsAddUp`; `EndsButForEmptyCycle` (liveness) | one page of 300 lists with two row sets in both formats, or up to 3 pages in two files; columns on 11 BLOB chains of 3 lengths; 4 option sets, all failures: 89 000 states |
| `checksum_io` | ChecksumIo.cfg | `PagesSound`; `SpoiltStaysSpoilt` (action), `KeepReading` (liveness) | 2 threads, a page each, 2 contents, one torn write: 18 000 states |
| `innochecksum` | InnoChecksum.cfg | `PrefixValid`; `BodyKept` (action) | 2 pages in any combination of right and stale fields, any options, 2 runs: 464 000 states |
| `incrementalupdate` | IncrementalUpdate.cfg | `DonePagesCopied`, `RestIsOld` | snapshots of 1 or 2 pages, backups of 0 to 3, 2 runs, all failures: 168 000 states |
| `server_threads` | ServerThreads.cfg | `CountersAgree`, `OneThreadPerThd`, `NobodyForgotten`; `QueueIsServed`, `ShutdownCompletes` (liveness) | 3 connections, 3 threads, max_connections 1 (which lets two in, as the code compares with `>`), thread_cache_size 2: 303 000 states |
| `replication` | Replication.cfg | `LogsInOrder`, `ReplicaIsPrefix`; `LogsReplayed`, `ReplicaCatchesUp` (liveness) | 2 client threads with 0 and 2 rows, one refusal, one transaction before, a slave with a copy or without, both scripts: 323 000 states |
| `tpcc` | Tpcc.cfg | `TypeOK`, `MoneyAgrees`, `OrdersAgree`, `DeliveryAgrees`, `BalancesAgree`, `NoRowMissing` | 2 threads, 2 customers, 2 items, 2 districts, one order to deliver, 3 events, both isolation levels: 696 000 states |

The runs ask for what is hard to see in the code. Type invariants and the
invariants below that follow from a proof (`CursorInCache`, `SavesInWindow`,
`SliceComplete`, `NoLostWakeup`, `LimitsHold`, `LockOutlivesThreads`, `RowsApart`,
`LossFromGoodPage`, `ReadStaysCurrent`, `ValidOnSuccess`, `ValidUntouched`) are
theorems of section 5 instead. `TypeOK` is in the runs of the two modules where it
says more than types: what an idle thread of Tpcc must not have kept, how
far the cursor of PageParser may go.

Why these bounds are enough for the questions:

- *stream*: a cache of 4 bytes for pages of 3 makes every page cross a read, the
  step over zeros (at least 2) crosses the end of the cache, and 11 bytes for two
  workers put images inside, at and across both ends of a slice, whose length (5)
  is no multiple of a page. A third worker adds no new neighbour: slices only
  meet at one boundary at a time. The proofs remove all of these bounds.
- *ibdconnect*: two tables are needed for a conflict, two pages for a walk that
  may stop in the middle, three runs for one that follows an interrupted one
  and is interrupted itself. A half word of 2 makes the shift by one bit too few
  visible with ids of two words.
- *c_parser*: with 16 bytes and records of 5, a list has at most four entries
  before the bound on `recs` ends it, and cycles of length one, two and three
  exist; BLOB chains end, come back to themselves after one page or two, with and without
  content, and lead to a page that is missing or no BLOB; targets below 2, above the page and too near its end are among them. Pointers
  wrap at 32, so a relative pointer can reach every position from every other.
- *checksum_io*: two threads are what interference needs; ranges are equal and
  adjacent, so a pair stands for all. One torn write reaches every state of a page
  that two would. The proof is for any number.
- *innochecksum*: what a run does to a page does not depend on other pages, so two
  show order and range; two runs show a repair of what an interrupted one left.
- *incrementalupdate*: two pages show positions that have moved apart, and a
  second run starts from a torn page with any snapshot.
- *page_parser*: a cache of two pages is the smallest with which the program ends; a
  file of four is two windows and a rest; a read ends early inside the first window, at
  its end, in the second one, or at several places, at and beside the ends of images; and three images fall before, on and
  behind their boundary, with two of them overlapping.
- *server_threads*: a wakeup is lost, or a THD taken twice, by a woken thread, a
  thread that has ended its connection and a third that is idle; a limit that two
  connections reach and a third exceeds needs three connections. Connections are
  not told apart, so it is enough to watch one of them being served. The proofs are for
  any number; the two liveness properties have this instance only.
- *replication*: one thread with two rows loses an answer and goes on; the other ends at
  once, and shows that it is not held up by the first. A transaction before, one
  between any two steps of a script and one after are all there is to a position.
- *tpcc*: two districts are what a delivery needs to carry a read view from one to the
  other; two threads can wait for each other's rows; three events are a new order,
  a payment and a delivery, or any of them twice. With two lines at most the missing item comes
  before any line that is there; the proofs have any number of lines. Threads and items are symmetric: no action
  tells them apart, and the properties are invariants.

Some hazards are stated in the project without a property that would catch them, each with
the reason: bytes of two workers mixed in one file of stream_parser (an append is one step),
pages that c_parser does not get to read (the totals agree with what it did read), the
unreachable `exit` of test_checksum (`KeepReading` states what it does instead), a backup that is shorter
than the snapshot or cannot be written (`~ missed` in `DonePagesCopied`), the two ways of
stonedb_slave.sh to an unsound copy (`sound` in `ReplicaIsPrefix`), and the delivery at REPEATABLE-READ
(`NoRowMissing` is for READ-COMMITTED). For BLOB pages with one page id, `FilesApart` says
nothing. Section 6 has those that are more than a limit of the model.

Fairness. `StreamParser!FairSpec` asks weak fairness of `main` and of each worker:
they are processes of an operating system, which runs whoever can run; no
particular outcome of a system call is asked for. `ChecksumIo!Spec` asks the same
of `main` and each thread, and `ServerThreads!FairSpec` of main, the signal thread and
each connection thread, for the steps in which they wait for nobody outside:
clients need not speak, signals need not be sent, and a thread in a read goes on
only when its connection has been closed. `PageParser`, `CParser`, `IbdConnect`,
`InnoChecksum` and `IncrementalUpdate` have one process that waits for nothing; fairness
is asked of its own steps only, never of failures, of kills or of another run being
started. So a cycle of empty BLOB pages in CParser is not left by a read that happens to fail. `ReplicationSetup!Fairness` asks it of each client thread, of the script, of
the slave's two threads (which supposes that the credentials they were given are right), and
of the master executing what it was sent; not of
connections being lost or rows refused. `LogsReplayed` has the condition that
the connection holds in its statement, as the program has no way to open another one.
Tpcc has no fairness: what it checks is safety.

## 5. Proofs

All theorems hold for every value of the constants that satisfies the
assumptions in the modules (`SizesAssumption`, `MediaAssumption`,
`FaultsAssumption`; `WordAssumption`, `DictionaryAssumption`, `JobsAssumption`;
`PageParserAssumption`; `SizeAssumption`; `RunsAssumption`, `FileAssumption`,
`FilesAssumption`; `ThreadsAssumption`; `LayoutAssumption`, `InputAssumption`;
`ClientsAssumption`, `CopiesAssumption`; `TpccAssumption`). They only give the constants
their types and what the code itself enforces before the modelled part begins, with these
exceptions. `DictionaryAssumption` says of the dictionary a *first* run meets that
no two tables share a tablespace - without it there would be nothing to preserve.
`PageParserAssumption` has a cache larger than a page, since with the cache of exactly one
page that `main` accepts the program never ends. `InputAssumption` gives every page of a
directory an id of its own, by which `NoRowTwice` tells a page that comes twice from a row
that does.

**StreamParserProofs.** `TypeCorrect`; then, with the invariants in brackets,
`ForkOrder` [`ForkInv`: what has been forked is below `n`], `WindowCorrect`
[`WindowInv`: the scan position of a live worker is at or after the start of its
slice, its cursor is in the cached bytes, fewer bytes than a page are carried
into a read, and a worker that is done has read its share or the whole medium],
from which `CursorStaysInCache` follows; `RecordsInWindow`
[`RecordInv`: every saved image lies between the slice's start and the worker's
scan position], which gives `SavesStayInWindow` and `WorkersKeepOrder`;
`NothingSkipped`, whose core is `SkipMisses`: a step over zeros from `o` by
`i - (ZeroWord - 1)` cannot pass a wanted page, as such a page has a byte that is
not zero within its first `ZeroWord - 1`; `SlicesAreComplete` from that and the
loop condition; `ReportsAfterWorkers` [`WaitInv`: every child below `n` in the
second loop has exited, and so has every child that was reaped; so a
`waitpid(-1)` that takes another one's turn does no harm, as the later `waitpid` for
that child finds it gone].
None of these properties is inductive as it stands: each needs the window
invariant, because what has been saved depends on where the scan is, and that on
what was carried over from the read before.

`CarvingImplemented` is the refinement: `SkipIsSkip`, `SaveIsSave` and
`SilentIsFinish` map a worker's steps to those of PageCarving or to stutters, under
`TypeOK`, `ForkInv` and `WindowInv`.

**IbdConnectProofs.** `TypeCorrect`, `NoSharedSpace`, `SuccessMeansConnected`. The
invariant `IInv` adds to the types and the property that the check walk has seen
no row with the space id up to its page and none at all once it is done
(`CheckHolds`), and that from the update on the table's row has the space id and
so have its index rows up to the page the last walk is at (`ConnectHolds`). The
first is what makes the update safe, though it is a walk of its own.
`OneTableOnly` and `IndexesAfterTable` are the two action properties, for dictionaries
whose ids stay different when they are read as `mach_read_from_8` reads them (`IdsApart`).
That is a hypothesis of the theorems and no assumption of the module: the run
`ibdconnect_id` has a dictionary without it and shows the property violated. Both need
the ids to stay as they are over all runs, and that a run in its last walk has seen and
changed the row of its table, whatever failed before.

**PageToolProofs** has the theorems of the programs that go over the pages of a file. It
extends ChecksumIo, InnoChecksum and IncrementalUpdate, whose definitions have different
names for that purpose (what two of them would call the same has a prefix, as in
`InnoSpec` and `UpdateSpec`), and has PageCarving as an instance for scanners, a medium and
a carver of its own. Each theorem is about one of the four.

- *ChecksumIo*: `TypeCorrect`, `NoInterference`, `SoundUnlessTorn`,
  `EvidenceStays`. `IInv` says phase by phase what a thread's slot has in common with
  its page (`ThreadHolds`); that another thread does not disturb it is
  `RangesApart`, the arithmetic of ranges that replaces a lock.
- *InnoChecksum*: `RepairTypes`, `SuccessMeansValid`, `WorkIsKept`,
  `ValidPagesUntouched`, `BodiesKept`. The core is `RepairWorks`: what the three repairs
  make of a page is valid, keeps its body and is the page itself exactly if it was
  valid. `InnoInv` adds what the buffer has to do with the file in each phase.
- *IncrementalUpdate*: `UpdateTypes`, `DonePagesAreCopied`, `RestStaysOld`.
  `UpdInv` says, for as long as nothing was missed, that the position in the backup is
  that in the snapshot (or one further, between the read and the comparison), that the
  pages in memory are those of the two files, and that the backup keeps its length
  (`InStep`, `SnapshotHolds`). Both properties rest on it: a write goes where the
  position is, not where the page number says. The condition `~ missed` cannot be
  dropped: see the snapshot that has grown, in section 6.
- *PageCarving*: `SharesCarved`, the promise of the abstract carver, from
  the invariant that nothing wanted behind a scanner's position is missing. What
  implements PageCarving has it with that.

**PageParserProofs.** `TypeCorrect`, `NoOtherPageLost`, `FilesKeptApart` and the
refinement `CarvingImplemented`. `IInv` says where a window
stands: what was read is at the front of the cache, and as long as the scan stays in it
(`InStep`) the byte it looks at is the one `ScanOffset` says; a window that is not full ends at
a break or at the end of the file, and what is left at the end of a window is a page at
most (`WindowInv`). With that
nothing wanted that is not cut is behind the scan (`NothingBehind`), which the seek back would
break if it went a byte less far. The static id is above the number of every index page
that was stored (`OutInv`). The scan that leaves what was read, after a short or failed read,
never comes back (`OverrunStays`), and counts as a failed scanner of PageCarving. What is
owed are the pages that are not `Cut`: the strict comparison at 224, and the tail of a
window that a read did not fill, are what the theorems are about.

**CParserProofs.** `TypeCorrect`, `WalksAgree`, `RowsDoNotOverlap`,
`LossIsFromGoodPage`, `RowsOnce`, `TotalsAreRight`. The core is an argument about
lists that may be cyclic: both walks are a chain of positions, each of which
determines the next; a chain that comes back to a position goes on as it did
before, so one that ends at supremum has no position twice (`GoodChainApart`), and
the second walk, with its other integer types, takes the same steps as the first
for as long as they stay in the page (`SameNext`). `ListInv` keeps the chain of the
first walk; `SearchInv` says that the search of an invalid page is behind none of
its rows, also while a BLOB is printed between two positions; `DumpInv` and `TotalInv` relate the rows written to pages and counters.

**ServerThreadsProofs.** `TypeCorrect`, `CountersRight`, `ThdsApart`, `WakeupsKept`,
`LimitsRespected`, `EverybodyTold`, `LockOutlives`. `IInv` adds to the properties where
each THD is and who has it (`PoolHolds`), how far the shutdown is and what that means
for flags, cache and main (`PhaseHolds`), which THDs `close_connections` has before and
behind it (`ListHolds`), and what main knows of the count it compared
(`LimitHolds`). One lemma per part shows that a step keeps it. None is inductive
alone: that a counter is not decremented below zero needs a thread to count, and
that `thread_count` is 0 when the lock is destroyed needs the phase of the signal
thread.

**ReplicationProofs.** `TypeCorrect`, `RowsInOrder`, `PrefixKept`. `ThreadInv` says of a
thread that it has in the binlog exactly the rows before the one it is at, and that one too
when the server has taken it; no answer is outstanding on a connection that is up, unless
the thread waits for it. That is why a row that is repeated after a lost answer is not
taken twice: the connection is lost, too, and nobody opens it again. `SlaveInv` says step
by step of a script what is in step with what: until the slave is first changed it holds
a prefix and knows which; between `SHOW MASTER STATUS` and `START SLAVE` of
rpl.py it is at rest at the position that was read; the dump of stonedb_slave.sh is of one
moment, or `sound` is false. `PrefixKept` has `sound` in its statement, which is what the
scripts rely on and do not check.

**TpccProofs.** `Inductive`, and from it `TypeCorrect`, `MoneyKept`, `OrdersKept`,
`DeliveriesKept`, `BalancesKept` and `RowFound`, for any number of threads, districts,
customers, items and events. The conditions of tpcc_check.lua are not inductive: a commit
keeps them only if what it writes is right, and that was computed from rows read earlier.
`IInv` says what every open transaction has written so far, in terms of the committed
rows, and which exclusive locks keep those rows as they are (`NewOrdering`, `Paying`,
`Delivering`; `LockInv`: one owner per lock). So a statement of one thread leaves what is
known of the others alone (`OtherThread`), because it cannot have got a lock that one of
them holds, and a commit changes no row that they have a lock on; there is one
lemma per statement, and one per kind of transaction for its commit (`CommitNewOrder`,
`CommitPayment`, `CommitDelivery`). A delivery takes the oldest new order
because a row that is written and not committed is locked by its writer (`NewOrderWritten`,
`OldestIs`). Sums of amounts are cardinalities of sets of units, so that
`TotalMore` (one summand grows) and `TotalEach` replace an induction. `EventInv` bounds the
order numbers by the events, so that an order always has a number of the model.

Checked by TLC only: liveness (`Termination` of two modules, `EndsButForEmptyCycle`,
`KeepReading`, `QueueIsServed`, `ShutdownCompletes`, `LogsReplayed`,
`ReplicaCatchesUp`), since the prover has neither fairness nor ENABLED; and that
`EveryPageExtracted`, and `OneTableChanges` without the hypothesis above, do not hold. Every
invariant, action property and refinement of a passing run is a theorem. No module
declares a RECURSIVE operator, which the prover could not reason about, and nothing
is proved by induction over data: where the code counts or adds up, the model and the
proofs use cardinalities, whose laws the library has.

## 6. Where code and documents disagree

- `stream_loss`: a page across the end of a slice is saved by nobody when the
  worker has read its share before the page ends (`stream_parser.c:354`);
  test.sh:219 expects equal checksums of all tables. With the default cache of
  8 MB (37) the last read may go far beyond the slice, which hides it.
- `ibdconnect_id`: `mach_read_from_8` shifts the high word by 31 bits, so different
  ids are equal and rows of another table change.

Seen and not stated as properties, because no document promises otherwise, the
outcome is plain from one line, or the question would need an instance of its own:

- stream_parser always says "All workers finished" and exits with success (lines
  644-653); its `-T N:M` reads `N` only (560, usage at 498); `show_progress` divides by
  a rate that may be 0 (282), and its test of `open` is never true (322); a `write`
  of fewer bytes than a page is no error (323).
- ibdconnect: once `SYS_TABLES` has outgrown its root page the walk sees node pointers
  only, and "Space id %lu is not used in any of the records in SYS_TABLES" may be
  false; it succeeds without changing a row when `SYS_INDEXES` has (237); a
  second run for a table finds the id that an interrupted one wrote, and refuses (144).
- c_parser: a leaf page with a bad list and no row found sets no `records_lost`, next to a
  `records_expected` that is larger than `records_dumped`; `-D` with `-U` rejects every
  record (759). A chain of BLOB pages with `part_len` 0 that leads back to itself is followed
  for ever (print_data.c:435-487), which is the one exception in `EndsButForEmptyCycle`. A
  directory entry that is no regular file ends the program without a status line
  (724), under a comment that says "Skip non-regular files"; a chain that breaks off leaves its
  file open (456), and when no more can be opened, -1 is taken for an open file (729) and
  every further file for an empty one.
- innochecksum: `-l` without `-f` refuses a page before it writes it (235, usage at 41);
  a page of zeros, as InnoDB allocates it, is "repaired" by `-f` (244); `-l` without `0x`
  leaves `fixed_lsn` uninitialised (83).
- incrementalupdate: a tablespace that has grown since the backup is written over
  the backup's last page, one page after the other.
- page_parser takes any read that does not fill the cache for the last one, reads on, and
  loses up to a page before the place (220-222, 255-257); it
  accepts a cache of exactly one page (405-409), with which it never ends;
  its files are named with a counter (174), where `docs/README:52` speaks of the page
  number; two BLOB pages with one page id share a file (170).
- mysqld.cc: "It's safe to broadcast outside a lock (COND... is not deleted here)" (1720):
  main may destroy `COND_thread_count` between the unlock and the broadcast of the last
  thread.
- rpl.py leaves a slave that was stopped when `CHANGE MASTER` raises, and its tests of a
  return value against 0 never fire. stonedb_slave.sh: the statuses of reset and import
  are not looked at (136, 137), while README.txt:44 says that an error ends the script;
  mysqldump takes its snapshot and the GTID set at two moments (113).
- sysbench-tpcc: `other_ware` always returns the home warehouse (tpcc_run.lua:28-36,
  comment at 25); `orderstatus` passes `d_id` for the order's number (537); `purge`
  deletes history and orders that tpcc_check.lua counts, and may delete one that is not
  delivered (771); at REPEATABLE-READ a delivery may find no order through its old read view, and
  the script ends on a nil (595), which is why `NoRowMissing` is for READ-COMMITTED.

## 7. What is not covered

- **Of modelled programs**: progress output, debugging options, `-c` and `-v` of
  innochecksum; the decoding of records in c_parser (field offsets, sizes, limits:
  an input of CParser, so that lengths read from damaged bytes, 266, are not examined) and
  its `LOAD DATA` statement, and what print_data.c makes of the bytes of a value; collisions of checksums; the short file of a full disk and a
  `pread` of fewer bytes (121) in test_checksum; two ibdconnect runs, or one and a server,
  at the same time, of which the repository says nothing.
- **Of ServerThreads**: SIGQUIT and `unireg_abort`, a `thread_cache_size` that is changed while
  the server runs, manager, slave and delayed-insert threads, a client's `FLUSH`; what a
  thread does with a statement.
- **Of ClientReplay and ReplicationSetup**: log files that do not exist; the content of a
  dump; more than one slave; a master that restarts.
- **Of Tpcc**: more than one warehouse (no transaction leaves its own), SERIALIZABLE,
  `orderstatus` and `stocklevel` (which write nothing), `purge` (which deletes rows, with an option
  that is off), stock quantities, and
  amounts: an order line and a payment are worth one each.
- **Planned** (section 2): innochecksum of Percona, whose old checksum is repaired before the new
  one that it covers (224), the pipeline, record decoding, the page simulator, innblock
  with its list of unknown length (`an_block.cpp:80`).
- **Not planned**: sys_parser, sql_parser, create_defs.pl, page
  diagnosis and ibdscan_python (parsing and printing without control that
  could go wrong in steps); constraints_parser (an older c_parser);
  ibdscan (one pass with sums); the sysbench scripts (random statements, with no state of
  their own); build files, notes and single-command scripts.
- **Vendored sources.** Eight tenths of the repository's lines are copies of MySQL and
  StoneDB files (four of `mysqld.cc` alone, character sets, decimal arithmetic, InnoDB
  headers, in two copies each) that the tools are compiled with or that stand beside build
  notes. What runs as a protocol in them is the thread handling of `mysqld.cc`, and that
  is modelled from the copy the tools are built from; StoneDB's copies belong to no program
  that this repository builds. Collations, decimal arithmetic and option tables are
  functions of bytes, with no state and no interleaving. The share of lines that the modules
  cover is small for that reason.
