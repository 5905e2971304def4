-------------------------- MODULE ReplicationSetup --------------------------
(***************************************************************************)
(* Making a slave of a server that takes writes meanwhile (ClientReplay):  *)
(* rpl.py gives a server that holds a copy the master's position;          *)
(* stonedb_slave.sh dumps the master, loads the dump and connects by GTID. *)
(*                                                                         *)
(* The servers, the slave threads and mysqldump are external.  A           *)
(* transaction is known by its place in the binlog.  mysqldump             *)
(* --single-transaction takes its snapshot and then reads gtid_executed:   *)
(* some versions let a transaction commit in between.                      *)
(***************************************************************************)
EXTENDS ClientReplay, FiniteSets

CONSTANT Copies   \* how much of `Before' the slave may hold to begin with

ASSUME CopiesAssumption == Copies \subseteq 0..Len(Before)

VARIABLES
  at,            \* the next step of the script, "end", or "left" after an error
  file_pos,      \* rpl.py: the position of the binlog it was told
  dump,          \* stonedb_slave.sh: the exported file
  held,          \* the transactions the slave has executed, in their order
  skips,         \* those it will not ask the master for
  channel,       \* its replication: "none", "stopped", "connecting", "running", "error"
  sound          \* ghost: nothing went on that the script relies upon being quiet

slaveVars == <<held, skips, channel>>
setupVars == <<at, file_pos, dump, slaveVars, sound>>
vars      == <<clientVars, setupVars>>

First(n)  == [i \in 1..n |-> i]
NoDump    == [upto |-> 0, gtids |-> 0, whole |-> FALSE]
Working   == {"connecting", "running", "error"}

Step(from, to) == at = from /\ at' = to /\ UNCHANGED clientVars
-----------------------------------------------------------------------------
(***************************************************************************)
(* rpl.py                                                                  *)
(***************************************************************************)
ShowMasterStatus ==
  /\ Step("status", "grant")
  /\ file_pos' = Len(binlog)
  /\ sound' = (held = First(Len(binlog)) /\ channel \notin Working)
  /\ UNCHANGED <<dump, slaveVars>>

\* mutant: the position is asked for after the grant
Told_AfterGrant == Len(binlog) + 1

\* the position that get_master_info returns: the one it had before the grant
Told == file_pos

\* GRANT REPLICATION SLAVE is itself in the binlog
GrantReplication ==
  /\ at = "grant" /\ at' = "stop"
  /\ binlog' = Append(binlog, <<Others, Len(binlog) + 1>>)
  /\ file_pos' = Told
  /\ UNCHANGED <<request, refusals, link, thread, retry, row, dump, slaveVars, sound>>

Stopped == IF channel \in Working THEN "stopped" ELSE channel

StopSlave ==
  /\ Step("stop", "change")
  /\ channel' = Stopped
  /\ UNCHANGED <<file_pos, dump, held, skips, sound>>

ChangeMaster ==
  /\ Step("change", "start")
  /\ skips' = 1..file_pos
  /\ channel' = "stopped"
  /\ UNCHANGED <<file_pos, dump, held, sound>>

StartSlave ==
  /\ Step("start", "look")
  /\ channel' = "connecting"
  /\ UNCHANGED <<file_pos, dump, held, skips, sound>>

\* slave_check looks once: a slave that is still connecting is a failure to it
SlaveCheck ==
  /\ Step("look", IF channel = "running" THEN "end" ELSE "left")
  /\ UNCHANGED <<file_pos, dump, slaveVars, sound>>

\* any execute may raise, and the script ends there
RplRaises ==
  /\ \E s \in {"status", "grant", "stop", "change", "start", "look"} : Step(s, "left")
  /\ UNCHANGED <<file_pos, dump, slaveVars, sound>>
-----------------------------------------------------------------------------
(***************************************************************************)
(* stonedb_slave.sh                                                        *)
(***************************************************************************)
\* check_master, check_slave and check_whether_GTID
Checks ==
  /\ \/ Step("checks", "export")
     \/ Step("checks", "left")
  /\ UNCHANGED <<file_pos, dump, slaveVars, sound>>

\* mysqldump reads the data as of now
ExportData ==
  /\ Step("export", "gtids")
  /\ dump' = [dump EXCEPT !.upto = Len(binlog)]
  /\ sound' = TRUE
  /\ UNCHANGED <<file_pos, slaveVars>>

\* it has read the GTID set as of now, and ends well; conversion follows
ExportGtids ==
  /\ Step("gtids", "reset")
  /\ dump' = [dump EXCEPT !.gtids = Len(binlog), !.whole = TRUE]
  /\ sound' = (Len(binlog) = dump.upto)
  /\ UNCHANGED <<file_pos, slaveVars>>

\* mysqldump ends badly, for want of space or otherwise: exit 0 or exit 1
AfterExportError == "left"

ExportFails ==
  /\ \E s \in {"export", "gtids"} : Step(s, AfterExportError)
  /\ UNCHANGED <<file_pos, dump, slaveVars, sound>>

\* stop slave; reset slave all; reset master -- as far as they go: the first to
\* fail is the last that is sent, and the status is not looked at
ResetSlave ==
  /\ Step("reset", "import")
  /\ \/ channel' = "none" /\ skips' = {}
     \/ channel' \in {channel, Stopped, "none"} /\ UNCHANGED skips
  /\ UNCHANGED <<file_pos, dump, held, sound>>

\* The file drops and loads the databases after it has set GTID_PURGED.  With a
\* channel at work beside it, or a file cut short, the slave is no copy.
Import ==
  /\ Step("import", "sync")
  /\ skips' = 1..dump.gtids
  /\ held' = First(dump.upto)
  /\ sound' = (sound /\ dump.whole /\ channel \notin Working)
  /\ UNCHANGED <<file_pos, dump, channel>>

\* The client leaves the file at an error, before or after GTID_PURGED is set;
\* its status is not looked at
ImportFails ==
  /\ Step("import", "sync")
  /\ \/ UNCHANGED <<skips, held>>
     \/ /\ skips' = 1..dump.gtids
        /\ \E n \in 0..dump.upto : held' = First(n)
  /\ sound' = FALSE
  /\ UNCHANGED <<file_pos, dump, channel>>

\* mutant: replication starts at the master's present position
Position_Present == skips \cup 1..Len(binlog)

\* master_auto_position: whatever is not in the slave's GTID set is asked for
Position == skips

\* change master ...; start slave -- the first is refused on a channel at work,
\* and then the second is not sent
ChangeSyncMaster ==
  /\ Step("sync", "message")
  /\ \/ /\ channel \notin Working
        /\ channel' = "connecting"
        /\ skips' = Position
     \/ UNCHANGED <<channel, skips>>
  /\ UNCHANGED <<file_pos, dump, held, sound>>

\* "setting successfully" or "setting fail"; the script ends either way
Message ==
  /\ Step("message", IF channel = "running" THEN "end" ELSE "left")
  /\ UNCHANGED <<file_pos, dump, slaveVars, sound>>
-----------------------------------------------------------------------------
(***************************************************************************)
(* The slave's threads                                                     *)
(***************************************************************************)
SlaveConnects ==
  /\ channel = "connecting" /\ channel' = "running"
  /\ UNCHANGED <<clientVars, at, file_pos, dump, held, skips, sound>>

\* A transaction that does not follow what the slave holds may stop it
SlaveApplies ==
  /\ channel = "running"
  /\ \E i \in 1..Len(binlog) \ skips :
       /\ \A j \in 1..Len(binlog) \ skips : i <= j
       /\ \/ /\ held' = Append(held, i) /\ skips' = skips \cup {i}
             /\ UNCHANGED channel
          \/ /\ held # First(i - 1)
             /\ channel' = "error" /\ UNCHANGED <<held, skips>>
  /\ UNCHANGED <<clientVars, at, file_pos, dump, sound>>

\* A slave that replicates from this master already, or one that does not
Init ==
  /\ ClientInit
  /\ at \in {"status", "checks"}
  /\ file_pos = 0 /\ dump = NoDump
  /\ \E n \in Copies : held = First(n) /\ skips = 1..n
  /\ channel \in {"none", "running"}
  /\ sound = FALSE

Script == \/ ShowMasterStatus \/ GrantReplication \/ StopSlave \/ ChangeMaster
          \/ StartSlave \/ SlaveCheck \/ RplRaises
          \/ Checks \/ ExportData \/ ExportGtids \/ ExportFails \/ ResetSlave
          \/ Import \/ ImportFails \/ ChangeSyncMaster \/ Message

Next == \/ ClientNext /\ UNCHANGED setupVars
        \/ Script \/ SlaveConnects \/ SlaveApplies

(***************************************************************************)
(* Threads, scripts and servers go on; connections need not fail.          *)
(***************************************************************************)
Fairness ==
  /\ \A c \in Clients : /\ WF_vars(Proceed(c) /\ UNCHANGED setupVars)
                        /\ WF_vars(Take(c) /\ UNCHANGED setupVars)
  /\ WF_vars(Script) /\ WF_vars(SlaveConnects) /\ WF_vars(SlaveApplies)

Spec == Init /\ [][Next]_vars /\ Fairness
-----------------------------------------------------------------------------
TypeOK ==
  /\ \A c \in Clients : /\ request[c] \in {"none", "sent", "taken", "refused"}
                        /\ link[c] \in {"none", "up", "lost"}
                        /\ thread[c] \in {"connect", "run", "wait", "dead", "done"}
                        /\ row[c] \in 1..(Rows[c] + 1)
  /\ retry \in 0..2 /\ refusals \in 0..MaxRefusals
  /\ file_pos \in 0..Len(binlog)
  /\ dump.upto \in 0..Len(binlog) /\ dump.gtids \in 0..Len(binlog)
  /\ Range(held) \subseteq 1..Len(binlog) /\ skips \subseteq 1..Len(binlog)
  /\ channel \in {"none", "stopped"} \cup Working
  /\ sound \in BOOLEAN

\* When the script could rely on what it relies upon -- the copy was in step at
\* SHOW MASTER STATUS and nothing else fed it; or the dump and its GTID set are
\* of one moment, and the import went through on a slave at rest -- the slave
\* never loses, repeats or reorders a transaction, though clients write on.
ReplicaIsPrefix == sound => held = First(Len(held))

\* When it could rely on that, a slave that has been started has one day all the
\* binlog, whether or not the script's one early look found it running.
ReplicaCatchesUp ==
  (sound /\ at \in {"end", "left"} /\ channel \in Working)
     ~> (held = First(Len(binlog)) /\ channel = "running")
=============================================================================
