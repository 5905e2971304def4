------------------------- MODULE ReplicationProofs -------------------------
(***************************************************************************)
(* Theorems about ReplicationSetup and ClientReplay, for any number of     *)
(* threads, rows and refusals, any binlog before, and any copy.            *)
(***************************************************************************)
EXTENDS ReplicationSetup, TLAPS

\* What a thread has in the binlog: its rows up to the one it is at, and that one
\* exactly when the server has taken it.
ThreadInv(c) ==
  /\ row[c] \in 1..(Rows[c] + 1)
  /\ row[c] > Rows[c] => thread[c] \notin {"wait"} /\ request[c] = "none"
  /\ thread[c] = "connect" => request[c] = "none"
  /\ thread[c] # "wait" /\ link[c] = "up" => request[c] = "none"
  /\ \A j, k \in Replayed(c) : j < k => binlog[j][2] < binlog[k][2]
  /\ \A k \in Replayed(c) : binlog[k][2] \in 1..row[c]
  /\ \A n \in 1..row[c] :
       (\E k \in Replayed(c) : binlog[k][2] = n) <=> (n < row[c] \/ request[c] = "taken")

ClientTypes ==
  /\ binlog \in Seq((Clients \cup {Others}) \X Nat)
  /\ request \in [Clients -> {"none", "sent", "taken", "refused"}]
  /\ link \in [Clients -> {"none", "up", "lost"}]
  /\ thread \in [Clients -> {"connect", "run", "wait", "dead", "done"}]
  /\ row \in [Clients -> Nat]
  /\ retry \in 0..2 /\ refusals \in 0..MaxRefusals

ClientInv == ClientTypes /\ \A c \in Clients : ThreadInv(c)

LEMMA ClientStart == ClientInit => ClientInv
<1> SUFFICES ASSUME ClientInit PROVE ClientInv
  OBVIOUS
<1>1. ClientTypes
  <2>1. \A k \in 1..Len(Before) : Before[k] \in (Clients \cup {Others}) \X Nat
    BY ClientsAssumption
  <2>2. Before \in Seq((Clients \cup {Others}) \X Nat)
    BY <2>1, ClientsAssumption
  <2> QED BY <2>2, ClientsAssumption DEF ClientInit, ClientTypes
<1>2. ASSUME NEW c \in Clients PROVE ThreadInv(c)
  <2>1. Replayed(c) = {}
    <3>1. \A k \in 1..Len(binlog) : binlog[k][1] = Others
      BY ClientsAssumption DEF ClientInit
    <3> QED BY <3>1 DEF Replayed, Clients, Others
  <2>2. Rows[c] \in Nat
    BY ClientsAssumption
  <2> QED BY <2>1, <2>2 DEF ClientInit, ThreadInv
<1> QED BY <1>1, <1>2 DEF ClientInv

-----------------------------------------------------------------------------
(***************************************************************************)
(* The client                                                              *)
(***************************************************************************)
\* A transaction more: what was there stays where it was.
LEMMA Committed ==
  ASSUME ClientTypes, NEW who \in Clients \cup {Others}, NEW n \in Nat,
         binlog' = Append(binlog, <<who, n>>)
  PROVE  /\ binlog' \in Seq((Clients \cup {Others}) \X Nat)
         /\ Len(binlog') = Len(binlog) + 1
         /\ \A k \in 1..Len(binlog) : binlog'[k] = binlog[k]
         /\ binlog'[Len(binlog) + 1] = <<who, n>>
         /\ \A c \in Clients :
              Replayed(c)' = Replayed(c) \cup {k \in {Len(binlog) + 1} : who = c}
<1>1. /\ binlog \in Seq((Clients \cup {Others}) \X Nat) /\ Len(binlog) \in Nat
      /\ <<who, n>> \in (Clients \cup {Others}) \X Nat
  BY DEF ClientTypes
<1>2. /\ binlog' \in Seq((Clients \cup {Others}) \X Nat)
      /\ Len(binlog') = Len(binlog) + 1
      /\ \A k \in 1..Len(binlog) : binlog'[k] = binlog[k]
      /\ binlog'[Len(binlog) + 1] = <<who, n>>
  BY <1>1
<1>3. <<who, n>>[1] = who
  OBVIOUS
<1> QED BY <1>1, <1>2, <1>3 DEF Replayed

\* A thread is not touched by what happens to the others.
LEMMA OtherThread ==
  ASSUME NEW c \in Clients, ThreadInv(c), Replayed(c)' = Replayed(c),
         \A k \in Replayed(c) : binlog'[k] = binlog[k],
         request'[c] = request[c], link'[c] = link[c], thread'[c] = thread[c], row'[c] = row[c]
  PROVE  ThreadInv(c)'
BY DEF ThreadInv

LEMMA TakeStep ==
  ASSUME ClientInv, NEW d \in Clients, Take(d), NEW c \in Clients
  PROVE  ThreadInv(c)'
<1>1. /\ ClientTypes /\ ThreadInv(c) /\ request[d] = "sent" /\ row[d] \in Nat
      /\ binlog' = Append(binlog, <<d, row[d]>>)
      /\ request' = [request EXCEPT ![d] = "taken"]
      /\ UNCHANGED <<refusals, link, thread, retry, row>>
  BY DEF ClientInv, ClientTypes, Take
<1>2. /\ \A k \in 1..Len(binlog) : binlog'[k] = binlog[k]
      /\ binlog'[Len(binlog) + 1] = <<d, row[d]>>
      /\ Replayed(c)' = Replayed(c) \cup {k \in {Len(binlog) + 1} : d = c}
      /\ Len(binlog) \in Nat /\ Replayed(c) \subseteq 1..Len(binlog)
  BY <1>1, Committed DEF ClientTypes, Replayed
<1>3. CASE c # d
  BY <1>1, <1>2, <1>3, OtherThread DEF ClientTypes
<1>4. CASE c = d
  <2>1. /\ Replayed(c)' = Replayed(c) \cup {Len(binlog) + 1}
        /\ \A k \in Replayed(c) : binlog'[k] = binlog[k] /\ k < Len(binlog) + 1
        /\ binlog'[Len(binlog) + 1][2] = row[c]
    BY <1>2, <1>4
  <2>2. request[c] = "sent" /\ request'[c] = "taken" /\ UNCHANGED <<link, thread, row>>
    BY <1>1, <1>4 DEF ClientTypes
  <2>3. /\ row[c] \in Nat /\ row[c] >= 1
        /\ \A k \in Replayed(c) : binlog[k][2] \in 1..row[c] /\ binlog[k][2] # row[c]
        /\ \A j, k \in Replayed(c) : j < k => binlog[j][2] < binlog[k][2]
    BY <1>1, <2>2 DEF ThreadInv, ClientTypes
  <2>4. \A k \in Replayed(c)' : binlog'[k][2] \in 1..row[c]
    BY <2>1, <2>3
  <2>5. \A j, k \in Replayed(c)' : j < k => binlog'[j][2] < binlog'[k][2]
    <3>1. Len(binlog) \in Nat /\ \A k \in Replayed(c) : k \in Nat
      BY <1>2
    <3> QED BY <2>1, <2>3, <3>1
  <2>6. \A n \in 1..row[c] : \E k \in Replayed(c)' : binlog'[k][2] = n
    <3> SUFFICES ASSUME NEW n \in 1..row[c] PROVE \E k \in Replayed(c)' : binlog'[k][2] = n
      OBVIOUS
    <3>1. CASE n = row[c]
      BY <2>1, <3>1
    <3>2. CASE n # row[c]
      <4>1. PICK k \in Replayed(c) : binlog[k][2] = n
        BY <1>1, <2>3, <3>2 DEF ThreadInv
      <4> QED BY <2>1, <4>1
    <3> QED BY <3>1, <3>2
  <2> QED BY <1>1, <2>2, <2>4, <2>5, <2>6 DEF ThreadInv
<1> QED BY <1>3, <1>4

\* A step that leaves the binlog alone, or to which another client adds.
LEMMA QuietStep ==
  ASSUME ClientInv, NEW d \in Clients, Proceed(d) \/ Refuse(d) \/ LoseLink(d), NEW c \in Clients
  PROVE  ThreadInv(c)'
<1>1. UNCHANGED binlog /\ ThreadInv(c) /\ ClientTypes
  BY DEF ClientInv, Proceed, Connect, ExecSql, Raise, Answered, Unanswered, EndOfLog, Refuse, LoseLink
<1>2. Replayed(c)' = Replayed(c) /\ \A k \in Replayed(c) : binlog'[k] = binlog[k]
  BY <1>1 DEF Replayed
<1>3. CASE c # d
  <2>1. /\ request'[c] = request[c] /\ link'[c] = link[c] /\ thread'[c] = thread[c]
        /\ row'[c] = row[c]
    BY <1>1, <1>3
       DEF ClientTypes, Proceed, Connect, ExecSql, Raise, Answered, Unanswered, EndOfLog, Refuse,
           LoseLink
  <2> QED BY <1>1, <1>2, <2>1, OtherThread
<1>4. CASE c = d
  <2>0. Rows[c] \in Nat /\ row[c] \in Nat
    BY <1>1, ClientsAssumption DEF ClientTypes
  <2>1. CASE Answered(d)
    <3>1. /\ thread[c] = "wait" /\ link[c] = "up" /\ request[c] \in {"taken", "refused"}
          /\ thread'[c] = "run" /\ request'[c] = "none" /\ UNCHANGED link
          /\ row'[c] = row[c] + (IF request[c] = "taken" THEN 1 ELSE 0)
      BY <1>1, <1>4, <2>0, <2>1 DEF ClientTypes, Answered, AfterError
    <3> QED BY <1>1, <1>2, <2>0, <3>1 DEF ThreadInv
  <2>2. CASE ~ Answered(d)
    <3>1. /\ row'[c] = row[c]
          /\ request'[c] = "taken" <=> request[c] = "taken"
      BY <1>1, <1>4, <2>2
         DEF ClientTypes, ThreadInv, Proceed, Connect, ExecSql, Raise, Unanswered, EndOfLog, Refuse, LoseLink
    <3>2. /\ row[c] > Rows[c] => thread'[c] # "wait" /\ request'[c] = "none"
          /\ thread'[c] = "connect" => request'[c] = "none"
          /\ thread'[c] # "wait" /\ link'[c] = "up" => request'[c] = "none"
      BY <1>1, <1>4, <2>0, <2>2
         DEF ClientTypes, ThreadInv, Proceed, Connect, ExecSql, Raise, Unanswered, EndOfLog, Refuse, LoseLink,
             AfterError, LinkAfterLoss
    <3> QED BY <1>1, <1>2, <3>1, <3>2 DEF ThreadInv
  <2> QED BY <2>1, <2>2
<1> QED BY <1>3, <1>4

LEMMA ClientTypesStep ==
  ASSUME ClientTypes, ClientNext
  PROVE  ClientTypes'
<1>1. PICK c \in Clients : Proceed(c) \/ Take(c) \/ Refuse(c) \/ LoseLink(c)
  BY DEF ClientNext
<1>2. CASE Take(c)
  <2>1. row[c] \in Nat /\ binlog' = Append(binlog, <<c, row[c]>>)
    BY <1>2 DEF Take, ClientTypes
  <2>2. binlog' \in Seq((Clients \cup {Others}) \X Nat)
    BY <2>1, Committed
  <2> QED BY <1>2, <2>2 DEF Take, ClientTypes
<1>3. CASE Connect(c)
  <2>1. retry' \in 0..2
    BY <1>3 DEF ClientTypes, Connect, LastTry
  <2>2. /\ link' = link \/ link' = [link EXCEPT ![c] = "up"]
        /\ thread' = thread \/ thread' = [thread EXCEPT ![c] = "run"]
        /\ UNCHANGED <<binlog, request, refusals, row>>
    BY <1>3 DEF Connect
  <2>3. /\ link' \in [Clients -> {"none", "up", "lost"}]
        /\ thread' \in [Clients -> {"connect", "run", "wait", "dead", "done"}]
    BY <2>2 DEF ClientTypes
  <2> QED BY <2>1, <2>2, <2>3 DEF ClientTypes
<1>4. CASE Answered(c)
  BY <1>4 DEF ClientTypes, Answered, AfterError
<1>5. CASE ExecSql(c) \/ Raise(c) \/ Unanswered(c) \/ EndOfLog(c) \/ LoseLink(c)
  BY <1>5 DEF ClientTypes, ExecSql, Raise, Unanswered, EndOfLog, LoseLink, AfterError, LinkAfterLoss
<1>6. CASE Refuse(c)
  BY <1>6, ClientsAssumption DEF ClientTypes, Refuse
<1> QED BY <1>1, <1>2, <1>3, <1>4, <1>5, <1>6 DEF Proceed

LEMMA ClientStep ==
  ASSUME ClientInv, [Next]_vars
  PROVE  ClientInv'
<1>1. CASE ClientNext
  BY <1>1, TakeStep, QuietStep, ClientTypesStep DEF ClientInv, ClientNext
<1>2. CASE GrantReplication
  <2>1. /\ binlog' = Append(binlog, <<Others, Len(binlog) + 1>>)
        /\ UNCHANGED <<request, refusals, link, thread, retry, row>>
        /\ ClientTypes /\ Len(binlog) + 1 \in Nat
    BY <1>2 DEF GrantReplication, ClientInv, ClientTypes
  <2>2. /\ binlog' \in Seq((Clients \cup {Others}) \X Nat)
        /\ \A k \in 1..Len(binlog) : binlog'[k] = binlog[k]
        /\ \A c \in Clients : Replayed(c)' = Replayed(c) \cup {k \in {Len(binlog) + 1} : Others = c}
    BY <2>1, Committed
  <2>3. \A c \in Clients : Others # c
    BY DEF Clients, Others
  <2>4. ASSUME NEW c \in Clients PROVE ThreadInv(c)'
    <3>1. Replayed(c)' = Replayed(c) /\ \A k \in Replayed(c) : binlog'[k] = binlog[k]
      BY <2>2, <2>3 DEF Replayed
    <3> QED BY <2>1, <3>1, OtherThread DEF ClientInv
  <2> QED BY <2>1, <2>2, <2>4 DEF ClientInv, ClientTypes
<1>3. CASE UNCHANGED clientVars
  <2>1. ClientTypes'
    BY <1>3 DEF ClientInv, ClientTypes, clientVars
  <2>2. ASSUME NEW c \in Clients PROVE ThreadInv(c)'
    <3>1. Replayed(c)' = Replayed(c)
      BY <1>3 DEF Replayed, clientVars
    <3> QED BY <1>3, <3>1, OtherThread DEF ClientInv, clientVars
  <2> QED BY <2>1, <2>2 DEF ClientInv
<1> QED BY <1>1, <1>2, <1>3
     DEF Next, vars, Script, Step, ShowMasterStatus, StopSlave, ChangeMaster, StartSlave, SlaveCheck,
         RplRaises, Checks, ExportData, ExportGtids, ExportFails, ResetSlave, Import, ImportFails,
         ChangeSyncMaster, Message, SlaveConnects, SlaveApplies

LEMMA ClientInductive == Spec => []ClientInv
BY ClientStart, ClientStep, PTL DEF Spec, Init

\* Through lost connections, lost answers and refusals no row is skipped, repeated
\* or moved: what a thread has in the binlog is its file up to the row it is at.
THEOREM RowsInOrder == Spec => []LogsInOrder
<1>1. ClientInv => LogsInOrder
  <2> SUFFICES ASSUME ClientInv, NEW c \in Clients
               PROVE  /\ \A j, k \in Replayed(c) : j < k => binlog[j][2] < binlog[k][2]
                      /\ {binlog[k][2] : k \in Replayed(c)} \in {1..(row[c] - 1), 1..row[c]}
    BY DEF LogsInOrder
  <2>1. ThreadInv(c) /\ row[c] \in Nat
    BY DEF ClientInv, ClientTypes
  <2> DEFINE done == {binlog[k][2] : k \in Replayed(c)}
  <2>2. CASE request[c] = "taken"
    <3>1. done = 1..row[c]
      BY <2>1, <2>2 DEF ThreadInv
    <3> QED BY <2>1, <3>1 DEF ThreadInv
  <2>3. CASE request[c] # "taken"
    <3>1. done = 1..(row[c] - 1)
      BY <2>1, <2>3 DEF ThreadInv
    <3> QED BY <2>1, <3>1 DEF ThreadInv
  <2> QED BY <2>2, <2>3
<1> QED BY <1>1, ClientInductive, PTL

-----------------------------------------------------------------------------
(***************************************************************************)
(* The slave                                                               *)
(***************************************************************************)
Steps == {"status", "grant", "stop", "change", "start", "look", "checks", "export", "gtids", "reset",
          "import", "sync", "message", "end", "left"}

SlaveTypes ==
  /\ at \in Steps
  /\ file_pos \in 0..Len(binlog)
  /\ dump \in [upto : 0..Len(binlog), gtids : 0..Len(binlog), whole : BOOLEAN]
  /\ held \in Seq(1..Len(binlog)) /\ skips \subseteq 1..Len(binlog)
  /\ channel \in {"none", "stopped"} \cup Working
  /\ sound \in BOOLEAN

\* What the slave holds is the beginning of the binlog, and the rest is what it will
\* ask for when it is at work.
Follows == held = First(Len(held)) /\ (channel \in Working => skips = 1..Len(held))

\* Up to its first change of the slave a script finds it in step.  rpl.py then keeps
\* the position of a slave at rest; stonedb_slave.sh makes held and skips anew out of
\* one dump, which is sound when it is of one moment.
SlaveInv ==
  /\ at \in {"status", "checks", "export", "gtids", "reset"} =>
       held = First(Len(held)) /\ skips = 1..Len(held)
  /\ at = "import" => Follows
  /\ sound => /\ Follows
              /\ at \in {"grant", "stop", "change"} =>
                   channel \notin Working /\ Len(held) = file_pos
              /\ at \in {"start", "sync"} => skips = 1..Len(held)
              /\ at \in {"reset", "import"} /\ dump.whole => dump.upto = dump.gtids

LEMMA FirstIs ==
  ASSUME NEW n \in Nat
  PROVE  /\ First(n) \in Seq(1..n) /\ Len(First(n)) = n
         /\ Append(First(n), n + 1) = First(n + 1)
         /\ First(n) \in Seq(Nat)
<1>1. First(n) \in Seq(1..n) /\ Len(First(n)) = n /\ \A k \in 1..n : First(n)[k] = k
  BY DEF First
<1>2. First(n + 1) \in Seq(1..(n + 1)) /\ Len(First(n + 1)) = n + 1
      /\ \A k \in 1..(n + 1) : First(n + 1)[k] = k
  BY DEF First
<1>3. First(n) \in Seq(Nat) /\ First(n + 1) \in Seq(Nat)
  BY <1>1, <1>2
<1>4. Append(First(n), n + 1) = First(n + 1)
  BY <1>1, <1>2, <1>3
<1> QED BY <1>1, <1>3, <1>4

LEMMA SlaveStart == Init => SlaveTypes /\ SlaveInv
<1> SUFFICES ASSUME Init PROVE SlaveTypes /\ SlaveInv
  OBVIOUS
<1>1. PICK n \in Copies : held = First(n) /\ skips = 1..n
  BY DEF Init
<1>2. n \in 0..Len(Before) /\ Len(Before) \in Nat /\ binlog = Before
  BY CopiesAssumption, ClientsAssumption DEF Init, ClientInit
<1>3. Len(held) = n /\ held \in Seq(1..n)
  BY <1>1, <1>2, FirstIs
<1>4. held \in Seq(1..Len(binlog)) /\ skips \subseteq 1..Len(binlog)
  BY <1>1, <1>2, <1>3
<1>5. /\ at \in {"status", "checks"} /\ file_pos = 0 /\ channel \in {"none", "running"}
      /\ sound = FALSE /\ dump = [upto |-> 0, gtids |-> 0, whole |-> FALSE] /\ Len(binlog) \in Nat
  BY <1>2 DEF Init, NoDump
<1>6. SlaveTypes
  <2>1. dump \in [upto : 0..Len(binlog), gtids : 0..Len(binlog), whole : BOOLEAN]
    BY <1>5
  <2> QED BY <1>4, <1>5, <2>1 DEF SlaveTypes, Steps, Working
<1> QED BY <1>1, <1>3, <1>5, <1>6 DEF SlaveInv

\* The binlog only grows.
LEMMA BinlogGrows ==
  ASSUME ClientTypes, [Next]_vars
  PROVE  Len(binlog) \in Nat /\ Len(binlog') \in Nat /\ Len(binlog) <= Len(binlog')
<1>1. binlog \in Seq((Clients \cup {Others}) \X Nat) /\ Len(binlog) \in Nat
  BY DEF ClientTypes
<1>2. CASE UNCHANGED binlog
  BY <1>1, <1>2
<1>3. CASE GrantReplication \/ \E c \in Clients : Take(c)
  <2>1. PICK e : binlog' = Append(binlog, e)
    BY <1>3 DEF GrantReplication, Take
  <2>2. Len(binlog') = Len(binlog) + 1
    BY <1>1, <2>1
  <2> QED BY <1>1, <2>2
<1> QED BY <1>2, <1>3
     DEF Next, vars, clientVars, ClientNext, Proceed, Connect, ExecSql, Raise, Answered, Unanswered,
         EndOfLog, Refuse, LoseLink, Script, Step, ShowMasterStatus, StopSlave, ChangeMaster,
         StartSlave, SlaveCheck, RplRaises, Checks, ExportData, ExportGtids, ExportFails, ResetSlave,
         Import, ImportFails, ChangeSyncMaster, Message, SlaveConnects, SlaveApplies

\* Where the binlog grows, the types of the slave stay right.
LEMMA SlaveTypesGrow ==
  ASSUME SlaveTypes, ClientTypes, [Next]_vars, UNCHANGED <<file_pos, dump, slaveVars, sound>>, at' \in Steps
  PROVE  SlaveTypes'
<1>1. Len(binlog) \in Nat /\ Len(binlog') \in Nat /\ Len(binlog) <= Len(binlog')
  BY BinlogGrows
<1>2. held \in Seq(1..Len(binlog'))
  BY <1>1 DEF SlaveTypes
<1>3. /\ dump.upto \in 0..Len(binlog') /\ dump.gtids \in 0..Len(binlog') /\ dump.whole \in BOOLEAN
      /\ dump = [upto |-> dump.upto, gtids |-> dump.gtids, whole |-> dump.whole]
  BY <1>1 DEF SlaveTypes
<1>4. dump \in [upto : 0..Len(binlog'), gtids : 0..Len(binlog'), whole : BOOLEAN]
  BY <1>3
<1> QED BY <1>1, <1>2, <1>4 DEF SlaveTypes, slaveVars

\* The slave applies the first transaction that it has not, or stops.
LEMMA AppliesStep ==
  ASSUME ClientTypes, SlaveTypes, SlaveInv, SlaveApplies
  PROVE  SlaveTypes' /\ SlaveInv'
<1>1. PICK i \in 1..Len(binlog) \ skips :
        /\ \A j \in 1..Len(binlog) \ skips : i <= j
        /\ \/ /\ held' = Append(held, i) /\ skips' = skips \cup {i}
              /\ UNCHANGED channel
           \/ /\ held # First(i - 1)
              /\ channel' = "error" /\ UNCHANGED <<held, skips>>
  BY DEF SlaveApplies
<1>2. /\ channel = "running" /\ UNCHANGED <<clientVars, at, file_pos, dump, sound>>
      /\ Len(binlog) \in Nat
  BY DEF SlaveApplies, ClientTypes
<1>3. SlaveTypes'
  <2>1. held' \in Seq(1..Len(binlog)) /\ skips' \subseteq 1..Len(binlog)
    <3>1. held \in Seq(1..Len(binlog)) /\ skips \subseteq 1..Len(binlog) /\ i \in 1..Len(binlog)
      BY DEF SlaveTypes
    <3>2. Append(held, i) \in Seq(1..Len(binlog))
      BY <3>1
    <3> QED BY <1>1, <3>1, <3>2
  <2> QED BY <1>1, <1>2, <2>1 DEF SlaveTypes, Working, clientVars
<1>4. channel \in Working /\ channel' \in Working
  BY <1>1, <1>2 DEF Working
<1>5. ASSUME held = First(Len(held)), skips = 1..Len(held)
      PROVE  held' = First(Len(held')) /\ skips' = 1..Len(held') /\ UNCHANGED channel
  <2>1. Len(held) \in Nat
    BY DEF SlaveTypes
  <2>2. i = Len(held) + 1
    BY <1>1, <1>2, <1>5, <2>1
  <2>3. held' = Append(held, i) /\ skips' = skips \cup {i} /\ UNCHANGED channel
    BY <1>1, <1>5, <2>1, <2>2
  <2>4. held' = First(i) /\ Len(held') = i
    <3>1. ASSUME NEW n \in Nat, n = Len(held) PROVE held' = First(n + 1) /\ Len(held') = n + 1
      <4>1. held' = Append(First(n), n + 1)
        <5>1. held = First(n)
          BY <1>5, <3>1, Zenon
        <5>2. i = n + 1
          BY <2>2, <3>1, Zenon
        <5>3. held' = Append(held, i)
          BY <2>3
        <5> QED BY <5>1, <5>2, <5>3
      <4>2. Append(First(n), n + 1) = First(n + 1) /\ Len(First(n + 1)) = n + 1
        <5>1. n + 1 \in Nat
          OBVIOUS
        <5>2. Append(First(n), n + 1) = First(n + 1)
          BY FirstIs
        <5> QED BY <5>1, <5>2, FirstIs
      <4> QED BY <4>1, <4>2
    <3> QED BY <2>1, <2>2, <3>1
  <2> QED BY <1>5, <2>1, <2>2, <2>3, <2>4
<1>6. SlaveInv'
  BY <1>2, <1>4, <1>5 DEF SlaveInv, Follows
<1> QED BY <1>3, <1>6

LEMMA RplStep ==
  ASSUME ClientTypes, SlaveTypes, SlaveInv,
         ShowMasterStatus \/ StopSlave \/ ChangeMaster \/ StartSlave \/ SlaveCheck \/ RplRaises
  PROVE  SlaveTypes' /\ SlaveInv'
<1>1. Len(binlog) \in Nat /\ UNCHANGED binlog /\ Len(held) \in Nat
  BY DEF ClientTypes, SlaveTypes, ShowMasterStatus, StopSlave, ChangeMaster, StartSlave, SlaveCheck,
         RplRaises, Step, clientVars
<1>2. CASE ShowMasterStatus
  <2>1. /\ at = "status" /\ at' = "grant" /\ file_pos' = Len(binlog)
        /\ UNCHANGED <<dump, held, skips, channel>>
        /\ sound' = (held = First(Len(binlog)) /\ channel \notin Working)
    BY <1>2 DEF ShowMasterStatus, Step, slaveVars
  <2>2. sound' \in BOOLEAN /\ (sound' => Len(held) = Len(binlog) /\ channel \notin Working)
    BY <1>1, <2>1, FirstIs
  <2>3. Len(binlog) \in 0..Len(binlog)
    BY <1>1
  <2>4. SlaveTypes'
    BY <1>1, <2>1, <2>2, <2>3 DEF SlaveTypes, Steps
  <2> QED BY <2>1, <2>2, <2>4 DEF SlaveInv, Follows
<1>3. CASE StopSlave
  BY <1>1, <1>3 DEF StopSlave, Stopped, Step, SlaveTypes, SlaveInv, Follows, Steps, Working
<1>4. CASE ChangeMaster
  BY <1>1, <1>4 DEF ChangeMaster, Step, SlaveTypes, SlaveInv, Follows, Steps, Working
<1>5. CASE StartSlave
  BY <1>1, <1>5 DEF StartSlave, Step, SlaveTypes, SlaveInv, Follows, Steps, Working
<1>6. CASE SlaveCheck \/ RplRaises
  <2>1. /\ UNCHANGED <<file_pos, dump, held, skips, channel, sound>>
        /\ at \in {"status", "grant", "stop", "change", "start", "look"} /\ at' \in {"left", "end"}
    BY <1>6 DEF SlaveCheck, RplRaises, Step, slaveVars
  <2> QED BY <1>1, <2>1 DEF SlaveTypes, SlaveInv, Follows, Steps
<1> QED BY <1>2, <1>3, <1>4, <1>5, <1>6

LEMMA StoneDbStep ==
  ASSUME ClientTypes, SlaveTypes, SlaveInv,
         \/ Checks \/ ExportData \/ ExportGtids \/ ExportFails \/ ResetSlave
         \/ Import \/ ImportFails \/ ChangeSyncMaster \/ Message
  PROVE  SlaveTypes' /\ SlaveInv'
<1>1. Len(binlog) \in Nat /\ UNCHANGED binlog /\ Len(held) \in Nat
  BY DEF ClientTypes, SlaveTypes, Checks, ExportData, ExportGtids, ExportFails, ResetSlave, Import,
         ImportFails, ChangeSyncMaster, Message, Step, clientVars
<1>2. CASE Checks \/ ExportFails \/ Message
  <2>1. /\ UNCHANGED <<file_pos, dump, held, skips, channel, sound>>
        /\ at \in {"checks", "export", "gtids", "message"} /\ at' \in {"export", "left", "end"}
        /\ at' = "export" => at = "checks"
    BY <1>2 DEF Checks, ExportFails, Message, AfterExportError, Step, slaveVars
  <2> QED BY <1>1, <2>1 DEF SlaveTypes, SlaveInv, Follows, Steps
<1>3. CASE ExportData
  BY <1>1, <1>3 DEF ExportData, Step, slaveVars, SlaveTypes, SlaveInv, Follows, Steps
<1>4. CASE ExportGtids
  <2>1. /\ at = "gtids" /\ at' = "reset" /\ UNCHANGED <<file_pos, held, skips, channel>>
        /\ dump' = [dump EXCEPT !.gtids = Len(binlog), !.whole = TRUE]
        /\ sound' = (Len(binlog) = dump.upto)
    BY <1>4 DEF ExportGtids, Step, slaveVars
  <2>2. dump'.upto = dump.upto /\ dump'.gtids = Len(binlog)
        /\ dump' \in [upto : 0..Len(binlog), gtids : 0..Len(binlog), whole : BOOLEAN]
    <3>1. dump \in [upto : 0..Len(binlog), gtids : 0..Len(binlog), whole : BOOLEAN]
      BY DEF SlaveTypes
    <3>2. Len(binlog) \in 0..Len(binlog)
      BY <1>1
    <3> QED BY <2>1, <3>1, <3>2
  <2> QED BY <1>1, <2>1, <2>2 DEF SlaveTypes, SlaveInv, Follows, Steps
<1>5. CASE ResetSlave
  BY <1>1, <1>5 DEF ResetSlave, Stopped, Step, SlaveTypes, SlaveInv, Follows, Steps, Working
<1>6. CASE Import \/ ImportFails
  <2>1. /\ at = "import" /\ at' = "sync" /\ UNCHANGED <<file_pos, dump, channel>>
        /\ sound' => /\ sound /\ dump.whole /\ held' = First(dump.upto) /\ skips' = 1..dump.gtids
        /\ sound' \in BOOLEAN
        /\ skips' \in {skips, 1..dump.gtids}
        /\ held' = held \/ \E n \in 0..dump.upto : held' = First(n)
    <3>1. dump.upto \in 0..dump.upto
      BY <1>1 DEF SlaveTypes
    <3>2. CASE Import
      BY <3>1, <3>2 DEF Import, Step
    <3>3. CASE ImportFails
      BY <3>3 DEF ImportFails, Step
    <3> QED BY <1>6, <3>2, <3>3
  <2>2. dump.upto \in 0..Len(binlog) /\ dump.gtids \in 0..Len(binlog)
    BY DEF SlaveTypes
  <2>3. held' \in Seq(1..Len(binlog))
    <3>1. CASE held' = held
      BY <3>1 DEF SlaveTypes
    <3>2. ASSUME NEW n \in 0..dump.upto, held' = First(n) PROVE held' \in Seq(1..Len(binlog))
      <4>1. n \in Nat /\ n <= Len(binlog)
        BY <1>1, <2>2
      <4>2. First(n) \in Seq(1..n)
        BY <4>1, FirstIs
      <4> QED BY <1>1, <3>2, <4>1, <4>2
    <3> QED BY <2>1, <3>1, <3>2
  <2>4. skips' \subseteq 1..Len(binlog)
    BY <1>1, <2>1, <2>2 DEF SlaveTypes
  <2>5. SlaveTypes'
    BY <1>1, <2>1, <2>3, <2>4 DEF SlaveTypes, Steps
  <2>6. ASSUME sound' PROVE held' = First(Len(held')) /\ skips' = 1..Len(held')
    <3>1. dump.upto = dump.gtids /\ dump.upto \in Nat
      BY <2>1, <2>2, <2>6, <1>1 DEF SlaveInv
    <3> QED BY <2>1, <2>6, <3>1, FirstIs
  <2> QED BY <2>1, <2>5, <2>6 DEF SlaveInv, Follows
<1>7. CASE ChangeSyncMaster
  BY <1>1, <1>7 DEF ChangeSyncMaster, Position, Step, SlaveTypes, SlaveInv, Follows, Steps, Working
<1> QED BY <1>2, <1>3, <1>4, <1>5, <1>6, <1>7

LEMMA SlaveStep ==
  ASSUME ClientTypes, SlaveTypes, SlaveInv, [Next]_vars
  PROVE  SlaveTypes' /\ SlaveInv'
<1>1. CASE ClientNext /\ UNCHANGED setupVars
  <2>1. UNCHANGED <<at, file_pos, dump, slaveVars, sound>> /\ at' \in Steps
    BY <1>1 DEF setupVars, SlaveTypes
  <2>2. SlaveTypes'
    BY <2>1, SlaveTypesGrow
  <2> QED BY <2>1, <2>2 DEF SlaveInv, Follows, slaveVars
<1>2. CASE GrantReplication
  <2>1. /\ at = "grant" /\ at' = "stop"
        /\ UNCHANGED <<file_pos, dump, slaveVars, sound>>
    BY <1>2 DEF GrantReplication, Told
  <2>2. SlaveTypes'
    BY <2>1, SlaveTypesGrow DEF Steps
  <2> QED BY <2>1, <2>2 DEF SlaveInv, Follows, slaveVars
<1>3. CASE SlaveConnects
  BY <1>3 DEF SlaveConnects, SlaveTypes, SlaveInv, Follows, Working, clientVars
<1>4. CASE UNCHANGED vars
  BY <1>4 DEF vars, clientVars, setupVars, slaveVars, SlaveTypes, SlaveInv, Follows
<1> QED BY <1>1, <1>2, <1>3, <1>4, AppliesStep, RplStep, StoneDbStep DEF Next, Script

LEMMA SlaveInductive == Spec => [](ClientInv /\ SlaveTypes /\ SlaveInv)
<1>1. ClientInv /\ SlaveTypes /\ SlaveInv /\ [Next]_vars => (SlaveTypes /\ SlaveInv)'
  BY SlaveStep DEF ClientInv
<1> QED BY <1>1, SlaveStart, ClientInductive, PTL DEF Spec

\* However clients, slave threads, failures and the steps of either script fall, a
\* slave that was set up under the conditions the script relies on holds the
\* beginning of the binlog, without a gap, a repetition or an exchange.
THEOREM PrefixKept == Spec => []ReplicaIsPrefix
<1>1. SlaveInv => ReplicaIsPrefix
  BY DEF SlaveInv, Follows, ReplicaIsPrefix
<1> QED BY <1>1, SlaveInductive, PTL

\* Every state of clients, scripts and slave is well typed.
THEOREM TypeCorrect == Spec => []TypeOK
<1>1. ClientInv /\ SlaveTypes => TypeOK
  <2> SUFFICES ASSUME ClientInv, SlaveTypes PROVE TypeOK
    OBVIOUS
  <2>1. Range(held) \subseteq 1..Len(binlog)
    BY DEF SlaveTypes, Range
  <2> QED BY <2>1 DEF ClientInv, ClientTypes, ThreadInv, SlaveTypes, TypeOK
<1> QED BY <1>1, SlaveInductive, PTL
=============================================================================
