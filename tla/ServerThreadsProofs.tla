------------------------ MODULE ServerThreadsProofs ------------------------
(***************************************************************************)
(* Theorems about ServerThreads, for any number of connections and threads *)
(* and any limits.                                                         *)
(***************************************************************************)
EXTENDS ServerThreads, FiniteSetTheorems, TLAPS

In(c, q)    == \E i \in 1 .. Len(q) : q[i] = c
Distinct(q) == \A i, j \in 1 .. Len(q) : q[i] = q[j] => i = j
HasThread(c) == \E t \in Threads : serves[t] = c

Alive == {c \in Connections : thd[c] \in {"queued", "run"}}
Awake == Cached \ asleep

Holding == main \in {"check", "create", "failed"}

\* Where a THD is, and who has it.
PoolHolds ==
  /\ \A t \in Threads : serves[t] # NoThd <=> pc[t] \in {"serving", "ending"}
  /\ incoming # NoThd <=> Holding
  /\ \A c \in Connections : thd[c] = "new" <=> c = incoming
  /\ \A c \in Connections : thd[c] = "queued" <=> In(c, thread_cache)
  /\ \A c \in Connections : thd[c] = "run" <=> HasThread(c)
  /\ asleep \cap Threads \subseteq Cached

\* How far the shutdown is, and what that means for main and for the cache.
PhaseHolds ==
  /\ select_thread_in_use <=> main \in {"loop", "select", "check", "create", "failed", "leave"}
  /\ abort_loop <=> signal \notin {"sigwait", "hup"}
  /\ flush_waits => signal \in {"hup", "clear"}
  /\ kill_cached_threads = (IF signal \in {"sigwait", "hup", "close"} THEN 0 ELSE 1)
                             + (IF flush_waits THEN 1 ELSE 0)
  /\ signal \in {"select", "tell", "force", "drain", "cleanup", "gone"} => cached_thread_count = 0
  /\ signal \in {"tell", "force", "drain", "cleanup", "gone"} => ~ select_thread_in_use
  /\ signal \in {"cleanup", "gone"} => thread_count = 0
  /\ ready_to_exit <=> signal = "gone"
  /\ main \in {"finish", "destroyed", "exited"} => ready_to_exit

\* Which THDs close_connections has before it, and which behind it.
ListHolds ==
  /\ \A c \in Connections : thd[c] = "run" => c \in threads \/ killed[c] = "closed"
  /\ signal \in {"drain", "cleanup", "gone"} => threads = {}

LimitHolds ==
  /\ LimitsHold
  /\ main = "create" => thread_count <= MaxConnections

IInv == /\ TypeOK /\ PoolHolds /\ OneThreadPerThd /\ CountersAgree /\ NoLostWakeup
        /\ PhaseHolds /\ ListHolds /\ LimitHolds

-----------------------------------------------------------------------------
(***************************************************************************)
(* Queues and counts                                                       *)
(***************************************************************************)
\* What thread_cache.append adds.
LEMMA AppendIn ==
  ASSUME NEW S, NEW q \in Seq(S), NEW x \in S
  PROVE  /\ \A c : In(c, Append(q, x)) <=> In(c, q) \/ c = x
         /\ Distinct(q) /\ ~ In(x, q) => Distinct(Append(q, x))
         /\ Len(Append(q, x)) = Len(q) + 1 /\ Append(q, x) \in Seq(S)
<1>1. Len(Append(q, x)) = Len(q) + 1 /\ Append(q, x) \in Seq(S) /\ Len(q) \in Nat
  OBVIOUS
<1>2. \A i \in 1 .. Len(q) : Append(q, x)[i] = q[i]
  OBVIOUS
<1>3. Append(q, x)[Len(q) + 1] = x
  OBVIOUS
<1>4. \A i \in 1 .. Len(q) + 1 : i \in 1 .. Len(q) \/ i = Len(q) + 1
  BY <1>1
<1>5. Len(q) + 1 \in 1 .. Len(q) + 1 /\ \A i \in 1 .. Len(q) : i \in 1 .. Len(q) + 1
  BY <1>1
<1>6. ASSUME NEW c PROVE In(c, Append(q, x)) <=> In(c, q) \/ c = x
  BY <1>1, <1>2, <1>3, <1>4, <1>5 DEF In
<1>7. ASSUME Distinct(q), ~ In(x, q) PROVE Distinct(Append(q, x))
  BY <1>1, <1>2, <1>3, <1>4, <1>7 DEF In, Distinct
<1> QED BY <1>1, <1>6, <1>7

\* What thread_cache.get leaves.
LEMMA TailIn ==
  ASSUME NEW S, NEW q \in Seq(S), Distinct(q), Len(q) > 0
  PROVE  /\ Head(q) \in S /\ In(Head(q), q)
         /\ \A c : In(c, Tail(q)) <=> In(c, q) /\ c # Head(q)
         /\ Distinct(Tail(q))
         /\ Len(Tail(q)) = Len(q) - 1 /\ Tail(q) \in Seq(S)
<1>1. q # <<>> /\ Len(q) \in Nat \ {0}
  OBVIOUS
<1>2. Len(Tail(q)) = Len(q) - 1 /\ Tail(q) \in Seq(S) /\ Head(q) = q[1] /\ q[1] \in S
  BY <1>1
<1>3. \A i \in 1 .. Len(q) - 1 : Tail(q)[i] = q[i + 1]
  BY <1>1
<1>4. 1 \in 1 .. Len(q) /\ \A i \in 1 .. Len(q) - 1 : i + 1 \in 1 .. Len(q) /\ i + 1 # 1
  BY <1>1
<1>5. \A i \in 1 .. Len(q) : i = 1 \/ (i - 1 \in 1 .. Len(q) - 1 /\ (i - 1) + 1 = i)
  BY <1>1
<1>6. ASSUME NEW c, In(c, Tail(q)) PROVE In(c, q) /\ c # Head(q)
  <2>1. PICK i \in 1 .. Len(q) - 1 : Tail(q)[i] = c
    BY <1>2, <1>6 DEF In
  <2>2. q[i + 1] = c /\ i + 1 \in 1 .. Len(q) /\ i + 1 # 1
    BY <2>1, <1>3, <1>4
  <2> QED BY <2>2, <1>2, <1>4 DEF In, Distinct
<1>7. ASSUME NEW c, In(c, q), c # Head(q) PROVE In(c, Tail(q))
  <2>1. PICK i \in 1 .. Len(q) : q[i] = c
    BY <1>7 DEF In
  <2>2. i # 1
    BY <2>1, <1>7, <1>2
  <2>3. i - 1 \in 1 .. Len(q) - 1 /\ Tail(q)[i - 1] = c
    BY <2>1, <2>2, <1>3, <1>5
  <2> QED BY <2>3, <1>2 DEF In
<1>8. Distinct(Tail(q))
  <2> SUFFICES ASSUME NEW i \in 1 .. Len(q) - 1, NEW j \in 1 .. Len(q) - 1,
                      Tail(q)[i] = Tail(q)[j]
               PROVE  i = j
    BY <1>2 DEF Distinct
  <2>1. q[i + 1] = q[j + 1] /\ i + 1 \in 1 .. Len(q) /\ j + 1 \in 1 .. Len(q)
    BY <1>3, <1>4
  <2>2. i + 1 = j + 1
    BY <2>1 DEF Distinct
  <2> QED BY <2>2
<1>9. In(Head(q), q)
  BY <1>2, <1>4 DEF In
<1> QED BY <1>2, <1>6, <1>7, <1>8, <1>9

LEMMA FiniteCounts ==
  ASSUME TypeOK
  PROVE  /\ IsFiniteSet(Alive) /\ IsFiniteSet(Cached) /\ IsFiniteSet(Awake)
         /\ Cardinality(Alive) \in Nat /\ Cardinality(Cached) \in Nat
         /\ Cardinality(Awake) \in Nat /\ Cardinality(Awake) <= Cardinality(Cached)
<1>1. Alive \in SUBSET Connections /\ Cached \in SUBSET Threads /\ Awake \in SUBSET Cached
  BY DEF Alive, Cached, Awake
<1>2. IsFiniteSet(Alive) /\ IsFiniteSet(Cached)
  BY <1>1, FS_Subset, ThreadsAssumption
<1>3. IsFiniteSet(Awake) /\ Cardinality(Awake) <= Cardinality(Cached)
  BY <1>1, <1>2, FS_Subset
<1> QED BY <1>2, <1>3, FS_CardinalityType

-----------------------------------------------------------------------------
(***************************************************************************)
(* The actions, and what the invariant says of the counters                *)
(***************************************************************************)
\* Next, flattened.
Steps ==
  \/ TestAbort \/ (\E c \in Connections : NewConnection(c)) \/ NoConnection
  \/ CheckConnection \/ QueueThd \/ CreateFails \/ DeleteThd \/ LeaveSelect \/ TellLeft
  \/ WaitReady \/ DestroyMutexes \/ Exit
  \/ (\E t \in Threads :
        \/ CreateThread(t) \/ EndOfConnection(t) \/ KillMysql(t) \/ EndThreadIdle(t)
        \/ EndThreadNext(t) \/ EndThreadExit(t) \/ CacheSleep(t) \/ TakeThd(t)
        \/ CacheLeave(t) \/ TellDeath(t))
  \/ (\E s \in {"TERM", "HUP"} : SendSignal(s))
  \/ TakeTerm \/ TakeHup \/ KillCached \/ FlushThreadCache \/ WaitSelect \/ TellThreads
  \/ ForceClose \/ Drain \/ CleanUp \/ SpuriousWakeup \/ UNCHANGED vars

LEMMA NextSteps == ASSUME [Next]_vars PROVE Steps
<1>1. MainRuns => Steps
  BY DEF MainRuns, Steps
<1>2. SignalRuns => Steps
  BY DEF SignalRuns, Steps
<1>3. \A t \in Threads : ThreadRuns(t) => Steps
  BY DEF ThreadRuns, Hangup, Steps
<1>4. Clients => Steps
  BY DEF Clients, Steps
<1> QED BY <1>1, <1>2, <1>3, <1>4 DEF Next, Steps

\* No counter is decremented below zero.
LEMMA CountsPositive ==
  ASSUME IInv
  PROVE  /\ \A t \in Threads : pc[t] = "ending" => thread_count > 0
         /\ \A t \in Threads : pc[t] = "cached" => cached_thread_count > 0
         /\ flush_waits => kill_cached_threads > 0
<1>1. ASSUME NEW t \in Threads, pc[t] = "ending" PROVE thread_count > 0
  <2>1. serves[t] \in Connections /\ thd[serves[t]] = "run"
    BY <1>1 DEF IInv, TypeOK, PoolHolds, HasThread
  <2>2. serves[t] \in Alive
    BY <2>1 DEF Alive
  <2> QED BY <2>2, FiniteCounts, FS_EmptySet DEF IInv, CountersAgree, Alive
<1>2. ASSUME NEW t \in Threads, pc[t] = "cached" PROVE cached_thread_count > 0
  <2>1. t \in Cached
    BY <1>2 DEF Cached
  <2> QED BY <2>1, FiniteCounts, FS_EmptySet DEF IInv, CountersAgree
<1>3. ASSUME flush_waits PROVE kill_cached_threads > 0
  BY <1>3 DEF IInv, PhaseHolds
<1> QED BY <1>1, <1>2, <1>3

\* wake_thread > 0: the queue is not empty.
LEMMA QueueFront ==
  ASSUME IInv, wake_thread > 0
  PROVE  /\ Head(thread_cache) \in Connections /\ In(Head(thread_cache), thread_cache)
         /\ \A c : In(c, Tail(thread_cache)) <=> In(c, thread_cache) /\ c # Head(thread_cache)
         /\ Distinct(Tail(thread_cache)) /\ Tail(thread_cache) \in Seq(Connections)
         /\ Len(Tail(thread_cache)) = wake_thread - 1
         /\ thd[Head(thread_cache)] = "queued" /\ ~ HasThread(Head(thread_cache))
         /\ Head(thread_cache) # incoming
<1>1. thread_cache \in Seq(Connections) /\ Distinct(thread_cache) /\ Len(thread_cache) > 0
      /\ wake_thread = Len(thread_cache)
  BY DEF IInv, TypeOK, OneThreadPerThd, Distinct, CountersAgree
<1>2. Head(thread_cache) \in Connections /\ In(Head(thread_cache), thread_cache)
  BY <1>1, TailIn
<1>3. thd[Head(thread_cache)] = "queued"
  BY <1>2 DEF IInv, PoolHolds
<1>4. ~ HasThread(Head(thread_cache)) /\ Head(thread_cache) # incoming
  BY <1>2, <1>3 DEF IInv, PoolHolds
<1> QED BY <1>1, <1>2, <1>3, <1>4, TailIn

-----------------------------------------------------------------------------
(***************************************************************************)
(* Types                                                                   *)
(***************************************************************************)
LEMMA TypeStep == ASSUME IInv, [Next]_vars PROVE TypeOK'
<1> USE ThreadsAssumption DEF MainPlaces, SignalPlaces, sigVars, poolVars, thdVars, counts, flags
<1>0. TypeOK
  BY DEF IInv
<1>1. ASSUME TestAbort \/ NoConnection \/ CheckConnection \/ DeleteThd \/ LeaveSelect
               \/ TellLeft \/ WaitReady \/ DestroyMutexes \/ Exit \/ CreateFails
      PROVE  TypeOK'
  <2>1. CASE TestAbort
    BY <1>0, <2>1 DEF TypeOK, TestAbort
  <2>2. CASE NoConnection
    BY <1>0, <2>2 DEF TypeOK, NoConnection
  <2>3. CASE CheckConnection
    BY <1>0, <2>3 DEF TypeOK, CheckConnection
  <2>4. CASE DeleteThd
    BY <1>0, <2>4 DEF TypeOK, DeleteThd
  <2>5. CASE LeaveSelect
    BY <1>0, <2>5 DEF TypeOK, LeaveSelect
  <2>6. CASE TellLeft
    BY <1>0, <2>6 DEF TypeOK, TellLeft
  <2>7. CASE WaitReady
    BY <1>0, <2>7 DEF TypeOK, WaitReady
  <2>8. CASE DestroyMutexes
    BY <1>0, <2>8 DEF TypeOK, DestroyMutexes
  <2>9. CASE Exit
    BY <1>0, <2>9 DEF TypeOK, Exit
  <2>10. CASE CreateFails
    <3>1. incoming \in Connections
      BY <2>10 DEF IInv, TypeOK, PoolHolds, Holding, CreateFails
    <3> QED BY <1>0, <2>10, <3>1 DEF TypeOK, CreateFails
  <2> QED BY <1>1, <2>1, <2>2, <2>3, <2>4, <2>5, <2>6, <2>7, <2>8, <2>9, <2>10
<1>2. ASSUME NEW c \in Connections, NewConnection(c) PROVE TypeOK'
  BY <1>0, <1>2 DEF TypeOK, NewConnection
<1>3. ASSUME QueueThd PROVE TypeOK'
  <2>1. incoming \in Connections
    BY <1>3 DEF IInv, TypeOK, PoolHolds, Holding, QueueThd
  <2>2. thread_cache' \in Seq(Connections)
    BY <2>1, <1>3, <1>0 DEF TypeOK, QueueThd
  <2>3. asleep' \subseteq asleep
    BY <1>3 DEF QueueThd, WakeOneOf
  <2> QED BY <1>0, <1>3, <2>1, <2>2, <2>3 DEF TypeOK, QueueThd
<1>4. ASSUME NEW t \in Threads, CreateThread(t) PROVE TypeOK'
  <2>1. incoming \in Connections
    BY <1>4 DEF IInv, TypeOK, PoolHolds, Holding, CreateThread
  <2> QED BY <1>0, <1>4, <2>1 DEF TypeOK, CreateThread
<1>5. ASSUME NEW t \in Threads,
             EndOfConnection(t) \/ KillMysql(t) \/ CacheSleep(t) \/ TellDeath(t)
      PROVE  TypeOK'
  <2>1. CASE EndOfConnection(t)
    BY <1>0, <2>1 DEF TypeOK, EndOfConnection
  <2>2. CASE KillMysql(t)
    BY <1>0, <2>2 DEF TypeOK, KillMysql
  <2>3. CASE CacheSleep(t)
    BY <1>0, <2>3 DEF TypeOK, CacheSleep
  <2>4. CASE TellDeath(t)
    BY <1>0, <2>4 DEF TypeOK, TellDeath
  <2> QED BY <1>5, <2>1, <2>2, <2>3, <2>4
<1>6. ASSUME NEW t \in Threads, EndThreadIdle(t) \/ EndThreadExit(t) PROVE TypeOK'
  <2>1. thread_count > 0
    BY <1>6, CountsPositive DEF EndThreadIdle, EndThreadExit
  <2>2. /\ serves' \in [Threads -> Connections \cup {NoThd}]
        /\ thd' \in [Connections -> {"none", "new", "queued", "run"}]
        /\ killed' \in [Connections -> {"no", "told", "closed"}]
        /\ threads' \subseteq Connections
    BY <1>0, <1>6 DEF TypeOK, EndThreadIdle, EndThreadExit, Deleted, Forgotten, LeftThreads
  <2>3. /\ pc' \in [Threads -> {"none", "serving", "ending", "cached", "unlocked"}]
        /\ asleep' \subseteq Threads \cup {MainThread, SignalThread}
        /\ thread_count' \in Nat /\ cached_thread_count' \in Nat
    BY <1>0, <1>6, <2>1 DEF TypeOK, EndThreadIdle, EndThreadExit
  <2>4. UNCHANGED <<main, incoming, sigVars, thread_cache, wake_thread, kill_cached_threads,
                    flags, pending>>
    BY <1>6 DEF EndThreadIdle, EndThreadExit
  <2> QED BY <1>0, <2>2, <2>3, <2>4 DEF TypeOK
<1>7. ASSUME NEW t \in Threads, EndThreadNext(t) PROVE TypeOK'
  <2>1. thread_count > 0
    BY <1>7, CountsPositive DEF EndThreadNext
  <2>2. /\ Head(thread_cache) \in Connections /\ Tail(thread_cache) \in Seq(Connections)
        /\ wake_thread > 0
    BY <1>7, QueueFront DEF EndThreadNext
  <2>3. /\ pc' \in [Threads -> {"none", "serving", "ending", "cached", "unlocked"}]
        /\ serves' \in [Threads -> Connections \cup {NoThd}]
        /\ thd' \in [Connections -> {"none", "new", "queued", "run"}]
        /\ killed' \in [Connections -> {"no", "told", "closed"}]
        /\ threads' \subseteq Connections
        /\ asleep' \subseteq Threads \cup {MainThread, SignalThread}
    BY <1>0, <1>7, <2>2 DEF TypeOK, EndThreadNext, Deleted, Forgotten, LeftThreads
  <2> QED BY <1>0, <1>7, <2>1, <2>2, <2>3 DEF TypeOK, EndThreadNext
<1>8. ASSUME NEW t \in Threads, TakeThd(t) PROVE TypeOK'
  <2>1. cached_thread_count > 0
    BY <1>8, CountsPositive DEF TakeThd
  <2>2. /\ Head(thread_cache) \in Connections /\ Tail(thread_cache) \in Seq(Connections)
        /\ wake_thread > 0
    BY <1>8, QueueFront DEF TakeThd
  <2>3. /\ pc' \in [Threads -> {"none", "serving", "ending", "cached", "unlocked"}]
        /\ serves' \in [Threads -> Connections \cup {NoThd}]
        /\ thd' \in [Connections -> {"none", "new", "queued", "run"}]
        /\ killed' \in [Connections -> {"no", "told", "closed"}]
        /\ threads' \subseteq Connections
        /\ asleep' \subseteq Threads \cup {MainThread, SignalThread}
    BY <1>0, <1>8, <2>2 DEF TypeOK, TakeThd, FlushTold
  <2> QED BY <1>0, <1>8, <2>1, <2>2, <2>3 DEF TypeOK, TakeThd
<1>9. ASSUME NEW t \in Threads, CacheLeave(t) PROVE TypeOK'
  <2>1. cached_thread_count > 0
    BY <1>9, CountsPositive DEF CacheLeave
  <2> QED BY <1>0, <1>9, <2>1 DEF TypeOK, CacheLeave, FlushTold
<1>10. ASSUME NEW s \in {"TERM", "HUP"}, SendSignal(s) PROVE TypeOK'
  BY <1>0, <1>10 DEF TypeOK, SendSignal
<1>11. ASSUME TakeTerm \/ TakeHup \/ KillCached \/ WaitSelect \/ TellThreads \/ ForceClose
                \/ Drain \/ CleanUp \/ SpuriousWakeup
       PROVE  TypeOK'
  <2>1. CASE TakeTerm
    BY <1>0, <2>1 DEF TypeOK, TakeTerm
  <2>2. CASE TakeHup
    BY <1>0, <2>2 DEF TypeOK, TakeHup
  <2>3. CASE KillCached
    BY <1>0, <2>3 DEF TypeOK, KillCached
  <2>4. CASE WaitSelect
    BY <1>0, <2>4 DEF TypeOK, WaitSelect
  <2>5. CASE TellThreads
    BY <1>0, <2>5 DEF TypeOK, TellThreads
  <2>6. CASE ForceClose
    BY <1>0, <2>6 DEF TypeOK, ForceClose
  <2>7. CASE Drain
    BY <1>0, <2>7 DEF TypeOK, Drain
  <2>8. CASE CleanUp
    BY <1>0, <2>8 DEF TypeOK, CleanUp
  <2>9. CASE SpuriousWakeup
    BY <1>0, <2>9 DEF TypeOK, SpuriousWakeup
  <2> QED BY <1>11, <2>1, <2>2, <2>3, <2>4, <2>5, <2>6, <2>7, <2>8, <2>9
<1>12. ASSUME FlushThreadCache PROVE TypeOK'
  <2>1. KillTakenBack \in Nat
    BY <1>0, CountsPositive DEF TypeOK, KillTakenBack
  <2>2. kill_cached_threads' \in Nat
    <3>1. CASE flush_waits
      BY <3>1, <2>1, <1>0, <1>12 DEF TypeOK, FlushThreadCache
    <3>2. CASE ~ flush_waits
      BY <3>2, <2>1, <1>0, <1>12 DEF TypeOK, FlushThreadCache
    <3> QED BY <3>1, <3>2
  <2>3. asleep' \subseteq Threads \cup {MainThread, SignalThread} /\ signal' \in SignalPlaces
        /\ flush_waits' \in BOOLEAN
    BY <1>0, <1>12 DEF TypeOK, FlushThreadCache, AfterFlush
  <2>4. UNCHANGED <<main, incoming, poolVars, thdVars, thread_count, cached_thread_count,
                    wake_thread, flags, pending>>
    BY <1>12 DEF FlushThreadCache
  <2> QED BY <1>0, <2>2, <2>3, <2>4 DEF TypeOK
<1>13. ASSUME UNCHANGED vars PROVE TypeOK'
  BY <1>0, <1>13 DEF TypeOK, vars
<1> QED BY NextSteps, <1>1, <1>2, <1>3, <1>4, <1>5, <1>6, <1>7, <1>8, <1>9, <1>10, <1>11, <1>12,
        <1>13 DEF Steps

-----------------------------------------------------------------------------
(***************************************************************************)
(* Who has which THD                                                       *)
(***************************************************************************)
\* The actions that move a THD or a thread.
PoolSteps ==
  \/ (\E c \in Connections : NewConnection(c)) \/ CheckConnection \/ QueueThd \/ DeleteThd
  \/ (\E t \in Threads :
        \/ CreateThread(t) \/ EndOfConnection(t) \/ EndThreadIdle(t) \/ EndThreadNext(t)
        \/ EndThreadExit(t) \/ TakeThd(t) \/ CacheLeave(t) \/ TellDeath(t))

poolFrame == <<incoming, pc, serves, thd, thread_cache, Holding,
               thread_count, cached_thread_count, wake_thread>>

LEMMA PoolFrame ==
  ASSUME [Next]_vars
  PROVE  \/ PoolSteps
         \/ UNCHANGED poolFrame
<1> USE DEF poolFrame, Holding, sigVars, poolVars, thdVars, counts, flags
<1>1. ASSUME TestAbort \/ NoConnection \/ CreateFails \/ LeaveSelect \/ TellLeft
               \/ WaitReady \/ DestroyMutexes \/ Exit
      PROVE  UNCHANGED poolFrame
  BY <1>1 DEF TestAbort, NoConnection, CreateFails, LeaveSelect, TellLeft, WaitReady,
     DestroyMutexes, Exit
<1>2. ASSUME NEW t \in Threads, KillMysql(t) \/ CacheSleep(t)
      PROVE  UNCHANGED poolFrame
  BY <1>2 DEF KillMysql, CacheSleep
<1>3. ASSUME NEW s \in {"TERM", "HUP"}, SendSignal(s)
      PROVE  UNCHANGED poolFrame
  BY <1>3 DEF SendSignal
<1>4. ASSUME \/ TakeTerm \/ TakeHup \/ KillCached \/ FlushThreadCache \/ WaitSelect
             \/ TellThreads \/ ForceClose \/ Drain \/ CleanUp \/ SpuriousWakeup
      PROVE  UNCHANGED poolFrame
  BY <1>4 DEF TakeTerm, TakeHup, KillCached, FlushThreadCache, WaitSelect, TellThreads,
     ForceClose, Drain, CleanUp, SpuriousWakeup
<1>5. UNCHANGED vars => UNCHANGED poolFrame
  BY DEF vars
<1> QED BY NextSteps, <1>1, <1>2, <1>3, <1>4, <1>5 DEF Steps, PoolSteps

ThdHolds ==
  /\ \A t \in Threads : serves[t] # NoThd <=> pc[t] \in {"serving", "ending"}
  /\ incoming # NoThd <=> Holding
  /\ \A c \in Connections : thd[c] = "new" <=> c = incoming
  /\ \A c \in Connections : thd[c] = "queued" <=> In(c, thread_cache)
  /\ \A c \in Connections : thd[c] = "run" <=> HasThread(c)
  /\ \A t, u \in Threads : t # u /\ serves[t] = serves[u] => serves[t] = NoThd
  /\ Distinct(thread_cache)

LEMMA ThdHoldsOne ==
  ASSUME ThdHolds, TypeOK PROVE OneThreadPerThd
<1>1. ASSUME NEW t \in Threads, NEW i \in 1 .. Len(thread_cache), serves[t] = thread_cache[i]
      PROVE  FALSE
  <2>1. serves[t] \in Connections
    BY <1>1 DEF TypeOK
  <2>2. In(serves[t], thread_cache) /\ HasThread(serves[t])
    BY <1>1 DEF In, HasThread
  <2> QED BY <2>1, <2>2 DEF ThdHolds
<1> QED BY <1>1 DEF ThdHolds, OneThreadPerThd, Distinct

LEMMA ThdStep == ASSUME IInv, TypeOK', [Next]_vars PROVE ThdHolds'
<1> USE ThreadsAssumption DEF sigVars, poolVars, thdVars, counts, flags
<1>0. ThdHolds /\ TypeOK
  BY DEF IInv, PoolHolds, OneThreadPerThd, ThdHolds, Distinct
<1>1. ASSUME NEW c \in Connections, NewConnection(c) PROVE ThdHolds'
  BY <1>0, <1>1 DEF TypeOK, ThdHolds, NewConnection, Holding, HasThread
<1>2. ASSUME CheckConnection PROVE ThdHolds'
  BY <1>0, <1>2 DEF TypeOK, ThdHolds, CheckConnection, Holding, HasThread
<1>3. ASSUME DeleteThd PROVE ThdHolds'
  BY <1>0, <1>3 DEF TypeOK, ThdHolds, DeleteThd, Holding, HasThread
<1>4. ASSUME QueueThd PROVE ThdHolds'
  <2>1. incoming \in Connections /\ thd[incoming] = "new" /\ ~ In(incoming, thread_cache)
    BY <1>0, <1>4 DEF TypeOK, ThdHolds, QueueThd, Holding
  <2>2. /\ \A c : In(c, thread_cache') <=> In(c, thread_cache) \/ c = incoming
        /\ Distinct(thread_cache')
    BY <1>0, <1>4, <2>1, AppendIn DEF TypeOK, ThdHolds, QueueThd
  <2> QED BY <1>0, <1>4, <2>1, <2>2 DEF TypeOK, ThdHolds, QueueThd, Holding, HasThread
<1>5. ASSUME NEW t \in Threads, CreateThread(t) PROVE ThdHolds'
  <2>1. incoming \in Connections /\ thd[incoming] = "new" /\ serves[t] = NoThd
        /\ ~ In(incoming, thread_cache) /\ ~ HasThread(incoming)
    BY <1>0, <1>5 DEF TypeOK, ThdHolds, CreateThread, Holding
  <2>2. \A c \in Connections : HasThread(c)' <=> HasThread(c) \/ c = incoming
    BY <1>0, <1>5, <2>1 DEF TypeOK, CreateThread, HasThread
  <2> QED BY <1>0, <1>5, <2>1, <2>2 DEF TypeOK, ThdHolds, CreateThread, Holding, HasThread
<1>6. ASSUME NEW t \in Threads, EndOfConnection(t) PROVE ThdHolds'
  BY <1>0, <1>6 DEF TypeOK, ThdHolds, EndOfConnection, Holding, HasThread
<1>7. ASSUME NEW t \in Threads, EndThreadIdle(t) \/ EndThreadExit(t) PROVE ThdHolds'
  <2>1. serves[t] \in Connections /\ thd[serves[t]] = "run"
    BY <1>0, <1>7 DEF TypeOK, ThdHolds, EndThreadIdle, EndThreadExit, HasThread
  <2>2. \A c \in Connections : HasThread(c)' <=> HasThread(c) /\ c # serves[t]
    BY <1>0, <1>7, <2>1 DEF TypeOK, ThdHolds, EndThreadIdle, EndThreadExit, HasThread
  <2> QED BY <1>0, <1>7, <2>1, <2>2 DEF TypeOK, ThdHolds, EndThreadIdle, EndThreadExit, Deleted,
          Holding
<1>8. ASSUME NEW t \in Threads, EndThreadNext(t) PROVE ThdHolds'
  <2> DEFINE next == Head(thread_cache)
  <2>1. serves[t] \in Connections /\ thd[serves[t]] = "run"
    BY <1>0, <1>8 DEF TypeOK, ThdHolds, EndThreadNext, HasThread
  <2>2. /\ next \in Connections /\ next # serves[t] /\ thd[next] = "queued" /\ ~ HasThread(next)
        /\ \A c : In(c, thread_cache') <=> In(c, thread_cache) /\ c # next
        /\ Distinct(thread_cache')
    BY <1>8, <2>1, QueueFront DEF EndThreadNext
  <2>3. serves' = [serves EXCEPT ![t] = next] /\ thd' = [Deleted(t) EXCEPT ![next] = "run"]
        /\ pc' = [pc EXCEPT ![t] = "serving"] /\ pc[t] = "ending"
        /\ UNCHANGED <<main, incoming>>
    BY <1>8 DEF EndThreadNext
  <2> HIDE DEF next
  <2>4. \A c \in Connections : HasThread(c)' <=> (HasThread(c) /\ c # serves[t]) \/ c = next
    BY <1>0, <2>1, <2>2, <2>3 DEF TypeOK, ThdHolds, HasThread
  <2> QED BY <1>0, <2>1, <2>2, <2>3, <2>4 DEF TypeOK, ThdHolds, Deleted, Holding, HasThread
<1>9. ASSUME NEW t \in Threads, TakeThd(t) PROVE ThdHolds'
  <2> DEFINE next == Head(thread_cache)
  <2>1. serves[t] = NoThd
    BY <1>0, <1>9 DEF TypeOK, ThdHolds, TakeThd
  <2>2. /\ next \in Connections /\ thd[next] = "queued" /\ ~ HasThread(next)
        /\ \A c : In(c, thread_cache') <=> In(c, thread_cache) /\ c # next
        /\ Distinct(thread_cache')
    BY <1>9, QueueFront DEF TakeThd
  <2>3. serves' = [serves EXCEPT ![t] = next] /\ thd' = [thd EXCEPT ![next] = "run"]
        /\ pc' = [pc EXCEPT ![t] = "serving"] /\ pc[t] = "cached"
        /\ UNCHANGED <<main, incoming>>
    BY <1>9 DEF TakeThd
  <2> HIDE DEF next
  <2>4. \A c \in Connections : HasThread(c)' <=> HasThread(c) \/ c = next
    BY <1>0, <2>1, <2>2, <2>3 DEF TypeOK, HasThread
  <2> QED BY <1>0, <2>1, <2>2, <2>3, <2>4 DEF TypeOK, ThdHolds, Holding, HasThread
<1>10. ASSUME NEW t \in Threads, CacheLeave(t) \/ TellDeath(t) PROVE ThdHolds'
  BY <1>0, <1>10 DEF TypeOK, ThdHolds, CacheLeave, TellDeath, Holding, HasThread
<1>11. ASSUME UNCHANGED poolFrame PROVE ThdHolds'
  BY <1>0, <1>11 DEF poolFrame, ThdHolds, HasThread
<1> QED BY PoolFrame, <1>1, <1>2, <1>3, <1>4, <1>5, <1>6, <1>7, <1>8, <1>9, <1>10, <1>11
        DEF PoolSteps

LEMMA AsleepStep ==
  ASSUME IInv, TypeOK', [Next]_vars PROVE (asleep \cap Threads \subseteq Cached)'
<1> USE ThreadsAssumption DEF sigVars, poolVars, thdVars, counts, flags, Cached
<1>0. asleep \cap Threads \subseteq Cached /\ TypeOK
  BY DEF IInv, PoolHolds
<1>1. ASSUME TestAbort \/ NoConnection \/ CheckConnection \/ DeleteThd \/ LeaveSelect
               \/ TellLeft \/ WaitReady \/ DestroyMutexes \/ Exit \/ CreateFails
      PROVE  (asleep \cap Threads \subseteq Cached)'
  BY <1>0, <1>1 DEF TestAbort, NoConnection, CheckConnection, DeleteThd, LeaveSelect,
     TellLeft, WaitReady, DestroyMutexes, Exit, CreateFails
<1>2. ASSUME NEW c \in Connections, NewConnection(c) PROVE (asleep \cap Threads \subseteq Cached)'
  BY <1>0, <1>2 DEF NewConnection
<1>3. ASSUME QueueThd PROVE (asleep \cap Threads \subseteq Cached)'
  BY <1>0, <1>3 DEF QueueThd, WakeOneOf
<1>4. ASSUME NEW t \in Threads,
             \/ CreateThread(t) \/ EndOfConnection(t) \/ KillMysql(t) \/ EndThreadIdle(t)
             \/ EndThreadNext(t) \/ EndThreadExit(t) \/ CacheSleep(t) \/ TellDeath(t)
      PROVE  (asleep \cap Threads \subseteq Cached)'
  BY <1>0, <1>4 DEF TypeOK, CreateThread, EndOfConnection, KillMysql, EndThreadIdle,
     EndThreadNext, EndThreadExit, CacheSleep, TellDeath
<1>5. ASSUME NEW t \in Threads, TakeThd(t) \/ CacheLeave(t)
      PROVE  (asleep \cap Threads \subseteq Cached)'
  BY <1>0, <1>5 DEF TypeOK, TakeThd, CacheLeave, FlushTold
<1>6. ASSUME NEW s \in {"TERM", "HUP"}, SendSignal(s)
      PROVE  (asleep \cap Threads \subseteq Cached)'
  BY <1>0, <1>6 DEF SendSignal
<1>7. ASSUME \/ TakeTerm \/ TakeHup \/ KillCached \/ FlushThreadCache \/ WaitSelect
             \/ TellThreads \/ ForceClose \/ Drain \/ CleanUp \/ SpuriousWakeup
      PROVE  (asleep \cap Threads \subseteq Cached)'
  BY <1>0, <1>7 DEF TakeTerm, TakeHup, KillCached, FlushThreadCache, WaitSelect, TellThreads,
     ForceClose, Drain, CleanUp, SpuriousWakeup
<1>8. ASSUME UNCHANGED vars PROVE (asleep \cap Threads \subseteq Cached)'
  BY <1>0, <1>8 DEF vars
<1> QED BY NextSteps, <1>1, <1>2, <1>3, <1>4, <1>5, <1>6, <1>7, <1>8 DEF Steps

LEMMA PoolStep == ASSUME IInv, TypeOK', [Next]_vars PROVE PoolHolds' /\ OneThreadPerThd'
<1>1. ThdHolds' /\ (asleep \cap Threads \subseteq Cached)'
  BY ThdStep, AsleepStep
<1>2. PoolHolds'
  BY <1>1 DEF ThdHolds, PoolHolds
<1>3. OneThreadPerThd'
  BY <1>1, ThdHoldsOne, PTL
<1> QED BY <1>2, <1>3

-----------------------------------------------------------------------------
(***************************************************************************)
(* The counters                                                            *)
(***************************************************************************)
\* One THD, or one thread, more or less.
LEMMA CountOne ==
  ASSUME NEW S, NEW T, IsFiniteSet(S), NEW x
  PROVE  /\ T = S => Cardinality(T) = Cardinality(S)
         /\ x \notin S /\ T = S \cup {x} => Cardinality(T) = Cardinality(S) + 1
         /\ x \in S /\ T = S \ {x} => Cardinality(T) = Cardinality(S) - 1
         /\ Cardinality(S) \in Nat
BY FS_AddElement, FS_RemoveElement, FS_CardinalityType

LEMMA CountStep == ASSUME IInv, TypeOK', [Next]_vars PROVE CountersAgree'
<1> USE ThreadsAssumption DEF sigVars, poolVars, thdVars, counts, flags
<1>0. /\ ThdHolds /\ TypeOK
      /\ thread_count = Cardinality(Alive) /\ cached_thread_count = Cardinality(Cached)
      /\ wake_thread = Len(thread_cache) /\ Len(thread_cache) \in Nat
      /\ IsFiniteSet(Alive) /\ IsFiniteSet(Cached)
  BY FiniteCounts
     DEF IInv, PoolHolds, OneThreadPerThd, ThdHolds, Distinct, CountersAgree, Alive, TypeOK
<1>1. /\ thread_count' = Cardinality(Alive')
      /\ cached_thread_count' = Cardinality(Cached')
      /\ wake_thread' = Len(thread_cache')
      => CountersAgree'
  BY DEF CountersAgree, Alive
<1>2. CASE (\E c \in Connections : NewConnection(c)) \/ CheckConnection \/ DeleteThd
  <2>1. Alive' = Alive
    BY <1>0, <1>2 DEF TypeOK, ThdHolds, Holding, Alive, NewConnection, CheckConnection, DeleteThd
  <2>2. UNCHANGED <<pc, thread_cache, counts>>
    BY <1>2 DEF NewConnection, CheckConnection, DeleteThd
  <2> QED BY <1>0, <1>1, <2>1, <2>2 DEF Cached
<1>3. CASE QueueThd
  <2>1. incoming \in Connections /\ thd[incoming] = "new" /\ thread_cache \in Seq(Connections)
    BY <1>0, <1>3 DEF TypeOK, ThdHolds, QueueThd, Holding
  <2>2. incoming \notin Alive /\ Alive' = Alive \cup {incoming}
    BY <1>0, <1>3, <2>1 DEF TypeOK, QueueThd, Alive
  <2>3. Len(thread_cache') = Len(thread_cache) + 1
    BY <1>3, <2>1, AppendIn DEF QueueThd
  <2> QED BY <1>0, <1>1, <1>3, <2>2, <2>3, CountOne DEF QueueThd, Cached
<1>4. ASSUME NEW t \in Threads, CreateThread(t) PROVE CountersAgree'
  <2>1. incoming \in Connections /\ thd[incoming] = "new"
    BY <1>0, <1>4 DEF TypeOK, ThdHolds, CreateThread, Holding
  <2>2. incoming \notin Alive /\ Alive' = Alive \cup {incoming} /\ Cached' = Cached
    BY <1>0, <1>4, <2>1 DEF TypeOK, CreateThread, Alive, Cached
  <2> QED BY <1>0, <1>1, <1>4, <2>2, CountOne DEF CreateThread
<1>5. ASSUME NEW t \in Threads, EndThreadIdle(t) \/ EndThreadNext(t) \/ EndThreadExit(t)
      PROVE  CountersAgree'
  <2>1. pc[t] = "ending" /\ serves[t] \in Connections /\ thd[serves[t]] = "run"
    BY <1>0, <1>5 DEF TypeOK, ThdHolds, HasThread, EndThreadIdle, EndThreadNext, EndThreadExit
  <2>2. Alive' = Alive \ {serves[t]}
    <3>1. CASE EndThreadIdle(t) \/ EndThreadExit(t)
      BY <1>0, <2>1, <3>1 DEF TypeOK, EndThreadIdle, EndThreadExit, Deleted, Alive
    <3>2. CASE EndThreadNext(t)
      <4>1. Head(thread_cache) \in Connections /\ thd[Head(thread_cache)] = "queued"
        BY <3>2, QueueFront DEF EndThreadNext
      <4> QED BY <1>0, <2>1, <3>2, <4>1 DEF TypeOK, EndThreadNext, Deleted, Alive
    <3> QED BY <1>5, <3>1, <3>2
  <2>3. serves[t] \in Alive /\ t \notin Cached
    BY <2>1 DEF Alive, Cached
  <2>4. thread_count' = Cardinality(Alive')
    BY <1>0, <1>5, <2>2, <2>3, CountOne DEF EndThreadIdle, EndThreadNext, EndThreadExit
  <2>5. cached_thread_count' = Cardinality(Cached') /\ wake_thread' = Len(thread_cache')
    <3>1. CASE EndThreadIdle(t)
      <4>1. Cached' = Cached \cup {t}
        BY <1>0, <2>1, <3>1 DEF TypeOK, EndThreadIdle, Cached
      <4> QED BY <1>0, <2>3, <3>1, <4>1, CountOne DEF EndThreadIdle
    <3>2. CASE EndThreadNext(t)
      <4>1. Cached' = Cached
        BY <1>0, <2>1, <3>2 DEF TypeOK, EndThreadNext, Cached
      <4> QED BY <1>0, <3>2, <4>1, QueueFront DEF EndThreadNext
    <3>3. CASE EndThreadExit(t)
      <4>1. Cached' = Cached
        BY <1>0, <2>1, <3>3 DEF TypeOK, EndThreadExit, Cached
      <4> QED BY <1>0, <3>3, <4>1 DEF EndThreadExit
    <3> QED BY <1>5, <3>1, <3>2, <3>3
  <2> QED BY <1>1, <2>4, <2>5
<1>6. ASSUME NEW t \in Threads, TakeThd(t) \/ CacheLeave(t) PROVE CountersAgree'
  <2>1. t \in Cached /\ Cached' = Cached \ {t}
    BY <1>0, <1>6 DEF TypeOK, TakeThd, CacheLeave, Cached
  <2>2. cached_thread_count' = Cardinality(Cached')
    BY <1>0, <1>6, <2>1, CountOne DEF TakeThd, CacheLeave
  <2>3. thread_count' = Cardinality(Alive') /\ wake_thread' = Len(thread_cache')
    <3>1. CASE TakeThd(t)
      <4>1. Head(thread_cache) \in Connections /\ thd[Head(thread_cache)] = "queued"
            /\ wake_thread' = Len(thread_cache')
        BY <3>1, QueueFront DEF TakeThd
      <4>2. Alive' = Alive
        BY <1>0, <3>1, <4>1 DEF TypeOK, TakeThd, Alive
      <4> QED BY <1>0, <3>1, <4>1, <4>2 DEF TakeThd
    <3>2. CASE CacheLeave(t)
      BY <1>0, <3>2 DEF CacheLeave, Alive
    <3> QED BY <1>6, <3>1, <3>2
  <2> QED BY <1>1, <2>2, <2>3
<1>7. ASSUME NEW t \in Threads, EndOfConnection(t) \/ TellDeath(t) PROVE CountersAgree'
  <2>1. Alive' = Alive /\ Cached' = Cached /\ UNCHANGED <<counts, thread_cache>>
    BY <1>0, <1>7 DEF TypeOK, EndOfConnection, TellDeath, Alive, Cached
  <2> QED BY <1>0, <1>1, <2>1
<1>8. CASE UNCHANGED poolFrame
  BY <1>0, <1>1, <1>8 DEF poolFrame, Alive, Cached
<1> QED BY PoolFrame, <1>2, <1>3, <1>4, <1>5, <1>6, <1>7, <1>8 DEF PoolSteps

\* An idle thread that sleeps or leaves does so when nothing is queued; whoever
\* queues a THD wakes a thread, or finds all of them awake.
LEMMA AwakeStep ==
  ASSUME IInv, TypeOK', CountersAgree', [Next]_vars PROVE NoLostWakeup'
<1> USE ThreadsAssumption DEF sigVars, poolVars, thdVars, counts, flags
<1>0. /\ ThdHolds /\ TypeOK /\ asleep \cap Threads \subseteq Cached
      /\ wake_thread <= Cardinality(Awake) /\ wake_thread \in Nat
      /\ IsFiniteSet(Awake) /\ Cardinality(Awake) \in Nat
      /\ IsFiniteSet(Cached) /\ Cardinality(Cached) \in Nat
      /\ cached_thread_count = Cardinality(Cached)
  BY FiniteCounts
     DEF IInv, PoolHolds, OneThreadPerThd, ThdHolds, Distinct, CountersAgree, NoLostWakeup, Awake,
         TypeOK
<1>a. IsFiniteSet(Awake') /\ Cardinality(Awake') \in Nat
  <2>1. Awake' \in SUBSET Threads
    BY DEF Awake, Cached
  <2> QED BY <2>1, FS_Subset, FS_CardinalityType
<1>1. SUFFICES wake_thread' <= Cardinality(Awake')
  BY DEF NoLostWakeup, Awake
<1>2. ASSUME wake_thread' = wake_thread, Awake \subseteq Awake'
      PROVE  wake_thread' <= Cardinality(Awake')
  <2>1. Cardinality(Awake) <= Cardinality(Awake')
    BY <1>2, <1>a, FS_Subset
  <2> QED BY <1>0, <1>2, <1>a, <2>1
<1>3. ASSUME wake_thread' = 0 PROVE wake_thread' <= Cardinality(Awake')
  BY <1>3, <1>a
<1>4. CASE \/ TestAbort \/ NoConnection \/ CheckConnection \/ CreateFails \/ DeleteThd
           \/ LeaveSelect \/ TellLeft \/ WaitReady \/ DestroyMutexes \/ Exit
           \/ \E c \in Connections : NewConnection(c)
  <2>1. wake_thread' = wake_thread /\ Awake \subseteq Awake'
    BY <1>0, <1>4 DEF Awake, Cached, TestAbort, NoConnection, CheckConnection, CreateFails,
       DeleteThd, LeaveSelect, TellLeft, WaitReady, DestroyMutexes, Exit, NewConnection
  <2> QED BY <1>2, <2>1
<1>5. CASE QueueThd
  <2>1. cached_thread_count > wake_thread /\ wake_thread' = wake_thread + 1 /\ Cached' = Cached
    BY <1>5 DEF QueueThd, IdleThread, Cached
  <2>2. CASE asleep \cap Cached = {} /\ UNCHANGED asleep
    <3>1. Awake' = Cached
      BY <2>1, <2>2 DEF Awake
    <3> QED BY <1>0, <2>1, <3>1
  <2>3. ASSUME NEW t \in asleep \cap Cached, asleep' = asleep \ {t}
        PROVE  wake_thread' <= Cardinality(Awake')
    <3>1. t \notin Awake /\ Awake' = Awake \cup {t}
      BY <2>1, <2>3 DEF Awake
    <3>2. Cardinality(Awake') = Cardinality(Awake) + 1
      BY <1>0, <3>1, CountOne
    <3> QED BY <1>0, <2>1, <3>2
  <2> QED BY <1>5, <2>2, <2>3 DEF QueueThd, WakeOneOf
<1>6. ASSUME NEW t \in Threads,
             CreateThread(t) \/ EndOfConnection(t) \/ KillMysql(t) \/ EndThreadExit(t)
               \/ TellDeath(t)
      PROVE  wake_thread' <= Cardinality(Awake')
  <2>1. wake_thread' = wake_thread /\ Awake \subseteq Awake'
    BY <1>0, <1>6 DEF TypeOK, Awake, Cached, CreateThread, EndOfConnection, KillMysql,
       EndThreadExit, TellDeath, CountWaiters
  <2> QED BY <1>2, <2>1
<1>7. ASSUME NEW t \in Threads, EndThreadIdle(t) \/ CacheSleep(t) \/ CacheLeave(t)
      PROVE  wake_thread' <= Cardinality(Awake')
  <2>1. wake_thread' = 0
    BY <1>7 DEF EndThreadIdle, CacheSleep, CacheLeave, StaysCached
  <2> QED BY <1>3, <2>1
<1>8. ASSUME NEW t \in Threads, EndThreadNext(t) PROVE wake_thread' <= Cardinality(Awake')
  <2>1. wake_thread' = wake_thread - 1 /\ Awake' = Awake
    BY <1>0, <1>8 DEF TypeOK, Awake, Cached, EndThreadNext
  <2> QED BY <1>0, <2>1
<1>9. ASSUME NEW t \in Threads, TakeThd(t) PROVE wake_thread' <= Cardinality(Awake')
  <2>1. wake_thread' = wake_thread - 1 /\ t \in Awake /\ Awake' = Awake \ {t}
    BY <1>0, <1>9 DEF TypeOK, Awake, Cached, TakeThd, FlushTold
  <2>2. Cardinality(Awake') = Cardinality(Awake) - 1
    BY <1>0, <2>1, CountOne
  <2> QED BY <1>0, <2>1, <2>2
<1>10. CASE \/ TakeTerm \/ TakeHup \/ KillCached \/ FlushThreadCache \/ WaitSelect
            \/ TellThreads \/ ForceClose \/ Drain \/ CleanUp \/ SpuriousWakeup
            \/ \E s \in {"TERM", "HUP"} : SendSignal(s)
  <2>1. wake_thread' = wake_thread /\ Awake \subseteq Awake'
    BY <1>0, <1>10 DEF Awake, Cached, TakeTerm, TakeHup, KillCached, FlushThreadCache, WaitSelect,
       TellThreads, ForceClose, Drain, CleanUp, SpuriousWakeup, SendSignal
  <2> QED BY <1>2, <2>1
<1>11. CASE UNCHANGED vars
  BY <1>2, <1>11 DEF vars, Awake, Cached
<1> QED BY NextSteps, <1>4, <1>5, <1>6, <1>7, <1>8, <1>9, <1>10, <1>11 DEF Steps

-----------------------------------------------------------------------------
(***************************************************************************)
(* The shutdown                                                            *)
(***************************************************************************)
\* An empty cache has an empty queue; a server with no THD has no thread at work.
LEMMA NothingLeft ==
  ASSUME IInv
  PROVE  /\ cached_thread_count = 0 => wake_thread = 0 /\ \A t \in Threads : pc[t] # "cached"
         /\ thread_count = 0 => \A t \in Threads : pc[t] \notin {"serving", "ending"}
<1>1. cached_thread_count = 0 => wake_thread = 0
  BY FiniteCounts DEF IInv, TypeOK, CountersAgree, NoLostWakeup, Awake
<1>2. ASSUME NEW t \in Threads, thread_count = 0 PROVE pc[t] \notin {"serving", "ending"}
  <2>1. SUFFICES ASSUME pc[t] \in {"serving", "ending"} PROVE FALSE
    OBVIOUS
  <2>2. serves[t] \in Connections /\ thd[serves[t]] = "run"
    BY <2>1 DEF IInv, TypeOK, PoolHolds, HasThread
  <2>3. serves[t] \in Alive /\ thread_count = Cardinality(Alive)
    BY <2>2 DEF IInv, CountersAgree, Alive
  <2> QED BY <1>2, <2>3, FiniteCounts, FS_EmptySet DEF IInv
<1>3. cached_thread_count = 0 => \A t \in Threads : pc[t] # "cached"
  BY CountsPositive
<1> QED BY <1>1, <1>2, <1>3

LEMMA PhaseStep == ASSUME IInv, TypeOK', [Next]_vars PROVE PhaseHolds'
<1> USE DEF sigVars, poolVars, thdVars, counts, flags
<1>0. PhaseHolds /\ TypeOK
  BY DEF IInv
<1>1. CASE \/ TestAbort \/ NoConnection \/ CheckConnection \/ CreateFails \/ DeleteThd
           \/ LeaveSelect \/ TellLeft \/ WaitReady \/ DestroyMutexes \/ Exit
           \/ \E c \in Connections : NewConnection(c)
  <2>1. /\ select_thread_in_use'
             <=> main' \in {"loop", "select", "check", "create", "failed", "leave"}
        /\ main' \in {"finish", "destroyed", "exited"} => ready_to_exit'
        /\ select_thread_in_use' => select_thread_in_use
    BY <1>0, <1>1 DEF PhaseHolds, TestAbort, NoConnection, CheckConnection, CreateFails,
       DeleteThd, LeaveSelect, TellLeft, WaitReady, DestroyMutexes, Exit, NewConnection
  <2>2. UNCHANGED <<signal, flush_waits, abort_loop, ready_to_exit, counts>>
    BY <1>1 DEF TestAbort, NoConnection, CheckConnection, CreateFails, DeleteThd, LeaveSelect,
       TellLeft, WaitReady, DestroyMutexes, Exit, NewConnection
  <2> QED BY <1>0, <2>1, <2>2 DEF PhaseHolds
<1>2. CASE QueueThd \/ \E t \in Threads : CreateThread(t)
  <2>1. main = "create" /\ main' = "loop"
        /\ UNCHANGED <<signal, flush_waits, flags, cached_thread_count, kill_cached_threads>>
    BY <1>2 DEF QueueThd, CreateThread
  <2> QED BY <1>0, <2>1 DEF PhaseHolds
<1>3. ASSUME NEW t \in Threads,
             \/ EndThreadIdle(t) \/ EndThreadNext(t) \/ EndThreadExit(t) \/ TakeThd(t)
             \/ CacheLeave(t)
      PROVE  PhaseHolds'
  <2>1. UNCHANGED <<main, signal, flush_waits, flags, kill_cached_threads>>
    BY <1>3 DEF EndThreadIdle, EndThreadNext, EndThreadExit, TakeThd, CacheLeave
  <2>2. cached_thread_count = 0 => cached_thread_count' = 0 \/ ~ abort_loop
    BY <1>3, CountsPositive
       DEF EndThreadIdle, EndThreadNext, EndThreadExit, TakeThd, CacheLeave, MayCache
  <2>3. thread_count = 0 => thread_count' = 0
    BY <1>3, CountsPositive DEF EndThreadIdle, EndThreadNext, EndThreadExit, TakeThd, CacheLeave
  <2> QED BY <1>0, <2>1, <2>2, <2>3 DEF PhaseHolds
<1>4. ASSUME NEW t \in Threads,
             EndOfConnection(t) \/ KillMysql(t) \/ CacheSleep(t) \/ TellDeath(t)
      PROVE  PhaseHolds'
  <2>1. UNCHANGED <<main, signal, flush_waits, abort_loop, select_thread_in_use, ready_to_exit,
                    counts>>
    BY <1>4 DEF EndOfConnection, KillMysql, CacheSleep, TellDeath
  <2> QED BY <1>0, <2>1 DEF PhaseHolds
<1>5. CASE TakeTerm \/ TakeHup \/ KillCached
  BY <1>0, <1>5 DEF TypeOK, PhaseHolds, TakeTerm, TakeHup, KillCached
<1>6. CASE FlushThreadCache
  <2>1. UNCHANGED <<main, flags, thread_count, cached_thread_count>>
        /\ signal \in {"hup", "clear"}
    BY <1>6 DEF FlushThreadCache
  <2>2. CASE cached_thread_count = 0 /\ kill_cached_threads' = KillTakenBack
               /\ flush_waits' = FALSE /\ signal' = AfterFlush
    <3>1. CASE flush_waits
      BY <1>0, <2>1, <2>2, <3>1 DEF TypeOK, PhaseHolds, KillTakenBack, AfterFlush
    <3>2. CASE ~ flush_waits
      BY <1>0, <2>1, <2>2, <3>2 DEF TypeOK, PhaseHolds, KillTakenBack, AfterFlush
    <3> QED BY <3>1, <3>2
  <2>3. CASE /\ kill_cached_threads' = kill_cached_threads + (IF flush_waits THEN 0 ELSE 1)
             /\ flush_waits' = TRUE /\ UNCHANGED signal
    BY <1>0, <2>1, <2>3 DEF TypeOK, PhaseHolds
  <2> QED BY <1>6, <2>2, <2>3 DEF FlushThreadCache
<1>7. CASE WaitSelect
  BY <1>0, <1>7 DEF TypeOK, PhaseHolds, WaitSelect
<1>8. CASE TellThreads \/ ForceClose \/ Drain \/ CleanUp
  BY <1>0, <1>8 DEF TypeOK, PhaseHolds, TellThreads, ForceClose, Drain, Drained, CleanUp
<1>9. CASE (\E s \in {"TERM", "HUP"} : SendSignal(s)) \/ SpuriousWakeup \/ UNCHANGED vars
  BY <1>0, <1>9 DEF PhaseHolds, SendSignal, SpuriousWakeup, vars
<1> QED BY NextSteps, <1>1, <1>2, <1>3, <1>4, <1>5, <1>6, <1>7, <1>8, <1>9 DEF Steps

LEMMA ListStep == ASSUME IInv, TypeOK', [Next]_vars PROVE ListHolds'
<1> USE ThreadsAssumption DEF sigVars, poolVars, thdVars, counts, flags
<1>0. ListHolds /\ ThdHolds /\ TypeOK /\ PhaseHolds
  BY DEF IInv, PoolHolds, OneThreadPerThd, ThdHolds, Distinct
<1>1. signal \in {"drain", "cleanup", "gone"} =>
        /\ main \notin {"loop", "select", "check", "create", "failed", "leave"}
        /\ wake_thread = 0
  BY <1>0, NothingLeft DEF PhaseHolds
<1>2. CASE \/ TestAbort \/ NoConnection \/ LeaveSelect \/ TellLeft \/ WaitReady
           \/ DestroyMutexes \/ Exit \/ SpuriousWakeup \/ UNCHANGED vars
           \/ \E s \in {"TERM", "HUP"} : SendSignal(s)
  <2>1. UNCHANGED <<thd, threads, killed, signal>>
    BY <1>2 DEF TestAbort, NoConnection, LeaveSelect, TellLeft, WaitReady, DestroyMutexes, Exit,
       SpuriousWakeup, SendSignal, vars
  <2> QED BY <1>0, <2>1 DEF ListHolds
<1>3. CASE CheckConnection \/ CreateFails \/ DeleteThd \/ QueueThd
           \/ \E c \in Connections : NewConnection(c)
  BY <1>0, <1>1, <1>3 DEF TypeOK, ListHolds, ThdHolds, Holding, CheckConnection, CreateFails,
     DeleteThd, QueueThd, NewConnection
<1>4. ASSUME NEW t \in Threads, CreateThread(t) PROVE ListHolds'
  BY <1>0, <1>1, <1>4 DEF TypeOK, ListHolds, CreateThread
<1>5. ASSUME NEW t \in Threads, EndThreadIdle(t) \/ EndThreadExit(t) PROVE ListHolds'
  <2>1. serves[t] \in Connections
    BY <1>0, <1>5 DEF TypeOK, ThdHolds, EndThreadIdle, EndThreadExit
  <2> QED BY <1>0, <1>5, <2>1 DEF TypeOK, ListHolds, EndThreadIdle, EndThreadExit, Deleted,
          Forgotten, LeftThreads
<1>6. ASSUME NEW t \in Threads, EndThreadNext(t) PROVE ListHolds'
  <2> DEFINE next == Head(thread_cache)
  <2>1. serves[t] \in Connections /\ next \in Connections
    BY <1>0, <1>6, QueueFront DEF TypeOK, ThdHolds, EndThreadNext
  <2>2. /\ thd' = [Deleted(t) EXCEPT ![next] = "run"] /\ killed' = Forgotten(t)
        /\ threads' = LeftThreads(t) \cup {next} /\ wake_thread > 0 /\ UNCHANGED signal
    BY <1>6 DEF EndThreadNext
  <2> HIDE DEF next
  <2> QED BY <1>0, <1>1, <2>1, <2>2 DEF TypeOK, ListHolds, Deleted, Forgotten, LeftThreads
<1>7. ASSUME NEW t \in Threads, TakeThd(t) PROVE ListHolds'
  <2> DEFINE next == Head(thread_cache)
  <2>1. next \in Connections
    BY <1>7, QueueFront DEF TakeThd
  <2>2. /\ thd' = [thd EXCEPT ![next] = "run"] /\ threads' = threads \cup {next}
        /\ wake_thread > 0 /\ UNCHANGED <<killed, signal>>
    BY <1>7 DEF TakeThd
  <2> HIDE DEF next
  <2> QED BY <1>0, <1>1, <2>1, <2>2 DEF TypeOK, ListHolds
<1>8. ASSUME NEW t \in Threads,
             \/ EndOfConnection(t) \/ KillMysql(t) \/ CacheSleep(t) \/ CacheLeave(t)
             \/ TellDeath(t)
      PROVE  ListHolds'
  <2>1. UNCHANGED <<thd, threads, killed, signal>>
    BY <1>8 DEF EndOfConnection, KillMysql, CacheSleep, CacheLeave, TellDeath
  <2> QED BY <1>0, <2>1 DEF ListHolds
<1>9. CASE TakeTerm \/ TakeHup \/ KillCached \/ FlushThreadCache \/ WaitSelect \/ Drain
           \/ CleanUp
  <2>1. /\ UNCHANGED <<thd, threads, killed>>
        /\ signal' \in {"drain", "cleanup", "gone"} => signal \in {"drain", "cleanup", "gone"}
    BY <1>9 DEF TakeTerm, TakeHup, KillCached, FlushThreadCache, AfterFlush, WaitSelect, Drain,
       CleanUp
  <2> QED BY <1>0, <2>1 DEF ListHolds
<1>10. CASE TellThreads \/ ForceClose
  BY <1>0, <1>10 DEF TypeOK, ListHolds, TellThreads, ForceClose
<1> QED BY NextSteps, <1>2, <1>3, <1>4, <1>5, <1>6, <1>7, <1>8, <1>9, <1>10 DEF Steps

LEMMA LimitStep == ASSUME IInv, TypeOK', [Next]_vars PROVE LimitHolds'
<1> USE ThreadsAssumption DEF sigVars, poolVars, thdVars, counts, flags, LimitsHold
<1>0. LimitHolds /\ TypeOK
  BY DEF IInv
<1>1. CASE CheckConnection
  BY <1>0, <1>1 DEF TypeOK, LimitHolds, CheckConnection, TooMany
<1>2. CASE QueueThd \/ \E t \in Threads : CreateThread(t)
  BY <1>0, <1>2 DEF TypeOK, LimitHolds, QueueThd, CreateThread
<1>3. ASSUME NEW t \in Threads,
             \/ EndThreadIdle(t) \/ EndThreadNext(t) \/ EndThreadExit(t) \/ TakeThd(t)
             \/ CacheLeave(t)
      PROVE  LimitHolds'
  BY <1>0, <1>3 DEF TypeOK, LimitHolds, EndThreadIdle, EndThreadNext, EndThreadExit, TakeThd,
     CacheLeave, MayCache
<1>4. ASSUME UNCHANGED <<thread_count, cached_thread_count>>, main' = "create" => main = "create"
      PROVE  LimitHolds'
  BY <1>0, <1>4 DEF LimitHolds
<1>5. CASE \/ TestAbort \/ NoConnection \/ CreateFails \/ DeleteThd \/ LeaveSelect \/ TellLeft
           \/ WaitReady \/ DestroyMutexes \/ Exit \/ SpuriousWakeup \/ UNCHANGED vars
           \/ (\E s \in {"TERM", "HUP"} : SendSignal(s))
           \/ (\E c \in Connections : NewConnection(c))
  BY <1>4, <1>5 DEF TestAbort, NoConnection, CreateFails, DeleteThd, LeaveSelect, TellLeft,
     WaitReady, DestroyMutexes, Exit, SpuriousWakeup, SendSignal, NewConnection, vars
<1>6. ASSUME NEW t \in Threads,
             EndOfConnection(t) \/ KillMysql(t) \/ CacheSleep(t) \/ TellDeath(t)
      PROVE  LimitHolds'
  BY <1>4, <1>6 DEF EndOfConnection, KillMysql, CacheSleep, TellDeath
<1>7. CASE \/ TakeTerm \/ TakeHup \/ KillCached \/ FlushThreadCache \/ WaitSelect
           \/ TellThreads \/ ForceClose \/ Drain \/ CleanUp
  BY <1>4, <1>7 DEF TakeTerm, TakeHup, KillCached, FlushThreadCache, WaitSelect, TellThreads,
     ForceClose, Drain, CleanUp
<1> QED BY NextSteps, <1>1, <1>2, <1>3, <1>5, <1>6, <1>7 DEF Steps

-----------------------------------------------------------------------------
(***************************************************************************)
(* Theorems                                                                *)
(***************************************************************************)
LEMMA InitHolds == ASSUME Init PROVE IInv
<1> USE ThreadsAssumption DEF Init
<1>1. Alive = {} /\ Cached = {} /\ Awake = {} /\ Len(thread_cache) = 0
  BY DEF Alive, Cached, Awake
<1>2. TypeOK
  <2>1. /\ main \in MainPlaces /\ signal \in SignalPlaces /\ thread_cache \in Seq(Connections)
        /\ pc \in [Threads -> {"none", "serving", "ending", "cached", "unlocked"}]
    BY DEF MainPlaces, SignalPlaces
  <2>2. /\ serves \in [Threads -> Connections \cup {NoThd}]
        /\ thd \in [Connections -> {"none", "new", "queued", "run"}]
        /\ killed \in [Connections -> {"no", "told", "closed"}]
    OBVIOUS
  <2> QED BY <2>1, <2>2 DEF TypeOK
<1>3. CountersAgree /\ NoLostWakeup
  <2>1. Cardinality({}) = 0
    BY FS_EmptySet
  <2>2. Cardinality(Alive) = 0 /\ Cardinality(Cached) = 0 /\ Cardinality(Awake) = 0
    BY <1>1, <2>1
  <2>3. thread_count = 0 /\ cached_thread_count = 0 /\ wake_thread = 0
    OBVIOUS
  <2> HIDE DEF Init
  <2> QED BY <1>1, <2>2, <2>3 DEF CountersAgree, NoLostWakeup, Alive, Awake
<1>4. /\ \A t \in Threads : serves[t] = NoThd /\ pc[t] = "none"
      /\ \A c \in Connections : thd[c] = "none" /\ ~ In(c, thread_cache) /\ ~ HasThread(c)
                                /\ c # NoThd
      /\ \A i \in 1 .. Len(thread_cache) : FALSE
  BY <1>1 DEF In, HasThread
<1>5. PoolHolds /\ OneThreadPerThd
  BY <1>4 DEF PoolHolds, OneThreadPerThd, Holding, Cached
<1>6. PhaseHolds
  BY DEF PhaseHolds
<1>7. ListHolds /\ LimitHolds
  BY DEF ListHolds, LimitHolds, LimitsHold
<1> QED BY <1>2, <1>3, <1>5, <1>6, <1>7 DEF IInv

LEMMA NextHolds == ASSUME IInv, [Next]_vars PROVE IInv'
<1>1. TypeOK'
  BY TypeStep
<1>2. CountersAgree'
  BY <1>1, CountStep
<1> QED BY <1>1, <1>2, PoolStep, AwakeStep, PhaseStep, ListStep, LimitStep DEF IInv

LEMMA Invariance == Spec => []IInv
<1>1. Init => IInv
  BY InitHolds
<1>2. IInv /\ [Next]_vars => IInv'
  BY NextHolds
<1> QED BY <1>1, <1>2, PTL DEF Spec

\* Every variable keeps its type: no counter of the server becomes negative.
THEOREM TypeCorrect == Spec => []TypeOK
<1>1. IInv => TypeOK
  BY DEF IInv
<1> QED BY <1>1, Invariance, PTL

\* thread_count, cached_thread_count and wake_thread count what they stand for.
THEOREM CountersRight == Spec => []CountersAgree
<1>1. IInv => CountersAgree
  BY DEF IInv
<1> QED BY <1>1, Invariance, PTL

\* No THD is given to two threads, or to a thread and the queue.
THEOREM ThdsApart == Spec => []OneThreadPerThd
<1>1. IInv => OneThreadPerThd
  BY DEF IInv
<1> QED BY <1>1, Invariance, PTL

\* Every queued THD has an idle thread that is awake for it.
THEOREM WakeupsKept == Spec => []NoLostWakeup
<1>1. IInv => NoLostWakeup
  BY DEF IInv
<1> QED BY <1>1, Invariance, PTL

\* max_connections and thread_cache_size are respected.
THEOREM LimitsRespected == Spec => []LimitsHold
<1>1. IInv => LimitsHold
  BY DEF IInv, LimitHolds
<1> QED BY <1>1, Invariance, PTL

\* After close_connections every THD left is with a thread and closed.
THEOREM EverybodyTold == Spec => []NobodyForgotten
<1>1. ASSUME IInv PROVE NobodyForgotten
  <2> SUFFICES ASSUME signal \in {"drain", "cleanup", "gone"}, NEW c \in Connections
               PROVE  thd[c] = "none" \/ (thd[c] = "run" /\ killed[c] = "closed")
    BY DEF NobodyForgotten
  <2>1. thd[c] # "new"
    BY <1>1, ThreadsAssumption DEF IInv, PoolHolds, PhaseHolds, Holding
  <2>2. thd[c] # "queued"
    <3>1. Len(thread_cache) = 0
      BY <1>1, NothingLeft DEF IInv, PhaseHolds, CountersAgree
    <3> QED BY <1>1, <3>1 DEF IInv, PoolHolds, In
  <2>3. thd[c] = "run" => killed[c] = "closed"
    BY <1>1 DEF IInv, ListHolds
  <2> QED BY <1>1, <2>1, <2>2, <2>3 DEF IInv, TypeOK
<1>2. IInv => NobodyForgotten
  BY <1>1
<1> QED BY <1>2, Invariance, PTL

\* Nobody needs LOCK_thread_count when main destroys it.
THEOREM LockOutlives == Spec => []LockOutlivesThreads
<1>1. ASSUME IInv PROVE LockOutlivesThreads
  <2> SUFFICES ASSUME main = "destroyed"
               PROVE  signal = "gone" /\ \A t \in Threads : pc[t] \in {"none", "unlocked"}
    BY DEF LockOutlivesThreads
  <2>1. signal = "gone" /\ cached_thread_count = 0 /\ thread_count = 0
    BY <1>1 DEF IInv, PhaseHolds
  <2> QED BY <1>1, <2>1, NothingLeft DEF IInv, TypeOK
<1>2. IInv => LockOutlivesThreads
  BY <1>1
<1> QED BY <1>2, Invariance, PTL
=============================================================================
