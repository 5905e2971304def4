--------------------------- MODULE ServerThreads ---------------------------
(***************************************************************************)
(* percona-data-recovery-tool/mysql-source/sql/mysqld.cc: the threads of   *)
(* the server, from the first connection to exit().                        *)
(*                                                                         *)
(* main accepts connections and gives each a THD.  The THD goes to a new   *)
(* thread or into thread_cache, from which a thread that has finished with *)
(* its connection takes it.  The signal thread flushes the idle threads on *)
(* SIGHUP and shuts the server down on SIGTERM.                            *)
(*                                                                         *)
(* An action is what happens between taking and leaving LOCK_thread_count, *)
(* or one access to shared state outside of it.  `asleep' are the threads  *)
(* in pthread_cond_wait that no signal or broadcast has reached.  What a   *)
(* thread does with its connection (sql_parse.cc) is not in this source;   *)
(* manager, slave and delayed insert threads are left out.                 *)
(***************************************************************************)
EXTENDS Integers, Sequences, FiniteSets

CONSTANTS
  Connections,     \* THDs in use at a time; a deleted one may come back as another
  Threads,         \* pthreads at a time; pthread_create fails when none is free
  MaxConnections,  \* max_connections
  ThreadCacheSize, \* thread_cache_size
  NoThd, MainThread, SignalThread

ASSUME ThreadsAssumption ==
  /\ IsFiniteSet(Connections) /\ IsFiniteSet(Threads)
  /\ MaxConnections \in Nat /\ ThreadCacheSize \in Nat
  /\ NoThd \notin Connections
  /\ MainThread # SignalThread /\ {MainThread, SignalThread} \cap Threads = {}

VARIABLES
  main,            \* where main is
  incoming,        \* the THD that create_new_thread works on
  signal,          \* where the signal thread is
  flush_waits,     \* the signal thread waits in flush_thread_cache
  pc,              \* where each connection thread is
  serves,          \* its THD
  thd,             \* each THD: "none", "new", "queued", "run"
  killed,          \* "no", "told" (thd->killed) or "closed" (and its vio closed)
  thread_cache,    \* THDs waiting for an idle thread
  threads,         \* the list of THDs that close_connections goes through
  thread_count, cached_thread_count, wake_thread, kill_cached_threads,
  abort_loop, shutdown_in_progress, select_thread_in_use, ready_to_exit,
  pending,         \* signals sent to the process and not yet taken
  asleep

counts   == <<thread_count, cached_thread_count, wake_thread, kill_cached_threads>>
flags    == <<abort_loop, shutdown_in_progress, select_thread_in_use, ready_to_exit>>
thdVars  == <<thd, killed, thread_cache, threads>>
poolVars == <<pc, serves>>
sigVars  == <<signal, flush_waits>>
vars     == <<main, incoming, sigVars, poolVars, thdVars, counts, flags, pending, asleep>>

Cached == {t \in Threads : pc[t] = "cached"}

\* who waits for COND_thread_count, and is woken by a broadcast
CountWaiters == (IF main = "wait" THEN {MainThread} ELSE {})
                  \cup (IF signal = "drain" THEN {SignalThread} ELSE {})

Init ==
  /\ main = "loop" /\ incoming = NoThd
  /\ signal = "sigwait" /\ flush_waits = FALSE
  /\ pc = [t \in Threads |-> "none"] /\ serves = [t \in Threads |-> NoThd]
  /\ thd = [c \in Connections |-> "none"] /\ killed = [c \in Connections |-> "no"]
  /\ thread_cache = <<>> /\ threads = {}
  /\ thread_count = 0 /\ cached_thread_count = 0
  /\ wake_thread = 0 /\ kill_cached_threads = 0
  /\ abort_loop = FALSE /\ shutdown_in_progress = FALSE
  /\ select_thread_in_use = TRUE /\ ready_to_exit = FALSE
  /\ pending = {} /\ asleep = {}

-----------------------------------------------------------------------------
(***************************************************************************)
(* main: handle_connections_sockets and create_new_thread                  *)
(***************************************************************************)
TestAbort ==
  /\ main = "loop"
  /\ main' = IF abort_loop THEN "leave" ELSE "select"
  /\ UNCHANGED <<incoming, sigVars, poolVars, thdVars, counts, flags, pending, asleep>>

\* select() reports a connection; a server that is going down does not look at it
NewConnection(c) ==
  /\ main = "select" /\ thd[c] = "none"
  /\ \/ /\ abort_loop
        /\ main' = "leave"
        /\ UNCHANGED <<incoming, thd>>
     \/ /\ ~ abort_loop
        /\ main' = "check" /\ incoming' = c
        /\ thd' = [thd EXCEPT ![c] = "new"]
  /\ UNCHANGED <<sigVars, poolVars, killed, thread_cache, threads, counts, flags, pending, asleep>>

\* accept, getsockname or vio_new fails
NoConnection ==
  /\ main = "select" /\ main' = "loop"
  /\ UNCHANGED <<incoming, sigVars, poolVars, thdVars, counts, flags, pending, asleep>>

\* read without the lock
TooMany == thread_count >= MaxConnections + 1 \/ abort_loop

CheckConnection ==
  /\ main = "check"
  /\ \/ /\ TooMany
        /\ main' = "loop" /\ incoming' = NoThd
        /\ thd' = [thd EXCEPT ![incoming] = "none"]
     \/ /\ ~ TooMany
        /\ main' = "create"
        /\ UNCHANGED <<incoming, thd>>
  /\ UNCHANGED <<sigVars, poolVars, killed, thread_cache, threads, counts, flags,
                 pending, asleep>>

IdleThread == cached_thread_count > wake_thread

\* mutant: the signal is forgotten
WakeOneOf_None(waiters) == waiters = waiters /\ UNCHANGED asleep

\* pthread_cond_signal wakes a waiter, if there is one
WakeOneOf(waiters) ==
  \/ waiters = {} /\ UNCHANGED asleep
  \/ \E t \in waiters : asleep' = asleep \ {t}

\* create_new_thread: queue the THD for an idle thread
QueueThd ==
  /\ main = "create" /\ IdleThread
  /\ thread_cache' = Append(thread_cache, incoming)
  /\ thd' = [thd EXCEPT ![incoming] = "queued"]
  /\ thread_count' = thread_count + 1 /\ wake_thread' = wake_thread + 1
  /\ WakeOneOf(asleep \cap Cached)
  /\ main' = "loop" /\ incoming' = NoThd
  /\ UNCHANGED <<sigVars, poolVars, killed, threads, cached_thread_count,
                 kill_cached_threads, flags, pending>>

\* create_new_thread: a thread of its own
CreateThread(t) ==
  /\ main = "create" /\ ~ IdleThread /\ pc[t] = "none"
  /\ pc' = [pc EXCEPT ![t] = "serving"] /\ serves' = [serves EXCEPT ![t] = incoming]
  /\ thd' = [thd EXCEPT ![incoming] = "run"]
  /\ threads' = threads \cup {incoming}
  /\ thread_count' = thread_count + 1
  /\ main' = "loop" /\ incoming' = NoThd
  /\ UNCHANGED <<sigVars, killed, thread_cache, cached_thread_count, wake_thread,
                 kill_cached_threads, flags, pending, asleep>>

\* mutant: thread_count-- is forgotten
CreateFails_Counted ==
  /\ main = "create" /\ ~ IdleThread
  /\ threads' = threads \cup {incoming}
  /\ killed' = [killed EXCEPT ![incoming] = "told"]
  /\ thread_count' = thread_count + 1
  /\ main' = "failed"
  /\ UNCHANGED <<incoming, sigVars, poolVars, thd, thread_cache, cached_thread_count,
                 wake_thread, kill_cached_threads, flags, pending, asleep>>

\* create_new_thread: pthread_create fails; the lock is given up to tell the client
CreateFails ==
  /\ main = "create" /\ ~ IdleThread
  /\ threads' = threads \cup {incoming}
  /\ killed' = [killed EXCEPT ![incoming] = "told"]
  /\ main' = "failed"
  /\ UNCHANGED <<incoming, sigVars, poolVars, thd, thread_cache, counts, flags, pending, asleep>>

DeleteThd ==
  /\ main = "failed"
  /\ threads' = threads \ {incoming} /\ thd' = [thd EXCEPT ![incoming] = "none"]
  /\ killed' = [killed EXCEPT ![incoming] = "no"]
  /\ main' = "loop" /\ incoming' = NoThd
  /\ UNCHANGED <<sigVars, poolVars, thread_cache, counts, flags, pending, asleep>>

\* main: "Exiting main thread"
LeaveSelect ==
  /\ main = "leave" /\ main' = "broadcast"
  /\ select_thread_in_use' = FALSE
  /\ UNCHANGED <<incoming, sigVars, poolVars, thdVars, counts, abort_loop,
                 shutdown_in_progress, ready_to_exit, pending, asleep>>

TellLeft ==
  /\ main = "broadcast" /\ main' = "wait"
  /\ asleep' = asleep \ CountWaiters
  /\ UNCHANGED <<incoming, sigVars, poolVars, thdVars, counts, flags, pending>>

\* while (!ready_to_exit) pthread_cond_wait
WaitReady ==
  /\ main = "wait" /\ MainThread \notin asleep
  /\ \/ ready_to_exit /\ main' = "finish" /\ UNCHANGED asleep
     \/ ~ ready_to_exit /\ asleep' = asleep \cup {MainThread} /\ UNCHANGED main
  /\ UNCHANGED <<incoming, sigVars, poolVars, thdVars, counts, flags, pending>>

\* wait_for_signal_thread_to_end gives up after a while; clean_up_mutexes
DestroyMutexes ==
  /\ main = "finish" /\ main' = "destroyed"
  /\ UNCHANGED <<incoming, sigVars, poolVars, thdVars, counts, flags, pending, asleep>>

Exit ==
  /\ main = "destroyed" /\ main' = "exited"
  /\ UNCHANGED <<incoming, sigVars, poolVars, thdVars, counts, flags, pending, asleep>>

-----------------------------------------------------------------------------
(***************************************************************************)
(* Connection threads: end_thread                                          *)
(***************************************************************************)
\* handle_one_connection: the client has left, or the connection was closed
EndOfConnection(t) ==
  /\ pc[t] = "serving"
  /\ pc' = [pc EXCEPT ![t] = "ending"]
  /\ UNCHANGED <<main, incoming, sigVars, serves, thdVars, counts, flags, pending, asleep>>

\* COM_SHUTDOWN: kill_mysql, whose pthread_kill may fail
KillMysql(t) ==
  /\ pc[t] = "serving"
  /\ pending' \in {pending, pending \cup {"TERM"}}
  /\ shutdown_in_progress' = TRUE
  /\ UNCHANGED <<main, incoming, sigVars, poolVars, thdVars, counts, abort_loop,
                 select_thread_in_use, ready_to_exit, asleep>>

MayCache == cached_thread_count < ThreadCacheSize /\ ~ abort_loop /\ kill_cached_threads = 0

\* What end_thread does first: thread_count--, delete thd
Deleted(t)     == [thd EXCEPT ![serves[t]] = "none"]
Forgotten(t)   == [killed EXCEPT ![serves[t]] = "no"]
LeftThreads(t) == threads \ {serves[t]}

\* end_thread: nothing is queued, the thread joins the idle ones
EndThreadIdle(t) ==
  /\ pc[t] = "ending" /\ MayCache /\ wake_thread = 0
  /\ pc' = [pc EXCEPT ![t] = "cached"] /\ serves' = [serves EXCEPT ![t] = NoThd]
  /\ thd' = Deleted(t) /\ killed' = Forgotten(t) /\ threads' = LeftThreads(t)
  /\ thread_count' = thread_count - 1 /\ cached_thread_count' = cached_thread_count + 1
  /\ asleep' = asleep \cup {t}
  /\ UNCHANGED <<main, incoming, sigVars, thread_cache, wake_thread, kill_cached_threads,
                 flags, pending>>

\* end_thread: a THD is queued, perhaps for a thread that was woken and has not run yet
EndThreadNext(t) ==
  LET next == Head(thread_cache)
  IN  /\ pc[t] = "ending" /\ MayCache /\ wake_thread > 0
      /\ pc' = [pc EXCEPT ![t] = "serving"] /\ serves' = [serves EXCEPT ![t] = next]
      /\ thd' = [Deleted(t) EXCEPT ![next] = "run"] /\ killed' = Forgotten(t)
      /\ threads' = LeftThreads(t) \cup {next}
      /\ thread_cache' = Tail(thread_cache)
      /\ thread_count' = thread_count - 1 /\ wake_thread' = wake_thread - 1
      /\ UNCHANGED <<main, incoming, sigVars, cached_thread_count, kill_cached_threads,
                     flags, pending, asleep>>

\* end_thread, with put_in_cache or without: the thread is not kept
EndThreadExit(t) ==
  /\ pc[t] = "ending"
  /\ pc' = [pc EXCEPT ![t] = "unlocked"] /\ serves' = [serves EXCEPT ![t] = NoThd]
  /\ thd' = Deleted(t) /\ killed' = Forgotten(t) /\ threads' = LeftThreads(t)
  /\ thread_count' = thread_count - 1
  /\ UNCHANGED <<main, incoming, sigVars, thread_cache, cached_thread_count, wake_thread,
                 kill_cached_threads, flags, pending, asleep>>

StaysCached == ~ abort_loop /\ wake_thread = 0 /\ kill_cached_threads = 0

CacheSleep(t) ==
  /\ pc[t] = "cached" /\ t \notin asleep /\ StaysCached
  /\ asleep' = asleep \cup {t}
  /\ UNCHANGED <<main, incoming, sigVars, poolVars, thdVars, counts, flags, pending>>

\* mutant: the flush is not told
FlushTold_Never == asleep

\* if (kill_cached_threads) pthread_cond_signal(&COND_flush_thread_cache)
FlushTold ==
  IF kill_cached_threads > 0 /\ flush_waits THEN asleep \ {SignalThread} ELSE asleep

\* mutant: the THD stays in the queue
TakeThd_Left(t) ==
  LET next == Head(thread_cache)
  IN  /\ pc[t] = "cached" /\ t \notin asleep /\ ~ StaysCached /\ wake_thread > 0
      /\ pc' = [pc EXCEPT ![t] = "serving"] /\ serves' = [serves EXCEPT ![t] = next]
      /\ thd' = [thd EXCEPT ![next] = "run"] /\ threads' = threads \cup {next}
      /\ cached_thread_count' = cached_thread_count - 1 /\ wake_thread' = wake_thread - 1
      /\ asleep' = FlushTold
      /\ UNCHANGED <<main, incoming, sigVars, killed, thread_cache, thread_count,
                     kill_cached_threads, flags, pending>>

\* end_thread: a woken thread takes the THD at the front
TakeThd(t) ==
  LET next == Head(thread_cache)
  IN  /\ pc[t] = "cached" /\ t \notin asleep /\ ~ StaysCached /\ wake_thread > 0
      /\ pc' = [pc EXCEPT ![t] = "serving"] /\ serves' = [serves EXCEPT ![t] = next]
      /\ thd' = [thd EXCEPT ![next] = "run"] /\ threads' = threads \cup {next}
      /\ thread_cache' = Tail(thread_cache)
      /\ cached_thread_count' = cached_thread_count - 1 /\ wake_thread' = wake_thread - 1
      /\ asleep' = FlushTold
      /\ UNCHANGED <<main, incoming, sigVars, killed, thread_count,
                     kill_cached_threads, flags, pending>>

\* end_thread: a thread woken by a flush or by the shutdown leaves the cache
CacheLeave(t) ==
  /\ pc[t] = "cached" /\ t \notin asleep /\ ~ StaysCached /\ wake_thread = 0
  /\ pc' = [pc EXCEPT ![t] = "unlocked"]
  /\ cached_thread_count' = cached_thread_count - 1
  /\ asleep' = FlushTold
  /\ UNCHANGED <<main, incoming, sigVars, serves, thdVars, thread_count, wake_thread,
                 kill_cached_threads, flags, pending>>

\* after the lock was left: pthread_cond_broadcast(&COND_thread_count), pthread_exit
TellDeath(t) ==
  /\ pc[t] = "unlocked"
  /\ pc' = [pc EXCEPT ![t] = "none"]
  /\ asleep' = asleep \ CountWaiters
  /\ UNCHANGED <<main, incoming, sigVars, serves, thdVars, counts, flags, pending>>

-----------------------------------------------------------------------------
(***************************************************************************)
(* The signal thread: signal_hand, flush_thread_cache, close_connections   *)
(***************************************************************************)
SendSignal(s) ==
  /\ pending' = pending \cup {s}
  /\ UNCHANGED <<main, incoming, sigVars, poolVars, thdVars, counts, flags, asleep>>

\* SIGTERM: abort_loop = 1, kill_server
TakeTerm ==
  /\ signal = "sigwait"
  /\ \/ shutdown_in_progress /\ UNCHANGED pending
     \/ ~ shutdown_in_progress /\ "TERM" \in pending /\ pending' = pending \ {"TERM"}
  /\ abort_loop' = TRUE /\ signal' = "close"
  /\ UNCHANGED <<main, incoming, flush_waits, poolVars, thdVars, counts,
                 shutdown_in_progress, select_thread_in_use, ready_to_exit, asleep>>

\* SIGHUP: reload_acl_and_cache with REFRESH_THREADS
TakeHup ==
  /\ signal = "sigwait" /\ ~ shutdown_in_progress /\ "HUP" \in pending
  /\ pending' = pending \ {"HUP"} /\ signal' = "hup"
  /\ UNCHANGED <<main, incoming, flush_waits, poolVars, thdVars, counts, flags, asleep>>

\* close_connections: kill_cached_threads++, without the lock
KillCached ==
  /\ signal = "close" /\ signal' = "clear"
  /\ kill_cached_threads' = kill_cached_threads + 1
  /\ UNCHANGED <<main, incoming, flush_waits, poolVars, thdVars, thread_count,
                 cached_thread_count, wake_thread, flags, pending, asleep>>

AfterFlush == IF signal = "hup" THEN "sigwait" ELSE "select"

KillTakenBack == kill_cached_threads - (IF flush_waits THEN 1 ELSE 0)

\* flush_thread_cache, from its start or from a wait to the next wait or its end
FlushThreadCache ==
  /\ signal \in {"hup", "clear"}
  /\ flush_waits => SignalThread \notin asleep
  /\ \/ /\ cached_thread_count = 0
        /\ kill_cached_threads' = KillTakenBack
        /\ flush_waits' = FALSE /\ signal' = AfterFlush
        /\ UNCHANGED asleep
     \/ /\ cached_thread_count > 0
        /\ kill_cached_threads' = kill_cached_threads + (IF flush_waits THEN 0 ELSE 1)
        /\ flush_waits' = TRUE
        /\ asleep' = (asleep \ Cached) \cup {SignalThread}
        /\ UNCHANGED signal
  /\ UNCHANGED <<main, incoming, poolVars, thdVars, thread_count, cached_thread_count,
                 wake_thread, flags, pending>>

\* mutant: does not wait for main
WaitSelect_Not ==
  /\ signal = "select" /\ signal' = "tell"
  /\ UNCHANGED <<main, incoming, flush_waits, poolVars, thdVars, counts, flags, pending, asleep>>

\* close_connections: interrupt main's select(), again every two seconds
WaitSelect ==
  /\ signal = "select"
  /\ \/ ~ select_thread_in_use /\ signal' = "tell" /\ UNCHANGED main
     \/ /\ select_thread_in_use /\ UNCHANGED signal
        /\ main' = IF main = "select" THEN "loop" ELSE main
  /\ UNCHANGED <<incoming, flush_waits, poolVars, thdVars, counts, flags, pending, asleep>>

\* close_connections, first loop: thd->killed
TellThreads ==
  /\ signal = "tell" /\ signal' = "force"
  /\ killed' = [c \in Connections |-> IF c \in threads THEN "told" ELSE killed[c]]
  /\ UNCHANGED <<main, incoming, flush_waits, poolVars, thd, thread_cache, threads, counts,
                 flags, pending, asleep>>

\* close_connections, second loop: take a THD from the list and close its vio
ForceClose ==
  /\ signal = "force"
  /\ \/ /\ threads = {} /\ signal' = "drain"
        /\ UNCHANGED <<killed, threads>>
     \/ \E c \in threads :
          /\ threads' = threads \ {c} /\ killed' = [killed EXCEPT ![c] = "closed"]
          /\ UNCHANGED signal
  /\ UNCHANGED <<main, incoming, flush_waits, poolVars, thd, thread_cache, counts, flags,
                 pending, asleep>>

Drained == thread_count = 0

\* while (thread_count) pthread_cond_wait(&COND_thread_count, ...)
Drain ==
  /\ signal = "drain" /\ SignalThread \notin asleep
  /\ \/ Drained /\ signal' = "cleanup" /\ UNCHANGED asleep
     \/ ~ Drained /\ asleep' = asleep \cup {SignalThread} /\ UNCHANGED signal
  /\ UNCHANGED <<main, incoming, flush_waits, poolVars, thdVars, counts, flags, pending>>

\* unireg_end, clean_up: "Tell main we are ready"
CleanUp ==
  /\ signal = "cleanup" /\ signal' = "gone"
  /\ ready_to_exit' = TRUE
  /\ asleep' = asleep \ CountWaiters
  /\ UNCHANGED <<main, incoming, flush_waits, poolVars, thdVars, counts, abort_loop,
                 shutdown_in_progress, select_thread_in_use, pending>>

-----------------------------------------------------------------------------
\* what each thread does without waiting for a client or a signal from outside
MainRuns ==
  \/ TestAbort \/ CheckConnection \/ QueueThd \/ (\E t \in Threads : CreateThread(t))
  \/ CreateFails \/ DeleteThd \/ LeaveSelect \/ TellLeft \/ WaitReady \/ DestroyMutexes
  \/ Exit

SignalRuns ==
  \/ TakeTerm \/ TakeHup \/ KillCached \/ FlushThreadCache \/ WaitSelect \/ TellThreads
  \/ ForceClose \/ Drain \/ CleanUp

\* a closed connection makes the read of its thread fail
Hangup(t) == serves[t] # NoThd /\ killed[serves[t]] = "closed" /\ EndOfConnection(t)

ThreadRuns(t) ==
  \/ Hangup(t) \/ EndThreadIdle(t) \/ EndThreadNext(t) \/ EndThreadExit(t)
  \/ CacheSleep(t) \/ TakeThd(t) \/ CacheLeave(t) \/ TellDeath(t)

Clients ==
  \/ NoConnection \/ \E c \in Connections : NewConnection(c)
  \/ \E t \in Threads : EndOfConnection(t) \/ KillMysql(t)
  \/ \E s \in {"TERM", "HUP"} : SendSignal(s)

\* POSIX allows pthread_cond_wait to return without a signal
SpuriousWakeup ==
  \E t \in asleep :
    /\ asleep' = asleep \ {t}
    /\ UNCHANGED <<main, incoming, sigVars, poolVars, thdVars, counts, flags, pending>>

Next ==
  \/ /\ main # "exited"
     /\ MainRuns \/ SignalRuns \/ Clients \/ SpuriousWakeup \/ \E t \in Threads : ThreadRuns(t)
  \/ main = "exited" /\ UNCHANGED vars

Spec == Init /\ [][Next]_vars

Running(A) == main # "exited" /\ A

\* the threads are scheduled; clients and signals come or do not
FairSpec ==
  /\ Spec /\ WF_vars(Running(MainRuns)) /\ WF_vars(Running(SignalRuns))
  /\ \A t \in Threads : WF_vars(Running(ThreadRuns(t)))

-----------------------------------------------------------------------------
(***************************************************************************)
(* Properties                                                              *)
(***************************************************************************)
MainPlaces   == {"loop", "select", "check", "create", "failed", "leave", "broadcast",
                 "wait", "finish", "destroyed", "exited"}
SignalPlaces == {"sigwait", "hup", "close", "clear", "select", "tell", "force", "drain",
                 "cleanup", "gone"}

TypeOK ==
  /\ main \in MainPlaces /\ signal \in SignalPlaces
  /\ incoming \in Connections \cup {NoThd} /\ flush_waits \in BOOLEAN
  /\ pc \in [Threads -> {"none", "serving", "ending", "cached", "unlocked"}]
  /\ serves \in [Threads -> Connections \cup {NoThd}]
  /\ thd \in [Connections -> {"none", "new", "queued", "run"}]
  /\ killed \in [Connections -> {"no", "told", "closed"}]
  /\ thread_cache \in Seq(Connections) /\ threads \subseteq Connections
  /\ thread_count \in Nat /\ cached_thread_count \in Nat
  /\ wake_thread \in Nat /\ kill_cached_threads \in Nat
  /\ abort_loop \in BOOLEAN /\ shutdown_in_progress \in BOOLEAN
  /\ select_thread_in_use \in BOOLEAN /\ ready_to_exit \in BOOLEAN
  /\ pending \subseteq {"TERM", "HUP"}
  /\ asleep \subseteq Threads \cup {MainThread, SignalThread}

\* The counters agree with what they count, whichever of main, the signal
\* thread and end_thread changed them last: THDs in a queue or with a thread,
\* idle threads, queued THDs.
CountersAgree ==
  /\ thread_count = Cardinality({c \in Connections : thd[c] \in {"queued", "run"}})
  /\ cached_thread_count = Cardinality(Cached)
  /\ wake_thread = Len(thread_cache)

\* A THD has one thread or one place in the queue: two idle threads that are
\* woken for two THDs, while a third takes one of them, never share one.
OneThreadPerThd ==
  /\ \A t, u \in Threads : t # u /\ serves[t] = serves[u] => serves[t] = NoThd
  /\ \A i, j \in 1 .. Len(thread_cache) : thread_cache[i] = thread_cache[j] => i = j
  /\ \A t \in Threads, i \in 1 .. Len(thread_cache) : serves[t] # thread_cache[i]

\* No wakeup is lost: there are always as many idle threads awake as there are
\* THDs in the queue, although others take THDs that a thread was woken for.
NoLostWakeup == wake_thread <= Cardinality(Cached \ asleep)

\* create_new_thread reads thread_count without the lock, and end_thread and the
\* flush change what it read: the limits on connections and on idle threads hold.
LimitsHold ==
  thread_count <= MaxConnections + 1 /\ cached_thread_count <= ThreadCacheSize

\* Once close_connections has forced the connections shut, no THD is left over
\* in the queue, with main, or with a thread whose client is still connected.
NobodyForgotten ==
  signal \in {"drain", "cleanup", "gone"} =>
    \A c \in Connections :
      thd[c] = "none" \/ (thd[c] = "run" /\ killed[c] = "closed")

\* clean_up_mutexes destroys LOCK_thread_count only when nobody takes it any more.
LockOutlivesThreads ==
  main = "destroyed" =>
    /\ signal = "gone"
    /\ \A t \in Threads : pc[t] \in {"none", "unlocked"}

\* end_thread: a queued THD gets a thread, although threads that end their
\* connection later may take THDs that others were woken for.
Served(c) == thd[c] = "queued" ~> thd[c] = "run"

\* A shutdown that has begun ends: no wait of close_connections, of main or of
\* an idle thread is for ever, wherever the clients and threads are.
ShutdownCompletes == abort_loop ~> main = "exited"
=============================================================================
