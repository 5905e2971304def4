---------------------------- MODULE ClientReplay ----------------------------
(***************************************************************************)
(* mysql_client_simulator.py: one thread and one connection per log file;  *)
(* a thread sends the rows of its file one after the other and repeats a   *)
(* row that was not taken.                                                 *)
(*                                                                         *)
(* The server, the network and MySQLdb are external.  A row is one         *)
(* transaction (autocommit) named <<thread, row>>; the server may carry it *)
(* out although the connection, and with it the answer, is lost.           *)
(***************************************************************************)
EXTENDS Integers, Sequences, SequencesExt

CONSTANTS
  Parallel,      \* number of threads and files, argv[1]
  Rows,          \* the number of rows of each thread's file
  MaxRefusals,   \* bound: how often the server refuses a row (deadlock, lock wait)
  Before         \* what is in the binlog when the client starts

Clients == 1..Parallel
Others  == 0    \* in place of the thread, for what another client wrote

ASSUME ClientsAssumption ==
  /\ Parallel \in Nat \ {0} /\ MaxRefusals \in Nat
  /\ Rows \in [Clients -> Nat] /\ Before \in Seq({Others} \X Nat)

VARIABLES
  binlog,        \* external: transactions in the order the master commits them
  request,       \* external: what the server did with a thread's last statement
  refusals,      \* external: how often it has refused one
  link,          \* external: the connection, "lost" for good or none at all
  thread,        \* where each thread is; "connect" is main working on its behalf
  retry,         \* the counter of the call of conn_mysql that main is in
  row            \* the row the thread is at

clientVars == <<binlog, request, refusals, link, thread, retry, row>>
-----------------------------------------------------------------------------
(***************************************************************************)
(* main and conn_mysql: the connections are opened one after the other.    *)
(* After three failures the number 1 is handed to the thread instead.      *)
(***************************************************************************)
IsNext(c) == \A d \in 1..(c - 1) : thread[d] # "connect"

LastTry == retry = 2

Connect(c) ==
  /\ thread[c] = "connect" /\ IsNext(c)
  /\ \/ /\ link' = [link EXCEPT ![c] = "up"]
        /\ thread' = [thread EXCEPT ![c] = "run"]
        /\ retry' = 0
     \/ /\ ~LastTry
        /\ retry' = retry + 1
        /\ UNCHANGED <<link, thread>>
     \/ /\ LastTry
        /\ retry' = 0
        /\ thread' = [thread EXCEPT ![c] = "run"]
        /\ UNCHANGED link
  /\ UNCHANGED <<binlog, request, refusals, row>>

(***************************************************************************)
(* run and exec_sql.  cursor() of the number 1 raises, and so may          *)
(* autocommit(1) on a connection that is lost: neither is caught, and the  *)
(* thread ends.  When autocommit has nothing to send, execute fails        *)
(* instead, exec_sql returns 1, and the row is tried again.                *)
(***************************************************************************)
ExecSql(c) ==
  /\ thread[c] = "run" /\ row[c] <= Rows[c] /\ link[c] = "up"
  /\ thread' = [thread EXCEPT ![c] = "wait"]
  /\ request' = [request EXCEPT ![c] = "sent"]
  /\ UNCHANGED <<binlog, refusals, link, retry, row>>

Raise(c) ==
  /\ thread[c] = "run" /\ row[c] <= Rows[c] /\ link[c] # "up"
  /\ thread' = [thread EXCEPT ![c] = "dead"]
  /\ UNCHANGED <<binlog, request, refusals, link, retry, row>>

\* mutant: MySQLdb.Error is not caught
AfterError_Raised == "dead"

\* execute raised MySQLdb.Error: 1 is returned, and the row is tried again
AfterError == "run"

\* execute came back, with or without a warning, or raised the server's error
Answered(c) ==
  /\ thread[c] = "wait" /\ link[c] = "up" /\ request[c] \in {"taken", "refused"}
  /\ LET taken == request[c] = "taken"
     IN  /\ thread' = [thread EXCEPT ![c] = IF taken THEN "run" ELSE AfterError]
         /\ row' = [row EXCEPT ![c] = IF taken THEN @ + 1 ELSE @]
  /\ request' = [request EXCEPT ![c] = "none"]
  /\ UNCHANGED <<binlog, refusals, link, retry>>

\* mutant: a new connection for the next try
LinkAfterLoss_Reopened == "up"

\* execute raised because the connection was lost: it is kept, and stays lost
LinkAfterLoss == "lost"

Unanswered(c) ==
  /\ thread[c] = "wait" /\ link[c] = "lost"
  /\ thread' = [thread EXCEPT ![c] = AfterError]
  /\ link' = [link EXCEPT ![c] = LinkAfterLoss]
  /\ UNCHANGED <<binlog, request, refusals, retry, row>>

EndOfLog(c) ==
  /\ thread[c] = "run" /\ row[c] > Rows[c]
  /\ thread' = [thread EXCEPT ![c] = "done"]
  /\ UNCHANGED <<binlog, request, refusals, link, retry, row>>
-----------------------------------------------------------------------------
(***************************************************************************)
(* The server and the network                                              *)
(***************************************************************************)
Take(c) ==
  /\ request[c] = "sent"
  /\ binlog' = Append(binlog, <<c, row[c]>>)
  /\ request' = [request EXCEPT ![c] = "taken"]
  /\ UNCHANGED <<refusals, link, thread, retry, row>>

Refuse(c) ==
  /\ request[c] = "sent" /\ refusals < MaxRefusals
  /\ request' = [request EXCEPT ![c] = "refused"]
  /\ refusals' = refusals + 1
  /\ UNCHANGED <<binlog, link, thread, retry, row>>

LoseLink(c) ==
  /\ link[c] = "up" /\ thread[c] \in {"run", "wait"}
  /\ link' = [link EXCEPT ![c] = "lost"]
  /\ UNCHANGED <<binlog, request, refusals, thread, retry, row>>

ClientInit ==
  /\ binlog = Before
  /\ request = [c \in Clients |-> "none"] /\ refusals = 0
  /\ link = [c \in Clients |-> "none"]
  /\ thread = [c \in Clients |-> "connect"]
  /\ retry = 0 /\ row = [c \in Clients |-> 1]

Proceed(c) == \/ Connect(c) \/ ExecSql(c) \/ Raise(c)
              \/ Answered(c) \/ Unanswered(c) \/ EndOfLog(c)

ClientNext == \E c \in Clients : Proceed(c) \/ Take(c) \/ Refuse(c) \/ LoseLink(c)
-----------------------------------------------------------------------------
\* Where the transactions of a thread are in the binlog.
Replayed(c) == {k \in 1..Len(binlog) : binlog[k][1] = c}

\* What a thread has got through is in the binlog, in the order of its file,
\* and no row is there twice although rows are sent again: only the row that
\* the thread is at may be there already, when the answer to it is missing.
LogsInOrder ==
  \A c \in Clients :
    /\ \A j, k \in Replayed(c) : j < k => binlog[j][2] < binlog[k][2]
    /\ {binlog[k][2] : k \in Replayed(c)} \in {1..(row[c] - 1), 1..row[c]}

\* A thread whose connection holds gets through its file, whatever becomes of
\* the others, as long as the server does not refuse the same row for ever.
LogsReplayed ==
  \A c \in Clients : (<>[](link[c] = "up")) => <>(thread[c] = "done")
=============================================================================
