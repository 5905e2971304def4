-------------------------- MODULE MCServerThreads --------------------------
(***************************************************************************)
(* ServerThreads with three connections, three threads, a limit that lets  *)
(* two of the connections in, and room for two idle threads.               *)
(***************************************************************************)
EXTENDS ServerThreads

CONSTANT Watched   \* one of the connections

\* A THD that create_new_thread has queued for an idle thread is served.  No
\* action tells connections apart, so it is enough to watch one of them.
QueueIsServed == Served(Watched)
=============================================================================
