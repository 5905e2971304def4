--------------------------- MODULE MCReplication ---------------------------
(***************************************************************************)
(* ReplicationSetup with two threads, one with an empty file, against a    *)
(* master with one transaction, of which the slave holds a copy or not.    *)
(***************************************************************************)
EXTENDS ReplicationSetup

EmptyAndTwo == <<0, 2>>
OneBefore == <<<<Others, 1>>>>
=============================================================================
