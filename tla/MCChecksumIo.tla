---------------------------- MODULE MCChecksumIo ----------------------------
(* Two threads with a page each, for TLC. *)
EXTENDS ChecksumIo

MCBytes == {0, 1}
MCFaults == FaultKinds
=============================================================================
