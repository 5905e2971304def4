--------------------------- MODULE MCInnoChecksum ---------------------------
(* A file of two pages, for TLC: every combination of LSNs that agree or not, *)
(* a new checksum that is missing, right or of another LSN, and an old one    *)
(* that is right, of another LSN or of another new checksum.                  *)
EXTENDS InnoChecksum

MCLsns == {1, 2}

NewOf(i) == {<<>>, <<1, i>>, <<2, i>>}

MCFirstPages ==
  {b \in [lsn : {1}, end_lsn : MCLsns, new : NewSums, old : OldSums, body : Pages] :
     b.new \in NewOf(b.body) /\ b.old[2] \in {b.new, <<>>}}

MCFaults == RunFaultKinds
=============================================================================
