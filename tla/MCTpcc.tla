------------------------------- MODULE MCTpcc -------------------------------
(***************************************************************************)
(* Tpcc with two threads and two districts, of which one has an order to   *)
(* deliver, and with orders of up to two lines.                            *)
(***************************************************************************)
EXTENDS Tpcc, TLC

OneAndNone == <<1, 0>>
Symmetry == Permutations(Threads) \cup Permutations(Items)
=============================================================================
