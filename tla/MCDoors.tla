------------------------------ MODULE MCDoors -------------------------------
(* Doors on a small instance; addresses and requests are alike. *)
EXTENDS Doors, TLC

Symmetry == Permutations(Addr) \cup Permutations(Req)
=============================================================================
