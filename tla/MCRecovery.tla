----------------------------- MODULE MCRecovery -----------------------------
(* Recovery on a small instance: rows and requests are model values.       *)
EXTENDS Recovery, TLC

Symmetry == Permutations(Sid) \cup Permutations(Link) \cup Permutations(Req)
=============================================================================
