---------------------------- MODULE MCEmailLinks ----------------------------
(* EmailLinks on a small instance: rows, addresses and requests are model  *)
(* values, interchangeable within each set.                                *)
EXTENDS EmailLinks, TLC

Symmetry == Permutations(Ident) \cup Permutations(Address)
              \cup Permutations(Link) \cup Permutations(Req)
=============================================================================
