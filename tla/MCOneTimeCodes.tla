--------------------------- MODULE MCOneTimeCodes ---------------------------
(* OneTimeCodes on a small instance; requests are alike. *)
EXTENDS OneTimeCodes, TLC

Symmetry == Permutations(Req)
=============================================================================
