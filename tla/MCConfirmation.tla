--------------------------- MODULE MCConfirmation ---------------------------
(* Confirmation on a small instance: requests and the counted ways are     *)
(* interchangeable model values.                                           *)
EXTENDS Confirmation, TLC

Symmetry == Permutations(Req) \cup Permutations(Counted)
=============================================================================
