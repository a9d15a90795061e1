--------------------------- MODULE MCSessionStore ---------------------------
(* SessionStore on a small instance: ids, requests and users are model     *)
(* values, interchangeable within each set.                                *)
EXTENDS SessionStore, TLC

Symmetry == Permutations(Uid) \cup Permutations(Req) \cup Permutations(User)
=============================================================================
