---------------------------- MODULE MCIdentities ----------------------------
(* Identities on a small instance: rows, addresses and requests are model  *)
(* values, interchangeable within each set.                                *)
EXTENDS Identities, TLC

Symmetry == Permutations(User) \cup Permutations(Ident) \cup Permutations(Link)
              \cup Permutations(Req) \cup Permutations(Address)
=============================================================================
