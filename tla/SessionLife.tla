---------------------------- MODULE SessionLife ----------------------------
(***************************************************************************)
(* What the session store promises, without clocks, copies or upserts.     *)
(*                                                                         *)
(* The life of a session id: unborn, then open while the request that      *)
(* generated it still runs, then settled for ever.  Only an open id may    *)
(* get a row in the table.  A settled id can only lose its row, and never  *)
(* gets it back: a revocation is final.  An open id carries no such        *)
(* promise, since the request that made it writes its row "as many times   *)
(* as the request saves it" (src/src/helpers/SessionStore.js:73).          *)
(***************************************************************************)

CONSTANT Uid   \* session ids

VARIABLES
  phase,   \* [Uid -> {"unborn", "open", "settled"}]
  stored   \* the ids that have a row in the table

Phase == {"unborn", "open", "settled"}

Init ==
  /\ phase = [u \in Uid |-> "unborn"]
  /\ stored = {}

\* u goes from one phase to the other.
Moves(u, from, to) == phase[u] = from /\ phase'[u] = to

(* One statement may delete many rows, and the end of a request settles    *)
(* its id while it writes the row: what a step does to each id is free,    *)
(* within the life of an id, except that a row appears for an open id only.*)
Next ==
  /\ phase' \in [Uid -> Phase]
  /\ stored' \in SUBSET Uid
  /\ \A u \in Uid : \/ phase'[u] = phase[u]
                   \/ Moves(u, "unborn", "open")
                   \/ Moves(u, "open", "settled")
  /\ \A u \in stored' \ stored : phase[u] = "open"

Spec == Init /\ [][Next]_<<phase, stored>>
=============================================================================
