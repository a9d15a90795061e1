------------------------------ MODULE CodeLife ------------------------------
(***************************************************************************)
(* What a row with a code and a link promises, without requests, budgets   *)
(* or clocks.                                                              *)
(*                                                                         *)
(* A code is unborn, then out, then over for good: it took effect, or was  *)
(* revoked.  It takes effect in the very step that ends it, so at most     *)
(* once and never after a revocation; and it is compared with no more      *)
(* guesses than its cap, each of them counted.  A guess that was let in    *)
(* may be compared with a code that is over by then: it only cannot take   *)
(* effect.                                                                 *)
(***************************************************************************)
EXTENDS Naturals

CONSTANTS
  Code,  \* the codes ever mailed
  Cap    \* guesses a code takes

VARIABLES
  life,     \* [Code -> Phase]
  guesses,  \* [Code -> guesses compared with it]
  effects   \* [Code -> times it, or its link, took effect]

Phase == {"unborn", "out", "over"}

Init ==
  /\ life = [c \in Code |-> "unborn"]
  /\ guesses = [c \in Code |-> 0]
  /\ effects = [c \in Code |-> 0]

\* c goes from one phase to the other.
Goes(c, from, to) == life[c] = from /\ life'[c] = to

\* One statement may end many rows, and it is left open which; one guess at
\* most is compared, one code at most takes effect.
Next ==
  /\ life' \in [Code -> Phase]
  /\ \A c \in Code : life'[c] = life[c] \/ Goes(c, "unborn", "out") \/ Goes(c, "out", "over")
  /\ \/ guesses' = guesses
     \/ \E c \in Code : /\ life[c] # "unborn" /\ guesses[c] < Cap
                        /\ guesses' = [guesses EXCEPT ![c] = @ + 1]
  /\ \/ effects' = effects
     \/ \E c \in Code : /\ Goes(c, "out", "over")
                        /\ effects' = [effects EXCEPT ![c] = @ + 1]

Spec == Init /\ [][Next]_<<life, guesses, effects>>
=============================================================================
