----------------------------- MODULE Ownership ------------------------------
(***************************************************************************)
(* Whom what a person signs in with belongs to: confirmed addresses and    *)
(* accounts at a provider, without rows, requests, links or mailboxes.     *)
(*                                                                         *)
(* A value belongs to one account at most.  It comes to an account only    *)
(* while it is nobody's, and leaves it only while that very account gives  *)
(* something up: no statement moves it from one account to another, and    *)
(* none takes it off an account that did not ask.                          *)
(***************************************************************************)
CONSTANTS
  Value,  \* addresses and accounts at the provider
  User    \* ids of users

VARIABLES
  held,    \* the pairs <<v, u>> of a value and the account it belongs to
  leaving  \* the accounts that are giving something up

Init ==
  /\ held = {}
  /\ leaving = {}

Nobodys(v) == \A u \in User : <<v, u>> \notin held

\* Values that are nobody's come to u.
Claim(u, values) ==
  /\ \A v \in values : Nobodys(v)
  /\ held' = held \cup (values \X {u})

\* One that is its own leaves u.
Yield(u, v) ==
  /\ u \in leaving
  /\ <<v, u>> \in held
  /\ held' = held \ {<<v, u>>}

Next ==
  /\ leaving' \in SUBSET User
  /\ \/ \E u \in User, values \in SUBSET Value : Claim(u, values)
     \/ \E u \in User, v \in Value : Yield(u, v)
     \/ UNCHANGED held

Spec == Init /\ [][Next]_<<held, leaving>>
=============================================================================
