------------------------------ MODULE WsLease -------------------------------
(***************************************************************************)
(* The open WebSockets of one process, and the checks that end them with   *)
(* the session or the token they came in with (make_ws_lease).             *)
(*                                                                         *)
(* A check takes a list of the sockets, looks their credentials up in two  *)
(* tables, and destroys those it found no row for; sockets come, go and    *)
(* lose their credential while it waits for the database.                  *)
(***************************************************************************)
EXTENDS Naturals

CONSTANTS
  Socket,       \* upgrade requests
  Session,      \* credentials kept in sessions
  Pat,          \* credentials kept in personal_access_tokens
  None,         \* no credential
  MaxFailures   \* bound of the checks the database fails

Cred == Session \cup Pat

ASSUME WsLeaseAssumption ==
  /\ Session \cap Pat = {}
  /\ None \notin Cred
  /\ MaxFailures \in Nat

VARIABLES
  live,       \* credentials whose row is there and whose account may pass
  cred,       \* [Socket -> Cred \cup {None}]: what an upgrade came with
  handler,    \* [Socket -> the step of its upgrade handler]
  closed,     \* sockets whose "close" was emitted
  destroyed,  \* sockets the check destroyed
  entries,    \* the map of make_ws_lease: sockets it knows
  timer,      \* whether the interval is set
  running,    \* "no", or the step the running check is at
  again,      \* whether another was asked for meanwhile
  list,       \* what the running check took from entries
  found,      \* the credentials it found so far
  finishing,  \* credentials whose revoking request has not ended
  promised,   \* history: sockets whose end a finished request asked for
  failures    \* how many checks failed

socket_vars == <<cred, handler, closed>>
check_vars == <<running, again, list, found>>
vars == <<live, cred, handler, closed, destroyed, entries, timer, running,
          again, list, found, finishing, promised, failures>>

-----------------------------------------------------------------------------

Init ==
  /\ live = Cred
  /\ cred = [s \in Socket |-> None]
  /\ handler = [s \in Socket |-> "none"]
  /\ closed = {}
  /\ destroyed = {}
  /\ entries = {}
  /\ timer = FALSE
  /\ running = "no"
  /\ again = FALSE
  /\ list = {}
  /\ found = {}
  /\ finishing = {}
  /\ promised = {}
  /\ failures = 0

-----------------------------------------------------------------------------
(* Upgrades                                                                *)

\* An upgrade comes in, and its credential is found and let in.
Authenticate(s, c) ==
  /\ handler[s] = "none"
  /\ c \in live
  /\ cred' = [cred EXCEPT ![s] = c]
  /\ handler' = [handler EXCEPT ![s] = "admitted"]
  /\ UNCHANGED <<live, closed, destroyed, entries, timer, check_vars,
                 finishing, promised, failures>>

\* Mutant of Add: only the first socket a process sees sets the timer.
AddOnce(s) ==
  /\ handler[s] = "admitted"
  /\ handler' = [handler EXCEPT ![s] = "proxied"]
  /\ entries' = entries \cup {s}
  /\ timer' = (timer \/ \A q \in Socket : handler[q] # "proxied")
  /\ UNCHANGED <<live, cred, closed, destroyed, check_vars, finishing,
                 promised, failures>>

\* Its session's row was touched since; add() takes the socket in, whether
\* its client has left by now or not.
Add(s) ==
  /\ handler[s] = "admitted"
  /\ handler' = [handler EXCEPT ![s] = "proxied"]
  /\ entries' = entries \cup {s}
  /\ timer' = TRUE
  /\ UNCHANGED <<live, cred, closed, destroyed, check_vars, finishing,
                 promised, failures>>

\* "close": the client or the upstream left, or the check destroyed it.  The
\* listener is only there once add() ran.
Close(s) ==
  /\ handler[s] # "none"
  /\ s \notin closed
  /\ closed' = closed \cup {s}
  /\ entries' = entries \ {s}
  /\ timer' = (timer /\ (s \in entries => entries' # {}))
  /\ UNCHANGED <<live, cred, handler, destroyed, check_vars, finishing,
                 promised, failures>>

-----------------------------------------------------------------------------
(* Credentials                                                             *)

\* A request under /auth revokes a credential.
Revoke(c) ==
  /\ c \in live
  /\ live' = live \ {c}
  /\ finishing' = finishing \cup {c}
  /\ UNCHANGED <<socket_vars, destroyed, entries, timer, check_vars,
                 promised, failures>>

\* One expires, or is revoked by another process or in the database.
Lapse(c) ==
  /\ c \in live
  /\ live' = live \ {c}
  /\ UNCHANGED <<socket_vars, destroyed, entries, timer, check_vars,
                 finishing, promised, failures>>

-----------------------------------------------------------------------------
(* Checks                                                                  *)

\* A check starts with the sockets there are, if there are any.
Start ==
  IF entries = {}
  THEN running' = "no" /\ list' = {} /\ found' = {}
  ELSE running' = "sessions" /\ list' = entries /\ found' = {}

\* Mutant of Check: one asked for while another runs is dropped.
CheckDropped ==
  IF running # "no"
  THEN UNCHANGED <<running, again, list, found>>
  ELSE Start /\ UNCHANGED again

\* check(): one at a time; those asked for meanwhile are one more.
Check ==
  IF running # "no"
  THEN /\ again' = (again \/ entries # {})
       /\ UNCHANGED <<running, list, found>>
  ELSE Start /\ UNCHANGED again

\* The response of a revoking request is finished.
Finish(c) ==
  /\ c \in finishing
  /\ finishing' = finishing \ {c}
  /\ Check
  /\ promised' = promised \cup {s \in entries : cred[s] = c}
  /\ UNCHANGED <<live, socket_vars, destroyed, entries, timer, failures>>

\* Its connection breaks first: "finish" is never emitted.
Break(c) ==
  /\ c \in finishing
  /\ finishing' = finishing \ {c}
  /\ UNCHANGED <<live, socket_vars, destroyed, entries, timer, check_vars,
                 promised, failures>>

\* The lease timer fires.
TimerFires ==
  /\ timer
  /\ Check
  /\ UNCHANGED <<live, socket_vars, destroyed, entries, timer, finishing,
                 promised, failures>>

\* Mutant of ReadSessions: the row's expiry and deadline are not looked at.
ReadSessionsUnexpired ==
  /\ running = "sessions"
  /\ running' = "pats"
  /\ found' = {cred[s] : s \in list} \cap Session
  /\ UNCHANGED <<live, socket_vars, destroyed, entries, timer, again, list,
                 finishing, promised, failures>>

\* check_now(): the sessions among the list's credentials are read ...
ReadSessions ==
  /\ running = "sessions"
  /\ running' = "pats"
  /\ found' = {cred[s] : s \in list} \cap live \cap Session
  /\ UNCHANGED <<live, socket_vars, destroyed, entries, timer, again, list,
                 finishing, promised, failures>>

\* ... then the tokens ...
ReadPats ==
  /\ running = "pats"
  /\ running' = "decide"
  /\ found' = found \cup ({cred[s] : s \in list} \cap live \cap Pat)
  /\ UNCHANGED <<live, socket_vars, destroyed, entries, timer, again, list,
                 finishing, promised, failures>>

\* The check is over: run the one asked for meanwhile.
Over ==
  /\ again' = FALSE
  /\ IF again THEN Start ELSE running' = "no" /\ list' = {} /\ found' = {}

\* Mutant of Decide: the sockets are those known by now.
DecideOnEntries ==
  /\ running = "decide"
  /\ destroyed' = destroyed \cup {s \in entries : cred[s] \notin found}
  /\ Over
  /\ UNCHANGED <<live, socket_vars, entries, timer, finishing, promised, failures>>

\* ... and the sockets of the others are destroyed.
Decide ==
  /\ running = "decide"
  /\ destroyed' = destroyed \cup {s \in list : cred[s] \notin found}
  /\ Over
  /\ UNCHANGED <<live, socket_vars, entries, timer, finishing, promised, failures>>

\* A read fails: the check is logged and given up.
Fail ==
  /\ running # "no"
  /\ failures < MaxFailures
  /\ failures' = failures + 1
  /\ Over
  /\ promised' = promised \ (IF again THEN {} ELSE list)
  /\ UNCHANGED <<live, socket_vars, destroyed, entries, timer, finishing>>

Next ==
  \/ \E s \in Socket, c \in Cred : Authenticate(s, c)
  \/ \E s \in Socket : Add(s)
  \/ \E s \in Socket : Close(s)
  \/ \E c \in Cred : Revoke(c)
  \/ \E c \in Cred : Lapse(c)
  \/ \E c \in Cred : Finish(c)
  \/ \E c \in Cred : Break(c)
  \/ TimerFires
  \/ ReadSessions
  \/ ReadPats
  \/ Decide
  \/ Fail

\* The timer fires while it is set, queries are answered, and a socket that
\* was destroyed emits "close".
Fairness ==
  /\ WF_vars(TimerFires)
  /\ WF_vars(ReadSessions)
  /\ WF_vars(ReadPats)
  /\ WF_vars(Decide)
  /\ \A s \in Socket : WF_vars(s \in destroyed /\ Close(s))

Spec == Init /\ [][Next]_vars /\ Fairness

-----------------------------------------------------------------------------
(* Properties                                                              *)

\* The types of the sockets, the map and the check; no check is left asked for
\* when none runs.
TypeOK ==
  /\ live \subseteq Cred
  /\ cred \in [Socket -> Cred \cup {None}]
  /\ handler \in [Socket -> {"none", "admitted", "proxied"}]
  /\ closed \subseteq Socket
  /\ destroyed \subseteq Socket
  /\ entries \subseteq Socket
  /\ timer \in BOOLEAN
  /\ running \in {"no", "sessions", "pats", "decide"}
  /\ again \in BOOLEAN
  /\ list \subseteq Socket
  /\ found \subseteq Cred
  /\ running = "no" => ~again /\ list = {}
  /\ finishing \subseteq Cred
  /\ promised \subseteq Socket
  /\ failures \in 0..MaxFailures

\* The timer runs while any socket is known: no socket outlives the lease
\* unseen (the listener of "close" clears it, add() sets it).
TimerCoversEntries == entries # {} => timer

\* No check ever ends a socket whose credential is good, whatever came in or
\* was revoked while it waited for the database.
OnlyDeadAreDestroyed == \A s \in destroyed : cred[s] \notin live

\* Coalescing loses no check: a socket whose credential a finished request
\* revoked is ended, or a check that has not looked it up yet will.
NoCheckIsLost ==
  \A s \in promised \ (closed \cup destroyed) :
    \/ again
    \/ running # "no" /\ s \in list /\ cred[s] \notin found

\* Every socket whose credential is gone is closed in the end, however it was
\* lost, while the database answers again some day.
DeadSocketsEnd ==
  \A s \in Socket :
    s \in entries /\ cred[s] \notin live ~> s \in closed
=============================================================================
