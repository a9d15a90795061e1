-------------------------------- MODULE Doors -------------------------------
(***************************************************************************)
(* The doors of one process to one account: browser requests (the proxy,   *)
(* the sidecar, the pages under /auth), WebSocket upgrades, bearer tokens  *)
(* and the lease of open sockets.  Each asks whether the access rules      *)
(* admit the account, which the process remembers, and whether the account *)
(* has a verified address, of which a session keeps a snapshot; meanwhile  *)
(* addresses come and go, and a restart brings other rules.                *)
(***************************************************************************)
EXTENDS Naturals

CONSTANTS
  Addr,         \* e-mail addresses
  Req,          \* requests running at once
  None,         \* no address
  MaxRestarts   \* bound of the restarts

ASSUME DoorsAssumption == None \notin Addr /\ MaxRestarts \in Nat

\* "http": the proxy, the sidecar and most of /auth; "fix": the paths of
\* /auth a user held at verification may use; "ws": an upgrade by session;
\* "token": a bearer token; "lease": a check of an open socket.
Door == {"http", "fix", "ws", "token", "lease"}

\* The doors a session comes to.
SessionDoor == {"http", "fix", "ws"}

VARIABLES
  denied,    \* addresses the access rules deny; none when there are no rules
  required,  \* config.confirm_email.required
  verified,  \* the account's verified addresses
  pending,   \* and those not verified yet
  changes,   \* addresses a change link is out for
  username,  \* whether the account has a username
  answer,    \* answers[account]: "none", "admitted" or "refused"
  snapshot,  \* whether the session's row has email_verified_at
  req,       \* [Req -> [door, pc, copy, got, addr, seen]]
  restarts,  \* how many there were
  old,       \* history: addresses pending, or in a link, at the last restart
  lost,      \* history: whether a denied address left since
  ever       \* history: whether the account was ever verified

config_vars == <<denied, required, restarts, old>>
account_vars == <<verified, pending, changes, username, ever, lost>>
vars == <<config_vars, account_vars, answer, snapshot, req>>

HasRules == denied # {}

\* What the account stands for, were it asked now.
Standing(v, d) ==
  {IF v = {} THEN "unverified" ELSE "verified",
   IF v \cap d = {} THEN "admitted" ELSE "refused"}

Idle == [door |-> "http", pc |-> "idle", copy |-> FALSE, got |-> "none",
         addr |-> None, seen |-> {}]

\* Every request that runs sees what the account becomes.
Witnessed(reqs, v, d) ==
  [r \in Req |-> IF reqs[r].pc \in {"rules", "asked", "verify"}
                 THEN [reqs[r] EXCEPT !.seen = @ \cup Standing(v, d)]
                 ELSE reqs[r]]

Init ==
  /\ denied \in SUBSET Addr
  /\ required \in BOOLEAN
  /\ verified = {}
  /\ pending \in {{x} : x \in Addr \ denied}
  /\ changes = {}
  /\ username \in BOOLEAN
  /\ answer = "none"
  /\ snapshot = FALSE
  /\ req = [r \in Req |-> Idle]
  /\ restarts = 0
  /\ old = {}
  /\ lost = FALSE
  /\ ever = FALSE

-----------------------------------------------------------------------------
(* Gates                                                                   *)

\* The gates of a door in their order, and what follows the first.
First(d) == IF d \in {"http", "fix"} THEN "rules" ELSE "verify"

\* Mutant of After: a door that asks the rules last forgets the second gate.
AfterOne(d, gate) == "passed"

After(d, gate) ==
  CASE gate = "rules" /\ d = "http" -> "verify"
    [] gate = "verify" /\ d # "http" -> "rules"
    [] OTHER -> "passed"

\* A request comes to a door, with a copy of the session's row if it has one.
Arrive(r, d) ==
  /\ req[r].pc = "idle"
  /\ req' = [req EXCEPT ![r] = [Idle EXCEPT !.door = d, !.pc = First(d),
                                   !.copy = snapshot, !.seen = Standing(verified, denied)]]
  /\ UNCHANGED <<config_vars, account_vars, answer, snapshot>>

\* Past a gate; the last one lets in, and what the copy learnt is saved.
Past(r, gate, copy) ==
  LET next == After(req[r].door, gate) IN
  /\ req' = [req EXCEPT ![r].pc = next, ![r].copy = copy]
  /\ snapshot' = IF next = "passed" /\ req[r].door \in SessionDoor
                 THEN snapshot \/ copy ELSE snapshot

Turned(r, how) ==
  /\ req' = [req EXCEPT ![r].pc = how]
  /\ UNCHANGED snapshot

\* account_access_refusal: there are no rules, or their answer is known.
RulesKnown(r) ==
  /\ req[r].pc = "rules"
  /\ HasRules => answer # "none"
  /\ IF HasRules /\ answer = "refused" THEN Turned(r, "refused") ELSE Past(r, "rules", req[r].copy)
  /\ UNCHANGED <<config_vars, account_vars, answer>>

\* It is not: the account's verified addresses are read ...
RulesAsk(r) ==
  /\ req[r].pc = "rules"
  /\ HasRules
  /\ answer = "none"
  /\ req' = [req EXCEPT ![r].pc = "asked",
                        ![r].got = IF verified \cap denied = {} THEN "admitted" ELSE "refused"]
  /\ UNCHANGED <<config_vars, account_vars, answer, snapshot>>

\* ... and the answer kept, whatever was kept meanwhile.
RulesKeep(r) ==
  /\ req[r].pc = "asked"
  /\ answer' = req[r].got
  /\ IF req[r].got = "refused" THEN Turned(r, "refused") ELSE Past(r, "rules", req[r].copy)
  /\ UNCHANGED <<config_vars, account_vars>>

\* Mutant of Verify: the snapshot alone decides.
VerifyCopy(r) ==
  /\ req[r].pc = "verify"
  /\ IF ~required \/ req[r].copy THEN Past(r, "verify", req[r].copy) ELSE Turned(r, "held")
  /\ UNCHANGED <<config_vars, account_vars, answer>>

\* The snapshot of a session says it is verified, or the addresses are read,
\* and the copy is healed.
Verify(r) ==
  LET copied == req[r].copy /\ req[r].door \in SessionDoor IN
  /\ req[r].pc = "verify"
  /\ CASE ~required \/ copied -> Past(r, "verify", req[r].copy)
       [] required /\ ~copied /\ verified # {} -> Past(r, "verify", TRUE)
       [] OTHER -> Turned(r, "held")
  /\ UNCHANGED <<config_vars, account_vars, answer>>

Leave(r) ==
  /\ req[r].pc \in {"passed", "held", "refused", "removing"}
  /\ req' = [req EXCEPT ![r] = Idle]
  /\ UNCHANGED <<config_vars, account_vars, answer, snapshot>>

-----------------------------------------------------------------------------
(* Addresses                                                               *)

\* The account's addresses become these.
Become(v, p, c, reqs) ==
  /\ verified' = v
  /\ pending' = p
  /\ changes' = c
  /\ ever' = (ever \/ v # {})
  /\ lost' = (lost \/ (verified \ v) \cap denied # {})
  /\ req' = Witnessed(reqs, v, denied)
  /\ UNCHANGED <<config_vars, username, answer>>

\* Mutant of Add: the rules are not asked.
AddAny(r, x) ==
  /\ req[r].pc = "passed" /\ req[r].door = "fix"
  /\ verified \cup pending = {}
  /\ Become(verified, {x}, changes, [req EXCEPT ![r] = Idle])
  /\ UNCHANGED snapshot

\* email_add_post: an account without an address gets one, if the rules
\* admit it.
Add(r, x) ==
  /\ req[r].pc = "passed" /\ req[r].door = "fix"
  /\ x \notin denied
  /\ verified \cup pending = {}
  /\ Become(verified, {x}, changes, [req EXCEPT ![r] = Idle])
  /\ UNCHANGED snapshot

\* A verification link is opened, or its code answered; the rules are not asked.
VerifyAddress(x) ==
  /\ x \in pending
  /\ Become(verified \cup {x}, pending \ {x}, changes, req)
  /\ UNCHANGED snapshot

\* A connect brings an address the provider verified, if the rules admit it.
Connect(x) ==
  /\ x \notin denied
  /\ x \notin verified
  /\ Become(verified \cup {x}, pending \ {x}, changes, req)
  /\ UNCHANGED snapshot

\* email_remove_post: whether the address may leave is decided ...
RemoveRead(r, x) ==
  /\ req[r].pc = "passed" /\ req[r].door = "fix"
  /\ x \in verified \cup pending
  /\ x \in verified => ~required /\ ~(HasRules /\ username)
  /\ req' = [req EXCEPT ![r].pc = "removing", ![r].addr = x]
  /\ UNCHANGED <<config_vars, account_vars, answer, snapshot>>

\* ... before it does; change links go with it.
RemoveCommit(r) ==
  LET x == req[r].addr IN
  /\ req[r].pc = "removing"
  /\ Become(verified \ {x}, pending \ {x}, {}, [req EXCEPT ![r] = Idle])
  /\ UNCHANGED snapshot

\* email_change_request_post; the approval of the primary address is left out.
ChangeRequest(r, x) ==
  /\ req[r].pc = "passed" /\ req[r].door = "http"
  /\ x \notin denied \cup verified \cup pending
  /\ verified \cup pending # {}
  /\ Become(verified, pending, changes \cup {x}, [req EXCEPT ![r] = Idle])
  /\ UNCHANGED snapshot

\* The change link is opened, by whoever has it; the rules are not asked.
ChangeConfirm(x) ==
  /\ x \in changes
  /\ x \notin verified \cup pending
  /\ \E y \in IF verified # {} THEN verified ELSE pending :
       Become((verified \ {y}) \cup {x}, pending \ {y}, {}, req)
  /\ UNCHANGED snapshot

\* A sign-in asks the rules of every verified address, and dates the snapshot.
SignIn ==
  /\ verified \cap denied = {}
  /\ snapshot' = (verified # {})
  /\ UNCHANGED <<config_vars, account_vars, answer, req>>

\* The process starts anew, with these rules; what it remembered is gone.
Restart(d, q) ==
  /\ restarts < MaxRestarts
  /\ restarts' = restarts + 1
  /\ denied' = d
  /\ required' = q
  /\ old' = pending \cup changes
  /\ lost' = FALSE
  /\ answer' = "none"
  /\ req' = [r \in Req |-> Idle]
  /\ UNCHANGED <<verified, pending, changes, username, ever, snapshot>>

Next ==
  \/ \E r \in Req, d \in Door : Arrive(r, d)
  \/ \E r \in Req : RulesKnown(r)
  \/ \E r \in Req : RulesAsk(r)
  \/ \E r \in Req : RulesKeep(r)
  \/ \E r \in Req : Verify(r)
  \/ \E r \in Req : Leave(r)
  \/ \E r \in Req, x \in Addr : Add(r, x)
  \/ \E x \in Addr : VerifyAddress(x)
  \/ \E x \in Addr : Connect(x)
  \/ \E r \in Req, x \in Addr : RemoveRead(r, x)
  \/ \E r \in Req : RemoveCommit(r)
  \/ \E r \in Req, x \in Addr : ChangeRequest(r, x)
  \/ \E x \in Addr : ChangeConfirm(x)
  \/ SignIn
  \/ \E d \in SUBSET Addr, q \in BOOLEAN : Restart(d, q)

Spec == Init /\ [][Next]_vars

-----------------------------------------------------------------------------
(* Properties                                                              *)

\* The types of the account, the session, the answer and the requests; no
\* address is both verified and pending, and a request that asked the rules
\* has an answer to keep.
TypeOK ==
  /\ denied \subseteq Addr
  /\ required \in BOOLEAN
  /\ verified \subseteq Addr
  /\ pending \subseteq Addr
  /\ verified \cap pending = {}
  /\ changes \subseteq Addr
  /\ username \in BOOLEAN
  /\ answer \in {"none", "admitted", "refused"}
  /\ snapshot \in BOOLEAN
  /\ req \in [Req -> [door : Door,
                      pc : {"idle", "rules", "asked", "verify", "passed", "held",
                            "refused", "removing"},
                      copy : BOOLEAN, got : {"none", "admitted", "refused"},
                      addr : Addr \cup {None},
                      seen : SUBSET {"verified", "unverified", "admitted", "refused"}]]
  /\ \A r \in Req : req[r].pc = "asked" => req[r].got # "none"
  /\ restarts \in 0..MaxRestarts
  /\ old \subseteq Addr
  /\ lost \in BOOLEAN
  /\ ever \in BOOLEAN

\* The remembered answer is wrong only for what was under way when the rules
\* came: it admits an account with a denied address only when that address was
\* pending or in a change link at the restart, and refuses one without only
\* when such an address left since.
StaleAnswersPredateRules ==
  /\ answer = "admitted" => verified \cap denied \subseteq old
  /\ answer = "refused" => verified \cap denied # {} \/ lost

\* Whoever a door let in had been verified: at some moment of the request, or
\* before it for a session, whose snapshot may be older; and the rules admitted
\* the account at some moment of it, unless the answer could be wrong.
WhoPassesStood ==
  \A r \in Req : req[r].pc = "passed" =>
    /\ (required /\ req[r].door # "fix") =>
         "verified" \in req[r].seen \/ (ever /\ req[r].door \in SessionDoor)
    /\ "admitted" \in req[r].seen \/ old \cap denied # {}

\* Whom a door turned away was unverified, or refused, at some moment of the
\* request: no session is held for ever by a snapshot that another session's
\* verification made wrong.
WhoIsTurnedAwayFell ==
  \A r \in Req :
    /\ req[r].pc = "held" => "unverified" \in req[r].seen
    /\ req[r].pc = "refused" => "refused" \in req[r].seen \/ lost
=============================================================================
