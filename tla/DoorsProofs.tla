---------------------------- MODULE DoorsProofs -----------------------------
(***************************************************************************)
(* What holds at the doors: of requests that overlap (Doors), for any      *)
(* number of addresses, requests and restarts and any access rules, and of *)
(* one request (Gates), for any providers, settings, paths and targets.    *)
(***************************************************************************)
EXTENDS Doors, Gates, FiniteSetTheorems, SequenceTheorems, TLAPS

-----------------------------------------------------------------------------
(* The inductive invariant                                                 *)

(* What the claims about a request depend on.                              *)
World == [verified |-> verified, denied |-> denied, required |-> required,
          ever |-> ever, old |-> old, lost |-> lost]
Worlds == [verified : SUBSET Addr, denied : SUBSET Addr, required : BOOLEAN,
           ever : BOOLEAN, old : SUBSET Addr, lost : BOOLEAN]

Asking == {"rules", "asked", "verify"}
Pc == Asking \cup {"idle", "passed", "held", "refused", "removing"}
Request == [door : Door, pc : Pc, copy : BOOLEAN, got : {"none", "admitted", "refused"},
            addr : Addr \cup {None},
            seen : SUBSET {"verified", "unverified", "admitted", "refused"}]

\* An answer is wrong only for what was under way when the rules came.
Honest(a, w) ==
  /\ a = "admitted" => w.verified \cap w.denied \subseteq w.old
  /\ a = "refused" => w.verified \cap w.denied # {} \/ w.lost

\* The two gates, passed.
Admits(q, w) == "admitted" \in q.seen \/ w.old \cap w.denied # {}
Proved(q, w) ==
  (w.required /\ q.door # "fix") => "verified" \in q.seen \/ (w.ever /\ q.door \in SessionDoor)

(* A request that still asks has seen what the account is, has passed the  *)
(* gate before the one it is at, and carries an answer that was true.      *)
Stands(q, w) ==
  /\ q.copy => w.ever
  /\ q.pc \in Asking => Standing(w.verified, w.denied) \subseteq q.seen
  /\ q.pc = "asked" => q.got \in q.seen /\ Honest(q.got, w)
  /\ q.pc = "verify" => q.door # "fix"
  /\ q.pc = "verify" /\ q.door = "http" => Admits(q, w)
  /\ q.pc \in {"rules", "asked"} /\ q.door \notin {"http", "fix"} => Proved(q, w)
  /\ q.pc = "passed" => Proved(q, w) /\ Admits(q, w)
  /\ q.pc = "held" => "unverified" \in q.seen
  /\ q.pc = "refused" => "refused" \in q.seen \/ w.lost

RulesInv ==
  /\ (pending \cup changes) \cap denied \subseteq old
  /\ Honest(answer, World)

EverInv ==
  /\ verified # {} => ever
  /\ snapshot => ever

SeenInv == \A r \in Req : Stands(req[r], World)

IInv == TypeOK /\ RulesInv /\ EverInv /\ SeenInv

-----------------------------------------------------------------------------
(* Types                                                                   *)

LEMMA IdleIsRequest == Idle \in Request /\ Idle.pc = "idle" /\ ~Idle.copy
  BY DEF Idle, Request, Pc, Door

LEMMA ReqTypes == TypeOK <=>
  /\ denied \subseteq Addr /\ required \in BOOLEAN
  /\ verified \subseteq Addr /\ pending \subseteq Addr /\ verified \cap pending = {}
  /\ changes \subseteq Addr /\ username \in BOOLEAN
  /\ answer \in {"none", "admitted", "refused"} /\ snapshot \in BOOLEAN
  /\ req \in [Req -> Request]
  /\ \A r \in Req : req[r].pc = "asked" => req[r].got # "none"
  /\ restarts \in 0..MaxRestarts /\ old \subseteq Addr /\ lost \in BOOLEAN /\ ever \in BOOLEAN
<1>1. Request =
        [door : Door,
         pc : {"idle", "rules", "asked", "verify", "passed", "held", "refused", "removing"},
         copy : BOOLEAN, got : {"none", "admitted", "refused"}, addr : Addr \cup {None},
         seen : SUBSET {"verified", "unverified", "admitted", "refused"}]
  <2>1. Pc = {"idle", "rules", "asked", "verify", "passed", "held", "refused", "removing"}
    BY DEF Pc, Asking
  <2> QED BY <2>1 DEF Request
<1> QED BY <1>1 DEF TypeOK

LEMMA StandingIsSeen ==
  ASSUME NEW v, NEW d
  PROVE  Standing(v, d) \in SUBSET {"verified", "unverified", "admitted", "refused"}
  BY DEF Standing

\* What a request becomes at a gate.
LEMMA AfterGate ==
  ASSUME NEW d \in Door, NEW gate \in {"rules", "verify"}
  PROVE  /\ First(d) \in {"rules", "verify"}
         /\ After(d, gate) \in {"rules", "verify", "passed"}
  BY DEF First, After

\* One request moves, to another record.
LEMMA Moved ==
  ASSUME req \in [Req -> Request], \A r \in Req : req[r].pc = "asked" => req[r].got # "none",
         NEW r \in Req, NEW next \in Request, next.pc = "asked" => next.got # "none",
         req' = [req EXCEPT ![r] = next]
  PROVE  /\ req' \in [Req -> Request]
         /\ \A q \in Req : req'[q].pc = "asked" => req'[q].got # "none"
         /\ req'[r] = next /\ \A q \in Req \ {r} : req'[q] = req[q]
  BY SMTT(30)

\* What a request becomes when addresses do: it sees them, if it still asks.
Seeing(q, v, d) ==
  IF q.pc \in Asking THEN [q EXCEPT !.seen = @ \cup Standing(v, d)] ELSE q

LEMMA SeeingTypes ==
  ASSUME NEW q \in Request, NEW v, NEW d
  PROVE  /\ Seeing(q, v, d) \in Request
         /\ Seeing(q, v, d).pc = q.pc /\ Seeing(q, v, d).got = q.got
         /\ Seeing(q, v, d).door = q.door /\ Seeing(q, v, d).copy = q.copy
         /\ q.pc \in Asking => Seeing(q, v, d).seen = q.seen \cup Standing(v, d)
         /\ q.pc \notin Asking => Seeing(q, v, d).seen = q.seen
<1>1. q.seen \cup Standing(v, d) \in SUBSET {"verified", "unverified", "admitted", "refused"}
  BY StandingIsSeen DEF Request
<1> QED BY <1>1 DEF Seeing, Request

\* The requests once the addresses became v.
LEMMA Witness ==
  ASSUME NEW reqs \in [Req -> Request], NEW v, NEW d
  PROVE  Witnessed(reqs, v, d) = [r \in Req |-> Seeing(reqs[r], v, d)]
  BY DEF Witnessed, Seeing, Asking

-----------------------------------------------------------------------------
(* Steps of one request                                                    *)

LEMMA WorldTypes == TypeOK => World \in Worlds
  BY DEF TypeOK, World, Worlds

LEMMA IdleStands ==
  ASSUME NEW w
  PROVE  Stands(Idle, w)
  BY IdleIsRequest DEF Stands, Asking

\* The account and the configuration stay; one request moves, maybe with an
\* answer kept or a snapshot saved.
LEMMA LocalStep ==
  ASSUME IInv, NEW r \in Req, NEW next \in Request, req' = [req EXCEPT ![r] = next],
         next.pc = "asked" => next.got # "none", Stands(next, World),
         UNCHANGED <<config_vars, account_vars>>,
         answer' \in {"none", "admitted", "refused"}, Honest(answer', World),
         snapshot' \in BOOLEAN, snapshot' => ever
  PROVE  IInv'
<1>1. UNCHANGED <<denied, required, restarts, old, verified, pending, changes, username, ever, lost>>
  BY DEF config_vars, account_vars
<1>2. World' = World
  BY <1>1 DEF World
<1>3. /\ req' \in [Req -> Request]
      /\ \A q \in Req : req'[q].pc = "asked" => req'[q].got # "none"
      /\ req'[r] = next /\ \A q \in Req \ {r} : req'[q] = req[q]
  <2>1. req \in [Req -> Request] /\ \A q \in Req : req[q].pc = "asked" => req[q].got # "none"
    BY ReqTypes DEF IInv
  <2> QED BY <2>1, Moved
<1>4. TypeOK'
  <2>1. req' \in [Req -> [door : Door,
           pc : {"idle", "rules", "asked", "verify", "passed", "held", "refused", "removing"},
           copy : BOOLEAN, got : {"none", "admitted", "refused"}, addr : Addr \cup {None},
           seen : SUBSET {"verified", "unverified", "admitted", "refused"}]]
    BY <1>3 DEF Request, Pc, Asking
  <2> QED BY <1>1, <1>3, <2>1 DEF IInv, TypeOK
<1>5. RulesInv'
  BY <1>1, <1>2 DEF IInv, RulesInv
<1>6. EverInv'
  BY <1>1 DEF IInv, EverInv
<1>7. SeenInv'
  <2> SUFFICES ASSUME NEW q \in Req PROVE Stands(req'[q], World')
    BY DEF SeenInv
  <2>1. Stands(req'[q], World)
    BY <1>3 DEF IInv, SeenInv
  <2> QED BY <1>2, <2>1
<1> QED BY <1>4, <1>5, <1>6, <1>7 DEF IInv

-----------------------------------------------------------------------------
(* Steps of the account                                                    *)

\* A request that stood stands when the account's addresses become others:
\* what it sees is added, and the new world denies it no more than the old.
LEMMA StandsOn ==
  ASSUME NEW w \in Worlds, NEW w2 \in Worlds, NEW q \in Request, Stands(q, w),
         w2.denied = w.denied, w2.required = w.required, w2.old = w.old,
         w.ever => w2.ever, w.lost => w2.lost,
         w2.verified \cap w.denied \subseteq (w.verified \cap w.denied) \cup w.old,
         w.verified \cap w.denied # {} => w2.verified \cap w.denied # {} \/ w2.lost
  PROVE  Stands(Seeing(q, w2.verified, w2.denied), w2)
<1> DEFINE n == Seeing(q, w2.verified, w2.denied)
<1>1. /\ n \in Request /\ n.pc = q.pc /\ n.got = q.got /\ n.door = q.door /\ n.copy = q.copy
      /\ q.pc \in Asking => n.seen = q.seen \cup Standing(w2.verified, w2.denied)
      /\ q.pc \notin Asking => n.seen = q.seen
      /\ q.seen \subseteq n.seen
  <2>1. /\ n \in Request /\ n.pc = q.pc /\ n.got = q.got /\ n.door = q.door /\ n.copy = q.copy
        /\ q.pc \in Asking => n.seen = q.seen \cup Standing(w2.verified, w2.denied)
        /\ q.pc \notin Asking => n.seen = q.seen
    BY SeeingTypes
  <2> QED BY <2>1
<1> HIDE DEF n
<1>2. Admits(q, w) => Admits(n, w2)
  BY <1>1 DEF Admits
<1>3. Proved(q, w) => Proved(n, w2)
  BY <1>1 DEF Proved
<1>4. Honest(q.got, w) => Honest(n.got, w2)
  BY <1>1 DEF Honest
<1>5. n.pc \in Asking => Standing(w2.verified, w2.denied) \subseteq n.seen
  BY <1>1
<1>6. Stands(n, w2)
  BY <1>1, <1>2, <1>3, <1>4, <1>5 DEF Stands
<1> QED BY <1>6 DEF n

\* The addresses become v, p and c: none of p and c is denied but an old one,
\* and v brings no denied address but an old one.
LEMMA AccountStep ==
  ASSUME IInv, NEW v \in SUBSET Addr, NEW p \in SUBSET Addr, NEW c \in SUBSET Addr,
         NEW reqs \in [Req -> Request],
         \A q \in Req : Stands(reqs[q], World) /\ (reqs[q].pc = "asked" => reqs[q].got # "none"),
         Become(v, p, c, reqs), UNCHANGED snapshot,
         v \cap p = {}, (p \cup c) \cap denied \subseteq old,
         v \cap denied \subseteq (verified \cap denied) \cup old
  PROVE  IInv'
<1>1. /\ verified' = v /\ pending' = p /\ changes' = c
      /\ ever' = (ever \/ v # {})
      /\ lost' = (lost \/ (verified \ v) \cap denied # {})
      /\ UNCHANGED <<denied, required, restarts, old, username, answer, snapshot>>
  BY DEF Become, config_vars
<1>2. req' = [r \in Req |-> Seeing(reqs[r], v, denied)]
  BY Witness DEF Become
<1>3. /\ req' \in [Req -> Request]
      /\ \A r \in Req : req'[r].pc = "asked" => req'[r].got # "none"
  BY <1>2, SeeingTypes
<1>4. ever \in BOOLEAN /\ lost \in BOOLEAN
  BY DEF IInv, TypeOK
<1>5. TypeOK'
  <2>1. ever' \in BOOLEAN /\ lost' \in BOOLEAN
    BY <1>1, <1>4
  <2>2. req' \in [Req -> [door : Door,
           pc : {"idle", "rules", "asked", "verify", "passed", "held", "refused", "removing"},
           copy : BOOLEAN, got : {"none", "admitted", "refused"}, addr : Addr \cup {None},
           seen : SUBSET {"verified", "unverified", "admitted", "refused"}]]
    BY <1>3 DEF Request, Pc, Asking
  <2>3. denied \subseteq Addr /\ required \in BOOLEAN /\ username \in BOOLEAN
        /\ answer \in {"none", "admitted", "refused"} /\ snapshot \in BOOLEAN
        /\ restarts \in 0..MaxRestarts /\ old \subseteq Addr
    BY DEF IInv, TypeOK
  <2> QED BY <1>1, <1>3, <2>1, <2>2, <2>3 DEF TypeOK
<1> DEFINE next == [verified |-> v, denied |-> denied, required |-> required,
                    ever |-> (ever \/ v # {}), old |-> old,
                    lost |-> (lost \/ (verified \ v) \cap denied # {})]
<1>6. World' = next
  BY <1>1 DEF World
<1>7. World \in Worlds /\ next \in Worlds
  BY WorldTypes DEF IInv, TypeOK, Worlds
<1>8. /\ World.verified = verified /\ World.denied = denied /\ World.required = required
      /\ World.ever = ever /\ World.old = old /\ World.lost = lost
  BY DEF World
<1>9. /\ next.verified = v /\ next.denied = denied /\ next.required = required /\ next.old = old
      /\ next.ever = (ever \/ v # {}) /\ next.lost = (lost \/ (verified \ v) \cap denied # {})
  OBVIOUS
<1> HIDE DEF next
<1>10. RulesInv'
  <2>1. Honest(answer, World)
    BY DEF IInv, RulesInv
  <2>2. Honest(answer, next)
    BY <1>8, <1>9, <2>1 DEF Honest
  <2>3. Honest(answer', World')
    BY <1>1, <1>6, <2>2
  <2>4. (pending' \cup changes') \cap denied' \subseteq old'
    BY <1>1
  <2> QED BY <2>3, <2>4 DEF RulesInv
<1>11. EverInv'
  <2>1. snapshot => ever
    BY DEF IInv, EverInv
  <2>2. v # {} => ever'
    BY <1>1
  <2>3. snapshot => ever'
    BY <1>1, <1>4, <2>1
  <2> QED BY <1>1, <2>2, <2>3 DEF EverInv
<1>12. SeenInv'
  <2> SUFFICES ASSUME NEW r \in Req PROVE Stands(req'[r], World')
    BY DEF SeenInv
  <2>1. Stands(Seeing(reqs[r], next.verified, next.denied), next)
    BY <1>7, <1>8, <1>9, StandsOn
  <2>2. req'[r] = Seeing(reqs[r], next.verified, next.denied)
    BY <1>2, <1>9
  <2> QED BY <1>6, <2>1, <2>2
<1> QED BY <1>5, <1>10, <1>11, <1>12 DEF IInv

-----------------------------------------------------------------------------
(* The gates                                                               *)

LEMMA Known ==
  ASSUME IInv, NEW r \in Req
  PROVE  /\ req \in [Req -> Request] /\ req[r] \in Request /\ Stands(req[r], World)
         /\ req[r].pc = "asked" => req[r].got # "none"
         /\ World.verified = verified /\ World.denied = denied /\ World.required = required
         /\ World.ever = ever /\ World.old = old /\ World.lost = lost
         /\ Honest(answer, World) /\ (verified # {} => ever) /\ (snapshot => ever)
         /\ answer \in {"none", "admitted", "refused"} /\ snapshot \in BOOLEAN
  BY ReqTypes DEF IInv, SeenInv, RulesInv, EverInv, World

\* Past a gate it answers, a request stands at what follows, or is in.
LEMMA PastStep ==
  ASSUME IInv, NEW r \in Req, NEW gate \in {"rules", "verify"}, NEW copy \in BOOLEAN,
         Past(r, gate, copy), copy => ever,
         gate = "rules" => req[r].pc \in {"rules", "asked"} /\ Admits(req[r], World),
         gate = "verify" => req[r].pc = "verify" /\ Proved(req[r], World),
         UNCHANGED <<config_vars, account_vars>>,
         answer' \in {"none", "admitted", "refused"}, Honest(answer', World)
  PROVE  IInv'
<1> DEFINE q == req[r]
           to == After(q.door, gate)
           n == [q EXCEPT !.pc = to, !.copy = copy]
<1>1. q \in Request /\ Stands(q, World) /\ World.ever = ever /\ req \in [Req -> Request]
  BY Known
<1>2. q.door \in Door /\ q.pc \in Asking
  BY <1>1 DEF Request, Asking
<1>3. to \in {"rules", "verify", "passed"}
  BY <1>2, AfterGate
<1>4. /\ n \in Request /\ n.pc = to /\ n.copy = copy /\ n.door = q.door /\ n.seen = q.seen
  BY <1>1, <1>3 DEF Request, Pc, Asking
<1>5. req' = [req EXCEPT ![r] = n]
  BY <1>1 DEF Past, Request
<1>6. snapshot' \in BOOLEAN /\ (snapshot' => ever)
  BY Known DEF Past
<1> HIDE DEF n, to
<1>7. Standing(World.verified, World.denied) \subseteq n.seen
  BY <1>1, <1>2, <1>4 DEF Stands
<1>8. /\ Admits(q, World) => Admits(n, World)
      /\ Proved(q, World) => Proved(n, World)
  BY <1>4 DEF Admits, Proved
<1>9. ASSUME gate = "rules" PROVE Stands(n, World) /\ n.pc # "asked"
  <2>1. Admits(n, World)
    BY <1>8, <1>9
  <2>2. q.door \notin {"http", "fix"} => Proved(n, World)
    BY <1>1, <1>8, <1>9 DEF Stands
  <2>3. q.door = "fix" => Proved(n, World)
    BY <1>4 DEF Proved
  <2>4. to = IF q.door = "http" THEN "verify" ELSE "passed"
    BY <1>9 DEF to, After
  <2> QED BY <1>1, <1>4, <1>7, <2>1, <2>2, <2>3, <2>4 DEF Stands
<1>10. ASSUME gate = "verify" PROVE Stands(n, World) /\ n.pc # "asked"
  <2>1. Proved(n, World) /\ q.door # "fix"
    BY <1>1, <1>8, <1>10 DEF Stands
  <2>2. q.door = "http" => Admits(n, World)
    BY <1>1, <1>8, <1>10 DEF Stands
  <2>3. to = IF q.door = "http" THEN "passed" ELSE "rules"
    BY <1>10 DEF to, After
  <2> QED BY <1>1, <1>4, <1>7, <2>1, <2>2, <2>3 DEF Stands
<1>11. Stands(n, World) /\ n.pc # "asked"
  BY <1>9, <1>10
<1> QED BY <1>4, <1>5, <1>6, <1>11, LocalStep

\* A request that is turned away saw why, or a denied address was lost.
LEMMA TurnedStep ==
  ASSUME IInv, NEW r \in Req, NEW how \in {"held", "refused"}, Turned(r, how),
         how = "held" => "unverified" \in req[r].seen,
         how = "refused" => "refused" \in req[r].seen \/ lost,
         UNCHANGED <<config_vars, account_vars>>,
         answer' \in {"none", "admitted", "refused"}, Honest(answer', World)
  PROVE  IInv'
<1> DEFINE q == req[r]
           n == [q EXCEPT !.pc = how]
<1>1. /\ q \in Request /\ Stands(q, World) /\ World.lost = lost /\ req \in [Req -> Request]
      /\ snapshot \in BOOLEAN /\ (snapshot => ever)
  BY Known
<1>2. n \in Request /\ n.pc = how /\ n.copy = q.copy /\ n.seen = q.seen
  BY <1>1 DEF Request, Pc
<1>3. req' = [req EXCEPT ![r] = n] /\ UNCHANGED snapshot
  BY <1>1 DEF Turned, Request
<1> HIDE DEF n
<1>4. Stands(n, World)
  BY <1>1, <1>2 DEF Stands, Asking
<1>5. n.pc # "asked"
  BY <1>2
<1> QED BY <1>1, <1>2, <1>3, <1>4, <1>5, LocalStep

\* What the account is now, a request that asks has seen.
LEMMA Sees ==
  ASSUME IInv, NEW r \in Req, req[r].pc \in Asking
  PROVE  /\ verified # {} => "verified" \in req[r].seen
         /\ verified = {} => "unverified" \in req[r].seen
         /\ verified \cap denied = {} => "admitted" \in req[r].seen
         /\ verified \cap denied # {} => "refused" \in req[r].seen
<1>1. Standing(verified, denied) \subseteq req[r].seen
  BY Known DEF Stands
<1> QED BY <1>1 DEF Standing

\* An honest answer, acted on.
LEMMA Acted ==
  ASSUME IInv, NEW r \in Req, req[r].pc \in Asking, NEW a, Honest(a, World)
  PROVE  /\ a = "admitted" => Admits(req[r], World)
         /\ a = "refused" => "refused" \in req[r].seen \/ lost
  BY Sees, Known DEF Honest, Admits

LEMMA RulesKnownStep ==
  ASSUME IInv, NEW r \in Req, RulesKnown(r)
  PROVE  IInv'
<1>1. /\ req[r].pc = "rules" /\ req[r].pc \in Asking /\ UNCHANGED <<config_vars, account_vars, answer>>
      /\ HasRules => answer # "none"
  BY DEF RulesKnown, Asking
<1>2. Honest(answer, World) /\ answer \in {"none", "admitted", "refused"}
  BY Known
<1>3. Honest(answer', World) /\ answer' \in {"none", "admitted", "refused"}
  BY <1>1, <1>2
<1>4. CASE HasRules /\ answer = "refused"
  <2>1. Turned(r, "refused")
    BY <1>4 DEF RulesKnown
  <2> QED BY <1>1, <1>2, <1>3, <1>4, <2>1, Acted, TurnedStep
<1>5. CASE ~(HasRules /\ answer = "refused")
  <2>1. Past(r, "rules", req[r].copy)
    BY <1>5 DEF RulesKnown
  <2>2. req[r].copy \in BOOLEAN /\ (req[r].copy => ever)
    BY Known DEF Request, Stands
  <2>3. Admits(req[r], World)
    <3>1. CASE HasRules
      BY <1>1, <1>2, <1>5, <3>1, Acted
    <3>2. CASE ~HasRules
      BY <1>1, <3>2, Sees DEF HasRules, Admits
    <3> QED BY <3>1, <3>2
  <2> QED BY <1>1, <1>3, <2>1, <2>2, <2>3, PastStep
<1> QED BY <1>4, <1>5

LEMMA RulesAskStep ==
  ASSUME IInv, NEW r \in Req, RulesAsk(r)
  PROVE  IInv'
<1> DEFINE got == IF verified \cap denied = {} THEN "admitted" ELSE "refused"
           n == [req[r] EXCEPT !.pc = "asked", !.got = got]
<1>1. /\ req[r].pc = "rules" /\ req[r].pc \in Asking
      /\ UNCHANGED <<config_vars, account_vars, answer, snapshot>>
  BY DEF RulesAsk, Asking
<1>2. /\ req \in [Req -> Request] /\ req[r] \in Request /\ Stands(req[r], World)
      /\ World.verified = verified /\ World.denied = denied
      /\ Honest(answer, World) /\ answer \in {"none", "admitted", "refused"}
      /\ snapshot \in BOOLEAN /\ (snapshot => ever)
  BY Known
<1>3. got \in {"admitted", "refused"} /\ got \in req[r].seen /\ Honest(got, World)
  BY <1>1, <1>2, Sees DEF Honest
<1>4. req' = [req EXCEPT ![r] = n]
  BY <1>2 DEF RulesAsk, Request
<1> HIDE DEF got
<1>5. /\ n \in Request /\ n.pc = "asked" /\ n.got = got /\ n.copy = req[r].copy
      /\ n.door = req[r].door /\ n.seen = req[r].seen
  BY <1>2, <1>3 DEF Request, Pc, Asking
<1> HIDE DEF n
<1>6. Proved(req[r], World) => Proved(n, World)
  BY <1>5 DEF Proved
<1>7. Stands(n, World)
  BY <1>1, <1>2, <1>3, <1>5, <1>6 DEF Stands, Asking
<1>8. n.got # "none"
  BY <1>3, <1>5
<1>9. Honest(answer', World) /\ answer' \in {"none", "admitted", "refused"}
      /\ snapshot' \in BOOLEAN /\ (snapshot' => ever)
  BY <1>1, <1>2
<1> QED BY <1>1, <1>4, <1>5, <1>7, <1>8, <1>9, LocalStep

LEMMA RulesKeepStep ==
  ASSUME IInv, NEW r \in Req, RulesKeep(r)
  PROVE  IInv'
<1>1. /\ req[r].pc = "asked" /\ req[r].pc \in Asking /\ UNCHANGED <<config_vars, account_vars>>
      /\ answer' = req[r].got
  BY DEF RulesKeep, Asking
<1>2. /\ Honest(req[r].got, World) /\ req[r].got \in {"admitted", "refused"}
      /\ req[r].copy \in BOOLEAN /\ (req[r].copy => ever)
  BY <1>1, Known DEF Stands, Request
<1>3. Honest(answer', World) /\ answer' \in {"none", "admitted", "refused"}
  BY <1>1, <1>2
<1>4. CASE req[r].got = "refused"
  <2>1. Turned(r, "refused")
    BY <1>4 DEF RulesKeep
  <2> QED BY <1>1, <1>2, <1>3, <1>4, <2>1, Acted, TurnedStep
<1>5. CASE req[r].got = "admitted"
  <2>1. Past(r, "rules", req[r].copy)
    BY <1>5 DEF RulesKeep
  <2> QED BY <1>1, <1>2, <1>3, <1>5, <2>1, Acted, PastStep
<1> QED BY <1>2, <1>4, <1>5

LEMMA VerifyStep ==
  ASSUME IInv, NEW r \in Req, Verify(r)
  PROVE  IInv'
<1> DEFINE copied == req[r].copy /\ req[r].door \in SessionDoor
<1>1. /\ req[r].pc = "verify" /\ req[r].pc \in Asking
      /\ UNCHANGED <<config_vars, account_vars, answer>>
  BY DEF Verify, Asking
<1>2. /\ req[r].copy \in BOOLEAN /\ (req[r].copy => ever) /\ (verified # {} => ever)
      /\ World.required = required /\ World.ever = ever
      /\ Honest(answer', World) /\ answer' \in {"none", "admitted", "refused"}
  BY <1>1, Known DEF Stands, Request
<1>3. CASE ~required \/ copied
  <2>1. Past(r, "verify", req[r].copy)
    BY <1>3 DEF Verify
  <2>2. Proved(req[r], World)
    BY <1>2, <1>3 DEF Proved
  <2> QED BY <1>1, <1>2, <2>1, <2>2, PastStep
<1>4. CASE required /\ ~copied /\ verified # {}
  <2>1. Past(r, "verify", TRUE)
    BY <1>4 DEF Verify
  <2>2. Proved(req[r], World)
    BY <1>1, <1>4, Sees DEF Proved
  <2> QED BY <1>1, <1>2, <1>4, <2>1, <2>2, PastStep
<1>5. CASE ~(~required \/ copied) /\ ~(required /\ ~copied /\ verified # {})
  <2>1. Turned(r, "held")
    BY <1>5 DEF Verify
  <2>2. "unverified" \in req[r].seen
    BY <1>1, <1>5, Sees
  <2> QED BY <1>1, <1>2, <2>1, <2>2, TurnedStep
<1> QED BY <1>3, <1>4, <1>5
-----------------------------------------------------------------------------
(* Requests come, go and change the account                                *)

LEMMA ArriveStep ==
  ASSUME IInv, NEW r \in Req, NEW d \in Door, Arrive(r, d)
  PROVE  IInv'
<1> DEFINE i == Idle
           to == First(d)
           seen == Standing(verified, denied)
           n == [i EXCEPT !.door = d, !.pc = to, !.copy = snapshot, !.seen = seen]
<1>1. /\ snapshot \in BOOLEAN /\ (snapshot => ever) /\ World.ever = ever
      /\ World.verified = verified /\ World.denied = denied
      /\ Honest(answer, World) /\ answer \in {"none", "admitted", "refused"}
  BY Known
<1>2. First(d) = IF d \in {"http", "fix"} THEN "rules" ELSE "verify"
  BY DEF First
<1>3. req' = [req EXCEPT ![r] = n] /\ UNCHANGED <<config_vars, account_vars, answer, snapshot>>
  BY DEF Arrive
<1>4. to \in Pc /\ i \in Request /\ seen = Standing(World.verified, World.denied)
      /\ seen \in SUBSET {"verified", "unverified", "admitted", "refused"}
      /\ to = IF d \in {"http", "fix"} THEN "rules" ELSE "verify"
  BY <1>1, <1>2, IdleIsRequest, StandingIsSeen DEF Pc, Asking
<1> HIDE DEF i, to, seen
<1>5. n \in Request /\ n.door = d /\ n.pc = to /\ n.copy = snapshot /\ n.seen = seen
  BY <1>1, <1>4 DEF Request
<1> HIDE DEF n
<1>6. n.pc = "verify" => n.door \notin {"http", "fix"}
  BY <1>4, <1>5
<1>7. n.pc \in {"rules", "verify"} /\ (n.pc = "rules" => n.door \in {"http", "fix"})
  BY <1>4, <1>5
<1>8. Stands(n, World)
  BY <1>1, <1>4, <1>5, <1>6, <1>7 DEF Stands
<1>9. n.pc # "asked"
  BY <1>7
<1>10. Honest(answer', World) /\ answer' \in {"none", "admitted", "refused"}
       /\ snapshot' \in BOOLEAN /\ (snapshot' => ever)
  BY <1>1, <1>3
<1> QED BY <1>3, <1>5, <1>8, <1>9, <1>10, LocalStep

LEMMA LeaveStep ==
  ASSUME IInv, NEW r \in Req, Leave(r)
  PROVE  IInv'
<1>1. req' = [req EXCEPT ![r] = Idle] /\ UNCHANGED <<config_vars, account_vars, answer, snapshot>>
  BY DEF Leave
<1>2. /\ Honest(answer', World) /\ answer' \in {"none", "admitted", "refused"}
      /\ snapshot' \in BOOLEAN /\ (snapshot' => ever)
  BY <1>1, Known
<1> QED BY <1>1, <1>2, IdleIsRequest, IdleStands, LocalStep

\* Whoever decided to remove an address asks nothing any more.
LEMMA RemoveReadStep ==
  ASSUME IInv, NEW r \in Req, NEW x \in Addr, RemoveRead(r, x)
  PROVE  IInv'
<1> DEFINE n == [req[r] EXCEPT !.pc = "removing", !.addr = x]
<1>1. /\ req \in [Req -> Request] /\ req[r] \in Request /\ Stands(req[r], World)
      /\ World.ever = ever
  BY Known
<1>2. req' = [req EXCEPT ![r] = n] /\ UNCHANGED <<config_vars, account_vars, answer, snapshot>>
  BY <1>1 DEF RemoveRead, Request
<1>3. /\ Honest(answer', World) /\ answer' \in {"none", "admitted", "refused"}
      /\ snapshot' \in BOOLEAN /\ (snapshot' => ever)
  BY <1>2, Known
<1>4. n \in Request /\ n.pc = "removing" /\ n.copy = req[r].copy
  BY <1>1 DEF Request, Pc
<1> HIDE DEF n
<1>5. Stands(n, World)
  BY <1>1, <1>4 DEF Stands, Asking
<1>6. n.pc # "asked"
  BY <1>4
<1> QED BY <1>2, <1>3, <1>4, <1>5, <1>6, LocalStep

\* The requests as they are, or with one of them done, all stand.
LEMMA Done ==
  ASSUME IInv, NEW r \in Req
  PROVE  /\ [req EXCEPT ![r] = Idle] \in [Req -> Request]
         /\ \A q \in Req : /\ Stands([req EXCEPT ![r] = Idle][q], World)
                           /\ [req EXCEPT ![r] = Idle][q].pc = "asked" =>
                                [req EXCEPT ![r] = Idle][q].got # "none"
<1>1. req \in [Req -> Request]
  BY Known
<1>2. [req EXCEPT ![r] = Idle] \in [Req -> Request]
  BY <1>1, IdleIsRequest
<1>3. ASSUME NEW q \in Req
      PROVE  /\ Stands([req EXCEPT ![r] = Idle][q], World)
             /\ [req EXCEPT ![r] = Idle][q].pc = "asked" =>
                  [req EXCEPT ![r] = Idle][q].got # "none"
  <2>1. CASE q = r
    <3>1. [req EXCEPT ![r] = Idle][q] = Idle
      BY <1>1, <2>1
    <3> QED BY <3>1, IdleStands, IdleIsRequest
  <2>2. CASE q # r
    <3>1. [req EXCEPT ![r] = Idle][q] = req[q]
      BY <1>1, <2>2
    <3> QED BY <3>1, Known
  <2> QED BY <2>1, <2>2
<1> QED BY <1>2, <1>3

LEMMA AsTheyAre ==
  ASSUME IInv
  PROVE  /\ req \in [Req -> Request]
         /\ \A q \in Req : Stands(req[q], World) /\ (req[q].pc = "asked" => req[q].got # "none")
  BY ReqTypes DEF IInv, SeenInv

LEMMA Addresses ==
  ASSUME IInv
  PROVE  /\ verified \subseteq Addr /\ pending \subseteq Addr /\ changes \subseteq Addr
         /\ verified \cap pending = {} /\ (pending \cup changes) \cap denied \subseteq old
  BY DEF IInv, TypeOK, RulesInv

LEMMA AddStep ==
  ASSUME IInv, NEW r \in Req, NEW x \in Addr, Add(r, x)
  PROVE  IInv'
<1>1. /\ x \notin denied /\ verified \cup pending = {} /\ UNCHANGED snapshot
      /\ Become(verified, {x}, changes, [req EXCEPT ![r] = Idle])
  BY DEF Add
<1>2. verified \cap {x} = {} /\ ({x} \cup changes) \cap denied \subseteq old
  BY <1>1, Addresses
<1>3. verified \in SUBSET Addr /\ {x} \in SUBSET Addr /\ changes \in SUBSET Addr
  BY Addresses
<1> QED BY <1>1, <1>2, <1>3, Done, AccountStep

LEMMA VerifyAddressStep ==
  ASSUME IInv, NEW x \in Addr, VerifyAddress(x)
  PROVE  IInv'
<1> DEFINE v == verified \cup {x}
           p == pending \ {x}
<1>1. x \in pending /\ UNCHANGED snapshot /\ Become(v, p, changes, req)
  BY DEF VerifyAddress
<1>2. v \cap p = {} /\ (p \cup changes) \cap denied \subseteq old
      /\ v \cap denied \subseteq (verified \cap denied) \cup old
  BY <1>1, Addresses
<1>3. v \in SUBSET Addr /\ p \in SUBSET Addr /\ changes \in SUBSET Addr
  BY Addresses
<1> HIDE DEF v, p
<1> QED BY <1>1, <1>2, <1>3, AsTheyAre, AccountStep

LEMMA ConnectStep ==
  ASSUME IInv, NEW x \in Addr, Connect(x)
  PROVE  IInv'
<1> DEFINE v == verified \cup {x}
           p == pending \ {x}
<1>1. x \notin denied /\ UNCHANGED snapshot /\ Become(v, p, changes, req)
  BY DEF Connect
<1>2. v \cap p = {} /\ (p \cup changes) \cap denied \subseteq old
      /\ v \cap denied \subseteq (verified \cap denied) \cup old
  BY <1>1, Addresses
<1>3. v \in SUBSET Addr /\ p \in SUBSET Addr /\ changes \in SUBSET Addr
  BY Addresses
<1> HIDE DEF v, p
<1> QED BY <1>1, <1>2, <1>3, AsTheyAre, AccountStep

LEMMA RemoveCommitStep ==
  ASSUME IInv, NEW r \in Req, RemoveCommit(r)
  PROVE  IInv'
<1> DEFINE v == verified \ {req[r].addr}
           p == pending \ {req[r].addr}
<1>1. UNCHANGED snapshot /\ Become(v, p, {}, [req EXCEPT ![r] = Idle])
  BY DEF RemoveCommit
<1>2. v \cap p = {} /\ (p \cup {}) \cap denied \subseteq old
      /\ v \cap denied \subseteq (verified \cap denied) \cup old
  BY Addresses
<1>3. v \in SUBSET Addr /\ p \in SUBSET Addr /\ {} \in SUBSET Addr
  BY Addresses
<1> HIDE DEF v, p
<1> QED BY <1>1, <1>2, <1>3, Done, AccountStep

LEMMA ChangeRequestStep ==
  ASSUME IInv, NEW r \in Req, NEW x \in Addr, ChangeRequest(r, x)
  PROVE  IInv'
<1> DEFINE c == changes \cup {x}
<1>1. x \notin denied /\ UNCHANGED snapshot
      /\ Become(verified, pending, c, [req EXCEPT ![r] = Idle])
  BY DEF ChangeRequest
<1>2. verified \cap pending = {} /\ (pending \cup c) \cap denied \subseteq old
  BY <1>1, Addresses
<1>3. verified \in SUBSET Addr /\ pending \in SUBSET Addr /\ c \in SUBSET Addr
  BY Addresses
<1> HIDE DEF c
<1> QED BY <1>1, <1>2, <1>3, Done, AccountStep

LEMMA ChangeConfirmStep ==
  ASSUME IInv, NEW x \in Addr, ChangeConfirm(x)
  PROVE  IInv'
<1>1. x \in changes /\ x \notin verified \cup pending /\ UNCHANGED snapshot
  BY DEF ChangeConfirm
<1>2. PICK y \in IF verified # {} THEN verified ELSE pending :
        Become((verified \ {y}) \cup {x}, pending \ {y}, {}, req)
  BY DEF ChangeConfirm
<1> DEFINE v == (verified \ {y}) \cup {x}
           p == pending \ {y}
<1>3. Become(v, p, {}, req)
  BY <1>2
<1>4. v \cap p = {} /\ (p \cup {}) \cap denied \subseteq old
      /\ v \cap denied \subseteq (verified \cap denied) \cup old
  BY <1>1, Addresses
<1>5. v \in SUBSET Addr /\ p \in SUBSET Addr /\ {} \in SUBSET Addr
  BY Addresses
<1> HIDE DEF v, p
<1> QED BY <1>1, <1>3, <1>4, <1>5, AsTheyAre, AccountStep

-----------------------------------------------------------------------------
(* Sign-ins and restarts                                                   *)

LEMMA SignInStep ==
  ASSUME IInv, SignIn
  PROVE  IInv'
<1>1. /\ UNCHANGED <<denied, required, restarts, old, verified, pending, changes, username,
                     ever, lost, answer, req>>
      /\ snapshot' = (verified # {})
  BY DEF SignIn, config_vars, account_vars
<1>2. World' = World
  BY <1>1 DEF World
<1>3. TypeOK'
  <2>1. snapshot' \in BOOLEAN
    BY <1>1
  <2> QED BY <1>1, <2>1 DEF IInv, TypeOK
<1>4. RulesInv'
  BY <1>1, <1>2 DEF IInv, RulesInv
<1>5. EverInv'
  BY <1>1 DEF IInv, EverInv
<1>6. SeenInv'
  BY <1>1, <1>2 DEF IInv, SeenInv
<1> QED BY <1>3, <1>4, <1>5, <1>6 DEF IInv

LEMMA RestartStep ==
  ASSUME IInv, NEW d \in SUBSET Addr, NEW q \in BOOLEAN, Restart(d, q)
  PROVE  IInv'
<1>1. /\ restarts < MaxRestarts /\ restarts' = restarts + 1
      /\ denied' = d /\ required' = q /\ old' = pending \cup changes /\ lost' = FALSE
      /\ answer' = "none" /\ req' = [r \in Req |-> Idle]
      /\ UNCHANGED <<verified, pending, changes, username, ever, snapshot>>
  BY DEF Restart
<1>2. TypeOK'
  <2>1. restarts' \in 0..MaxRestarts
    BY <1>1, DoorsAssumption DEF IInv, TypeOK
  <2>2. req' \in [Req -> [door : Door,
           pc : {"idle", "rules", "asked", "verify", "passed", "held", "refused", "removing"},
           copy : BOOLEAN, got : {"none", "admitted", "refused"}, addr : Addr \cup {None},
           seen : SUBSET {"verified", "unverified", "admitted", "refused"}]]
    BY <1>1, IdleIsRequest DEF Request, Pc, Asking
  <2>3. \A r \in Req : req'[r].pc = "asked" => req'[r].got # "none"
    BY <1>1, IdleIsRequest
  <2>4. /\ verified \subseteq Addr /\ pending \subseteq Addr /\ changes \subseteq Addr
        /\ verified \cap pending = {} /\ username \in BOOLEAN /\ snapshot \in BOOLEAN
        /\ ever \in BOOLEAN
    BY DEF IInv, TypeOK
  <2>5. old' \subseteq Addr
    BY <1>1, <2>4
  <2>6. lost' \in BOOLEAN /\ answer' \in {"none", "admitted", "refused"}
    BY <1>1
  <2> QED BY <1>1, <2>1, <2>2, <2>3, <2>4, <2>5, <2>6 DEF TypeOK
<1>3. RulesInv'
  BY <1>1 DEF RulesInv, Honest
<1>4. EverInv'
  BY <1>1 DEF IInv, EverInv
<1>5. SeenInv'
  BY <1>1, IdleStands DEF SeenInv
<1> QED BY <1>2, <1>3, <1>4, <1>5 DEF IInv

-----------------------------------------------------------------------------
(* The theorems                                                            *)

LEMMA Initially == Init => IInv
<1> SUFFICES ASSUME Init PROVE IInv
  OBVIOUS
<1>1. PICK x \in Addr \ denied : pending = {x}
  BY DEF Init
<1>2. req = [r \in Req |-> Idle]
  BY DEF Init
<1>3. TypeOK
  <2>1. req \in [Req -> [door : Door,
           pc : {"idle", "rules", "asked", "verify", "passed", "held", "refused", "removing"},
           copy : BOOLEAN, got : {"none", "admitted", "refused"}, addr : Addr \cup {None},
           seen : SUBSET {"verified", "unverified", "admitted", "refused"}]]
    BY <1>2, IdleIsRequest DEF Request, Pc, Asking
  <2>2. \A r \in Req : req[r].pc = "asked" => req[r].got # "none"
    BY <1>2, IdleIsRequest
  <2>3. restarts \in 0..MaxRestarts
    BY DoorsAssumption DEF Init
  <2> QED BY <1>1, <2>1, <2>2, <2>3 DEF Init, TypeOK
<1>4. RulesInv
  BY <1>1 DEF Init, RulesInv, Honest
<1>5. EverInv
  BY DEF Init, EverInv
<1>6. SeenInv
  BY <1>2, IdleStands DEF SeenInv
<1> QED BY <1>3, <1>4, <1>5, <1>6 DEF IInv

LEMMA StutterStep ==
  ASSUME IInv, UNCHANGED vars
  PROVE  IInv'
<1>1. /\ UNCHANGED <<denied, required, restarts, old, verified, pending, changes, username,
                     ever, lost, answer, snapshot, req>>
  BY DEF vars, config_vars, account_vars
<1>2. World' = World
  BY <1>1 DEF World
<1>3. TypeOK'
  BY <1>1 DEF IInv, TypeOK
<1>4. RulesInv'
  BY <1>1, <1>2 DEF IInv, RulesInv
<1>5. EverInv'
  BY <1>1 DEF IInv, EverInv
<1>6. SeenInv'
  BY <1>1, <1>2 DEF IInv, SeenInv
<1> QED BY <1>3, <1>4, <1>5, <1>6 DEF IInv

LEMMA Inductive == IInv /\ [Next]_vars => IInv'
<1> SUFFICES ASSUME IInv, [Next]_vars PROVE IInv'
  OBVIOUS
<1>1. ASSUME NEW r \in Req, NEW d \in Door, Arrive(r, d) PROVE IInv'
  BY <1>1, ArriveStep
<1>2. ASSUME NEW r \in Req, RulesKnown(r) PROVE IInv'
  BY <1>2, RulesKnownStep
<1>3. ASSUME NEW r \in Req, RulesAsk(r) PROVE IInv'
  BY <1>3, RulesAskStep
<1>4. ASSUME NEW r \in Req, RulesKeep(r) PROVE IInv'
  BY <1>4, RulesKeepStep
<1>5. ASSUME NEW r \in Req, Verify(r) PROVE IInv'
  BY <1>5, VerifyStep
<1>6. ASSUME NEW r \in Req, Leave(r) PROVE IInv'
  BY <1>6, LeaveStep
<1>7. ASSUME NEW r \in Req, NEW x \in Addr, Add(r, x) PROVE IInv'
  BY <1>7, AddStep
<1>8. ASSUME NEW x \in Addr, VerifyAddress(x) PROVE IInv'
  BY <1>8, VerifyAddressStep
<1>9. ASSUME NEW x \in Addr, Connect(x) PROVE IInv'
  BY <1>9, ConnectStep
<1>10. ASSUME NEW r \in Req, NEW x \in Addr, RemoveRead(r, x) PROVE IInv'
  BY <1>10, RemoveReadStep
<1>11. ASSUME NEW r \in Req, RemoveCommit(r) PROVE IInv'
  BY <1>11, RemoveCommitStep
<1>12. ASSUME NEW r \in Req, NEW x \in Addr, ChangeRequest(r, x) PROVE IInv'
  BY <1>12, ChangeRequestStep
<1>13. ASSUME NEW x \in Addr, ChangeConfirm(x) PROVE IInv'
  BY <1>13, ChangeConfirmStep
<1>14. ASSUME SignIn PROVE IInv'
  BY <1>14, SignInStep
<1>15. ASSUME NEW d \in SUBSET Addr, NEW q \in BOOLEAN, Restart(d, q) PROVE IInv'
  BY <1>15, RestartStep
<1>16. ASSUME UNCHANGED vars PROVE IInv'
  BY <1>16, StutterStep
<1> QED BY <1>1, <1>2, <1>3, <1>4, <1>5, <1>6, <1>7, <1>8, <1>9, <1>10, <1>11, <1>12, <1>13,
           <1>14, <1>15, <1>16 DEF Next

LEMMA Invariant == Spec => []IInv
  BY Initially, Inductive, PTL DEF Spec

\* The account, the session, the answer and the requests keep their types, for
\* any addresses, requests and number of restarts.
THEOREM TypeCorrect == Spec => []TypeOK
<1>1. IInv => TypeOK
  BY DEF IInv
<1> QED BY <1>1, Invariant, PTL

\* account_access_refusal keeps its answers for as long as the process runs:
\* one is wrong only for an address that was under way when the rules came.
THEOREM AnswersAreHonest == Spec => []StaleAnswersPredateRules
<1>1. IInv => StaleAnswersPredateRules
  BY DEF IInv, RulesInv, Honest, World, StaleAnswersPredateRules
<1> QED BY <1>1, Invariant, PTL

\* Whatever requests, sign-ins and changes of addresses interleave, whoever a
\* door let in had been verified and admitted when or before it asked.
THEOREM PassersStood == Spec => []WhoPassesStood
<1>1. IInv => WhoPassesStood
  <2> SUFFICES ASSUME IInv, NEW r \in Req, req[r].pc = "passed"
               PROVE  /\ (required /\ req[r].door # "fix") =>
                            "verified" \in req[r].seen \/ (ever /\ req[r].door \in SessionDoor)
                      /\ "admitted" \in req[r].seen \/ old \cap denied # {}
    BY DEF WhoPassesStood
  <2> QED BY Known DEF Stands, Proved, Admits
<1> QED BY <1>1, Invariant, PTL

\* Whom a door turned away was unverified, or denied, while it asked.
THEOREM TurnedAwayFell == Spec => []WhoIsTurnedAwayFell
<1>1. IInv => WhoIsTurnedAwayFell
  <2> SUFFICES ASSUME IInv, NEW r \in Req
               PROVE  /\ req[r].pc = "held" => "unverified" \in req[r].seen
                      /\ req[r].pc = "refused" => "refused" \in req[r].seen \/ lost
    BY DEF WhoIsTurnedAwayFell
  <2> QED BY Known DEF Stands
<1> QED BY <1>1, Invariant, PTL

-----------------------------------------------------------------------------
(* Gates                                                                   *)

(***************************************************************************)
(* The inductive invariant.  ConfigInv: what a process that runs was left  *)
(* with by make_config's refusals.  ToldInv: a target that is judged is    *)
(* told to the sidecar as it is, or as private.  SessionInv: whom a        *)
(* sign-in let in under a list of allowed addresses either proved one, or  *)
(* is held until they do.                                                  *)
(***************************************************************************)
ConfigInv ==
  /\ FlowsAreServed
  /\ config.allow /\ config.flows \cap PendingFlow # {} => config.required

ToldInv == class # "bad" => told \in {class, "private"}

SessionInv ==
  /\ stage = "boot" => session = Nobody
  /\ config.allow /\ session # Nobody /\ session.via \in Flow =>
       session.proven \/ (session.verified = "none" /\ config.required)

GatesInv == GatesTypeOK /\ ConfigInv /\ ToldInv /\ SessionInv

-----------------------------------------------------------------------------
(* The configuration                                                       *)

\* The flows that are available have what they need.
LEMMA AvailableAreServed ==
  ASSUME NEW s \in Setting, ~ChannelRefused(s, s.magic)
  PROVE  /\ AvailableFlows(s) \subseteq Flow
         /\ AvailableFlows(s) \cap {"email", "magic_link", "magic_code"} # {} => MailerEnabled(s)
         /\ AvailableFlows(s) \cap Oauth \subseteq s.given
<1>1. MagicFlows(s) \subseteq {"magic_link", "magic_code"}
  BY DEF MagicFlows
<1>2. MagicFlows(s) # {} => MailerEnabled(s)
  BY DEF MagicFlows, ChannelEnabled, ChannelRefused
<1>3. s.given \subseteq Oauth
  BY DEF Setting
<1>4. Oauth \cap {"username", "email", "magic_link", "magic_code"} = {}
  BY SettingsAssumption DEF Oauth
<1>5. AvailableFlows(s) \subseteq Flow
  BY <1>1, <1>3 DEF AvailableFlows, Flow
<1>6. ASSUME NEW f \in AvailableFlows(s), f \in {"email", "magic_link", "magic_code"}
      PROVE  MailerEnabled(s)
  BY <1>2, <1>3, <1>4, <1>6 DEF AvailableFlows
<1>7. ASSUME NEW f \in AvailableFlows(s), f \in Oauth PROVE f \in s.given
  BY <1>1, <1>4, <1>7 DEF AvailableFlows
<1>8. QED
  BY <1>5, <1>6, <1>7

\* What make_config does not refuse.
LEMMA ConfigIsSound ==
  ASSUME NEW s \in Setting, ~Refused(s), config' = Resolved(s)
  PROVE  /\ config' \in [flows : SUBSET Flow, mailer : BOOLEAN, given : SUBSET Oauth,
                         required : BOOLEAN, allow : BOOLEAN, deny : BOOLEAN, tokens : BOOLEAN]
         /\ ConfigInv'
<1>1. /\ ~ChannelRefused(s, s.magic)
      /\ ~FlowsRefused(s)
      /\ ~RulesRefused(s)
  BY DEF Refused
<1>2. EnabledFlows(s) \subseteq AvailableFlows(s)
  BY <1>1 DEF EnabledFlows, FlowsRefused, AvailableFlows
<1>3. /\ config'.flows = EnabledFlows(s)
      /\ config'.mailer = MailerEnabled(s)
      /\ config'.given = s.given
      /\ config'.required = VerificationRequired(s)
      /\ config'.allow = s.allow
  BY DEF Resolved
<1>4. FlowsAreServed'
  BY <1>1, <1>2, <1>3, AvailableAreServed DEF FlowsAreServed
<1>5. s.allow /\ EnabledFlows(s) \cap PendingFlow # {} => VerificationRequired(s)
  BY <1>1 DEF RulesRefused
<1>6. ConfigInv'
  BY <1>3, <1>4, <1>5 DEF ConfigInv
<1>7. /\ MailerEnabled(s) \in BOOLEAN
      /\ VerificationRequired(s) \in BOOLEAN
      /\ s.allow \in BOOLEAN /\ s.deny \in BOOLEAN /\ s.tokens \in BOOLEAN
      /\ s.given \in SUBSET Oauth
  BY DEF MailerEnabled, VerificationRequired, Setting
<1>8. EnabledFlows(s) \in SUBSET Flow
  BY <1>1, <1>2, AvailableAreServed
<1>9. QED
  BY <1>6, <1>7, <1>8 DEF Resolved

-----------------------------------------------------------------------------
(* The target                                                              *)

\* Where the reverse proxy's header and the client's disagree, the path is no
\* path, and that is private.
LEMMA ToldIsClass ==
  ASSUME NEW t, NEW uris, uris = <<>> \/ \E f : uris = <<f>>
  PROVE  PathClass(SidecarPath(<<t>> \o uris)) \in {PathClass(PathOf(t)), "private"}
<1> DEFINE all == <<t>> \o uris
           paths == {PathOf(all[i]) : i \in DOMAIN all}
<1>1. PathClass(<<>>) = "private"
  BY DEF PathClass, IsPublicPath, IsOptionalAuthPath, CanonicalPath
<1>2. PathOf(t) \in paths
  <2>1. CASE uris = <<>>
    BY <2>1
  <2>2. CASE \E f : uris = <<f>>
    BY <2>2
  <2>3. QED
    BY <2>1, <2>2
<1>3. IsFiniteSet(paths)
  <2>1. CASE uris = <<>>
    <3>1. paths = {PathOf(t)}
      BY <2>1
    <3>2. QED
      BY <3>1, FS_Singleton
  <2>2. ASSUME NEW f, uris = <<f>> PROVE IsFiniteSet(paths)
    <3>1. paths = {PathOf(t)} \cup {PathOf(f)}
      BY <2>2
    <3>2. IsFiniteSet({PathOf(t)}) /\ IsFiniteSet({PathOf(f)})
      BY FS_Singleton
    <3>3. IsFiniteSet({PathOf(t)} \cup {PathOf(f)})
      BY <3>2, FS_Union
    <3>4. QED
      BY <3>1, <3>3
  <2>3. QED
    BY <2>1, <2>2
<1>4. CASE Cardinality(paths) = 1
  <2>1. PICK x : paths = {x}
    BY <1>3, <1>4, FS_Singleton
  <2>2. (CHOOSE p \in paths : TRUE) = PathOf(t)
    BY <1>2, <2>1
  <2>3. QED
    BY <1>4, <2>2 DEF SidecarPath
<1>5. CASE Cardinality(paths) # 1
  BY <1>1, <1>5 DEF SidecarPath
<1>6. QED
  BY <1>4, <1>5

-----------------------------------------------------------------------------
(* Signing in                                                              *)

\* Under a list of allowed addresses a sign-in proves one, or leaves an account
\* without any, which is held.
LEMMA AdmittedIsProven ==
  ASSUME ConfigInv, config.allow,
         NEW via \in Flow, NEW held \in Verified, NEW address \in Verified,
         NEW vouched \in BOOLEAN, MaySignIn(via, held, address, vouched)
  PROVE  \/ Proves(via, held, address, vouched)
         \/ VerifiedAfter(via, held, address) = "none" /\ config.required
<1>1. RulesGiven /\ via \in config.flows /\ held \in {"none", "passing"}
  BY DEF RulesGiven, MaySignIn, Verified
<1>2. Vouching \cap {"username", "email", "magic_link", "magic_code", "facebook"} = {}
  BY SettingsAssumption
<1>3. CASE via = "username"
  BY <1>1, <1>2, <1>3 DEF MaySignIn, Oauth, Proves
<1>4. CASE via \in Vouching
  BY <1>1, <1>2, <1>4 DEF MaySignIn, OAuthAdmits, Brought, Oauth, Proves
<1>5. CASE via \in {"magic_link", "magic_code"}
  BY <1>1, <1>2, <1>5 DEF MaySignIn, Oauth, Proves, Verified
<1>6. CASE via \in PendingFlow
  BY <1>1, <1>6 DEF ConfigInv, PendingFlow, Proves, VerifiedAfter
<1>7. QED
  BY <1>3, <1>4, <1>5, <1>6 DEF Flow, Oauth, PendingFlow

-----------------------------------------------------------------------------
(* The steps                                                               *)

\* What a sign-in makes of a session.
LEMMA SignedIn ==
  ASSUME GatesInv,
         NEW via \in Flow, NEW held \in Verified, NEW address \in Verified,
         NEW vouched \in BOOLEAN, ComeSignedIn(via, held, address, vouched)
  PROVE  GatesInv'
<1> DEFINE after == VerifiedAfter(via, held, address)
           proves == Proves(via, held, address, vouched)
<1>1. MaySignIn(via, held, address, vouched)
  BY DEF ComeSignedIn
<1>2. after \in Verified /\ proves \in BOOLEAN
  BY DEF VerifiedAfter, Proves
<1>3. session' = [via |-> via, verified |-> after, proven |-> proves]
  BY DEF ComeSignedIn
<1>4. config.allow => proves \/ (after = "none" /\ config.required)
  BY <1>1, AdmittedIsProven DEF GatesInv
<1>5. via \in config.flows
  BY <1>1 DEF MaySignIn
<1> HIDE DEF after, proves
<1>6. session' \in Session
  BY <1>2, <1>3 DEF Session
<1>7. UNCHANGED <<config, target, class, told>> /\ stage' = "in"
  BY DEF ComeSignedIn
<1>8. GatesTypeOK'
  BY <1>3, <1>5, <1>6, <1>7 DEF GatesInv, GatesTypeOK
<1>9. SessionInv'
  BY <1>3, <1>4, <1>7 DEF SessionInv
<1>10. QED
  BY <1>7, <1>8, <1>9 DEF GatesInv, ConfigInv, FlowsAreServed, ToldInv

\* The process judges the target, and the reverse proxy tells the sidecar of it.
LEMMA Judged ==
  ASSUME GatesInv, NEW uris, uris = <<>> \/ \E f : uris = <<f>>, Judge(uris) PROVE GatesInv'
<1>1. told' \in {PathClass(PathOf(target)), "private"}
  BY ToldIsClass DEF Judge
<1>2. \A path : PathClass(path) \in {"public", "optional", "private"}
  BY DEF PathClass
<1>3. class' \in {PathClass(PathOf(target)), "bad"}
  BY DEF Judge
<1>4. UNCHANGED <<config, session>> /\ stage' = "judged" /\ target' = <<>>
  BY DEF Judge
<1>5. GatesTypeOK'
  BY <1>1, <1>2, <1>3, <1>4 DEF GatesInv, GatesTypeOK
<1>6. ToldInv'
  BY <1>1, <1>3 DEF ToldInv
<1>7. QED
  BY <1>4, <1>5, <1>6 DEF GatesInv, ConfigInv, FlowsAreServed, SessionInv

LEMMA GatesStep == ASSUME GatesInv, [GatesNext]_gatesVars PROVE GatesInv'
<1>1. CASE Configure
  <2>1. PICK s \in Settings :
          IF Refused(s)
          THEN stage' = "exited" /\ UNCHANGED config
          ELSE stage' = "up" /\ config' = Resolved(s)
    BY <1>1 DEF Configure
  <2>2. UNCHANGED <<target, class, told, session>> /\ session = Nobody /\ stage' \in {"exited", "up"}
    BY <1>1, <2>1 DEF Configure, GatesInv, SessionInv
  <2>3. /\ config' \in [flows : SUBSET Flow, mailer : BOOLEAN, given : SUBSET Oauth,
                        required : BOOLEAN, allow : BOOLEAN, deny : BOOLEAN, tokens : BOOLEAN]
        /\ ConfigInv'
    <3>1. CASE Refused(s)
      BY <2>1, <3>1 DEF GatesInv, GatesTypeOK, ConfigInv, FlowsAreServed
    <3>2. CASE ~Refused(s)
      BY <2>1, <3>2, GatesAssumption, ConfigIsSound
    <3>3. QED
      BY <3>1, <3>2
  <2>4. GatesTypeOK'
    BY <2>2, <2>3 DEF GatesInv, GatesTypeOK
  <2>5. QED
    BY <2>2, <2>3, <2>4 DEF GatesInv, ToldInv, SessionInv
<1>2. ASSUME NEW t \in Targets, Receive(t) PROVE GatesInv'
  BY <1>2 DEF Receive, GatesInv, GatesTypeOK, ConfigInv, FlowsAreServed, ToldInv, SessionInv
<1>3. ASSUME NEW uris \in {<<>>} \cup {<<t>> : t \in Forged}, Judge(uris) PROVE GatesInv'
  BY <1>3, Judged
<1>4. ASSUME NEW via \in Flow, NEW held \in Verified, NEW address \in Verified,
             NEW vouched \in BOOLEAN, ComeSignedIn(via, held, address, vouched)
      PROVE  GatesInv'
  BY <1>4, SignedIn
<1>5. ASSUME NEW held \in Verified, ComeOlder(held) PROVE GatesInv'
  <2>1. session' = [via |-> "older", verified |-> held, proven |-> FALSE]
    BY <1>5 DEF ComeOlder
  <2>2. session' \in Session
    BY <2>1 DEF Session
  <2>3. "older" \notin Flow
    BY SettingsAssumption DEF Flow, Oauth
  <2>4. UNCHANGED <<config, target, class, told>> /\ stage' = "in"
    BY <1>5 DEF ComeOlder
  <2>5. QED
    BY <2>1, <2>2, <2>3, <2>4
       DEF GatesInv, GatesTypeOK, ConfigInv, FlowsAreServed, ToldInv, SessionInv
<1>6. CASE ComeAnonymous
  BY <1>6 DEF ComeAnonymous, GatesInv, GatesTypeOK, ConfigInv, FlowsAreServed, ToldInv, SessionInv
<1>7. CASE Respond
  BY <1>7 DEF Respond, GatesInv, GatesTypeOK, ConfigInv, FlowsAreServed, ToldInv, SessionInv
<1>8. CASE UNCHANGED gatesVars
  BY <1>8 DEF gatesVars, GatesInv, GatesTypeOK, ConfigInv, FlowsAreServed, ToldInv, SessionInv
<1>9. QED
  BY <1>1, <1>2, <1>3, <1>4, <1>5, <1>6, <1>7, <1>8 DEF GatesNext

LEMMA GatesInvariant == GatesSpec => []GatesInv
<1>1. GatesInit => GatesInv
  <2> SUFFICES ASSUME GatesInit PROVE GatesInv
    OBVIOUS
  <2>1. GatesTypeOK
    BY DEF GatesInit, GatesTypeOK, NoConfig
  <2>2. ConfigInv /\ ToldInv /\ SessionInv
    BY DEF GatesInit, NoConfig, Nobody, ConfigInv, FlowsAreServed, ToldInv, SessionInv
  <2>3. QED
    BY <2>1, <2>2 DEF GatesInv
<1>2. GatesInv /\ [GatesNext]_gatesVars => GatesInv'
  BY GatesStep
<1>3. QED
  BY <1>1, <1>2, PTL DEF GatesSpec

-----------------------------------------------------------------------------
(* The doors' answers                                                      *)

Asker == {"stop", "nobody", "session", "token"}

\* The sidecar answers to a path of this class as the proxy does.
LEMMA SidecarIsProxy ==
  ASSUME NEW c, c # "bad", NEW who \in Asker
  PROVE  SidecarAnswer(c, who) = ProxyAnswer(c, who)
<1> DEFINE turned == Refuses \/ (who = "session" /\ Holds)
<1>1. CASE who = "stop"
  BY <1>1 DEF SidecarAnswer, ProxyAnswer, ProxyAdmits
<1>2. CASE who # "stop" /\ c = "public"
  BY <1>2 DEF SidecarAnswer, ProxyAnswer, ProxyAdmits
<1>3. CASE who = "nobody" /\ c # "public"
  BY <1>3 DEF SidecarAnswer, ProxyAnswer, ProxyAdmits
<1>4. CASE who \in {"session", "token"} /\ c # "public" /\ turned
  <2>1. ProxyAdmits(c, who) = FALSE
    BY <1>4 DEF ProxyAdmits
  <2>2. QED
    BY <1>4, <2>1 DEF SidecarAnswer, ProxyAnswer
<1>5. CASE who \in {"session", "token"} /\ c # "public" /\ ~turned
  <2>1. ProxyAdmits(c, who) = TRUE
    BY <1>5 DEF ProxyAdmits
  <2>2. QED
    BY <1>5, <2>1 DEF SidecarAnswer, ProxyAnswer
<1>6. QED
  BY <1>1, <1>2, <1>3, <1>4, <1>5 DEF Asker

\* Who asks is one of these, and nobody without a session is an account.
LEMMA WhoAsks ==
  ASSUME NEW cred \in Carried
  PROVE  /\ AuthenticateHttp(cred) \in Asker
         /\ session = Nobody => AuthenticateHttp(cred) \in {"stop", "nobody"}
         /\ AuthenticateHttp(cred) = "token" => ~Refuses /\ ~Holds
  BY DEF Carried, AuthenticateHttp, Asker, Credentials

\* The upgrade lets in whom the proxy lets in, as the same.
LEMMA UpgradeIsProxy ==
  ASSUME NEW cred \in Carried, AuthenticateWs(cred) # "stop"
  PROVE  ProxyAnswer("private", AuthenticateHttp(cred)) = [in |-> TRUE, as |-> AuthenticateWs(cred)]
<1>1. ~Refuses /\ ~Holds /\ session # Nobody
  BY DEF AuthenticateWs
<1>2. AuthenticateHttp(cred) = AuthenticateWs(cred) /\ AuthenticateWs(cred) \in {"session", "token"}
  BY <1>1 DEF AuthenticateWs, AuthenticateHttp
<1>3. ProxyAdmits("private", AuthenticateHttp(cred)) = TRUE
  BY <1>1, <1>2 DEF ProxyAdmits
<1>4. QED
  BY <1>2, <1>3 DEF ProxyAnswer

-----------------------------------------------------------------------------
(* Induction and recursion, said of sets                                   *)

\* The naturals are well-founded, so a set of them has a least element.
LEMMA LeastOf ==
  ASSUME NEW S \in SUBSET Nat, S # {} PROVE \E x \in S : \A y \in S : x <= y
<1> DEFINE R == OpToRel(<, Nat)
<1>1. \A x, y \in Nat : y < x => <<y, x>> \in R
  BY DEF OpToRel
<1>2. IsWellFoundedOn(R, Nat)
  BY NatLessThanWellFounded
<1> HIDE DEF R
<1>3. PICK x \in S : \A y \in S : ~(<<y, x>> \in R)
  BY <1>2, WFMin
<1>4. ASSUME NEW y \in S PROVE x <= y
  <2>1. x \in Nat /\ y \in Nat
    OBVIOUS
  <2>2. ~(y < x)
    BY <1>1, <1>3, <2>1
  <2>3. QED
    BY <2>1, <2>2
<1>5. QED
  BY <1>4

\* Induction, over the set of the numbers a claim holds of.
LEMMA SetInduction ==
  ASSUME NEW T, 0 \in T, \A n \in Nat : n \in T => n + 1 \in T PROVE Nat \subseteq T
<1> DEFINE S == {n \in Nat : n \notin T}
<1> SUFFICES ASSUME S # {} PROVE FALSE
  OBVIOUS
<1>1. S \in SUBSET Nat
  OBVIOUS
<1>2. PICK x \in S : \A y \in S : x <= y
  <2> HIDE DEF S
  <2> QED
    BY <1>1, LeastOf
<1>3. x # 0 /\ x - 1 \in Nat /\ x - 1 \notin S
  BY <1>2
<1>4. QED
  BY <1>2, <1>3

\* A function defined by recursion on its argument exists.
Solves(f, a, step, m) == f[0] = a /\ \A n \in 1..m : f[n] = step[<<f[n - 1], n>>]

LEMMA Recursion ==
  ASSUME NEW N \in Nat, NEW S, NEW a \in S, NEW step \in [S \X (1..N) -> S]
  PROVE  \E f \in [0..N -> S] : Solves(f, a, step, N)
<1> USE DEF Solves
<1> DEFINE T == {m \in Nat : m <= N => \E f \in [0..m -> S] : Solves(f, a, step, m)}
<1>1. 0 \in T
  <2>1. [n \in 0..0 |-> a] \in [0..0 -> S] /\ Solves([n \in 0..0 |-> a], a, step, 0)
    OBVIOUS
  <2>2. QED
    BY <2>1
<1>2. ASSUME NEW m \in Nat, m \in T, m + 1 <= N PROVE m + 1 \in T
  <2>1. PICK f \in [0..m -> S] : Solves(f, a, step, m)
    BY <1>2
  <2> DEFINE g == [n \in 0..m + 1 |-> IF n <= m THEN f[n] ELSE step[<<f[m], m + 1>>]]
  <2>2. g \in [0..m + 1 -> S]
    <3>1. step[<<f[m], m + 1>>] \in S
      BY <1>2
    <3>2. QED
      BY <3>1
  <2>3. \A n \in 0..m : g[n] = f[n]
    OBVIOUS
  <2>4. g[m + 1] = step[<<f[m], m + 1>>]
    OBVIOUS
  <2>5. 0 \in 0..m /\ m \in 0..m
    OBVIOUS
  <2> HIDE DEF g
  <2>6. g[0] = a
    BY <2>1, <2>3, <2>5
  <2>7. ASSUME NEW n \in 1..m + 1 PROVE g[n] = step[<<g[n - 1], n>>]
    <3>1. CASE n \in 1..m
      <4>1. n - 1 \in 0..m /\ n \in 0..m
        BY <3>1
      <4>2. g[n] = f[n] /\ g[n - 1] = f[n - 1]
        BY <2>3, <4>1
      <4>3. f[n] = step[<<f[n - 1], n>>]
        BY <2>1, <3>1
      <4>4. QED
        BY <4>2, <4>3
    <3>2. CASE n = m + 1
      <4>1. n - 1 = m
        BY <3>2
      <4>2. QED
        BY <2>3, <2>4, <2>5, <3>2, <4>1
    <3>3. QED
      BY <3>1, <3>2
  <2>8. Solves(g, a, step, m + 1)
    BY <2>6, <2>7
  <2>9. QED
    BY <2>2, <2>8
<1>3. Nat \subseteq T
  <2>1. ASSUME NEW m \in Nat, m \in T PROVE m + 1 \in T
    <3>1. CASE m + 1 <= N
      BY <1>2, <2>1, <3>1
    <3>2. CASE ~(m + 1 <= N)
      BY <3>2
    <3>3. QED
      BY <3>1, <3>2
  <2> HIDE DEF T
  <2>2. QED
    BY <1>1, <2>1, SetInduction
<1>4. N \in T
  BY <1>3
<1>5. \E f \in [0..N -> S] : Solves(f, a, step, N)
  BY <1>4
<1>6. QED
  BY <1>5

-----------------------------------------------------------------------------
(* Paths                                                                   *)

\* The last slash is one, if there is any.
LEMMA SlashOf ==
  ASSUME NEW p \in Seq(Token)
  PROVE  /\ LastSlash(p) \in 0..Len(p)
         /\ LastSlash(p) # 0 => p[LastSlash(p)] = "/"
<1> DEFINE S == {0} \cup {i \in DOMAIN p : p[i] = "/"}
           Above == {m \in Nat : \A y \in S : y <= m}
<1>1. S \subseteq 0..Len(p) /\ Len(p) \in Nat
  OBVIOUS
<1>2. PICK m \in Above : \A n \in Above : m <= n
  <2>1. Above \in SUBSET Nat /\ Len(p) \in Above
    BY <1>1
  <2> HIDE DEF Above
  <2>2. QED
    BY <2>1, LeastOf
<1>3. m \in S
  <2>1. SUFFICES ASSUME m \notin S PROVE FALSE
    OBVIOUS
  <2>2. m # 0
    BY <2>1
  <2>3. m - 1 \in Above
    BY <1>1, <1>2, <2>1, <2>2
  <2>4. QED
    BY <1>2, <2>3
<1>4. \E x \in S : \A y \in S : x >= y
  BY <1>1, <1>2, <1>3
<1>5. Max(S) \in S
  <2> HIDE DEF S
  <2> QED
    BY <1>4 DEF Max
<1>6. LastSlash(p) \in S
  BY <1>5 DEF LastSlash
<1>7. QED
  BY <1>1, <1>6

\* What is cut off at a token leaves a path.
LEMMA BeforeIsPath ==
  ASSUME NEW s \in Seq(Token), NEW token
  PROVE  /\ Before(s, token) \in Seq(Token)
         /\ ToSet(Before(s, token)) \subseteq ToSet(s)
         /\ token \notin ToSet(s) => Before(s, token) = s
<1> DEFINE at == {i \in DOMAIN s : s[i] = token}
<1>1. CASE at = {}
  BY <1>1 DEF Before, ToSet
<1>2. CASE at # {}
  <2>1. at \in SUBSET Nat
    OBVIOUS
  <2>2. \E x \in at : \A y \in at : x <= y
    <3> HIDE DEF at
    <3> QED
      BY <1>2, <2>1, LeastOf
  <2>3. Min(at) \in at
    <3> HIDE DEF at
    <3> QED
      BY <2>2 DEF Min
  <2>4. Before(s, token) = SubSeq(s, 1, Min(at) - 1)
    BY <1>2 DEF Before
  <2>5. Min(at) - 1 \in 0..Len(s)
    BY <2>3
  <2>6. ASSUME NEW n \in 0..Len(s) PROVE SubSeq(s, 1, n) \in Seq(Token) /\ ToSet(SubSeq(s, 1, n)) \subseteq ToSet(s)
    BY DEF ToSet
  <2>7. token \in ToSet(s)
    BY <1>2 DEF ToSet
  <2>8. QED
    BY <2>4, <2>5, <2>6, <2>7
<1>3. QED
  BY <1>1, <1>2

\* Decoding again changes nothing in a path that decodes to nothing encoded.
LEMMA DecodedOnce ==
  ASSUME NEW p \in Seq(Token)
  PROVE  /\ Decoded(p) \in Seq(Token)
         /\ ToSet(Decoded(p)) \cap {"\\", "%2e", "%2f"} = {} =>
              /\ Decoded(Decoded(p)) = Decoded(p)
              /\ Translated(Decoded(p), "\\", "/") = Decoded(p)
<1> DEFINE d == Decoded(p)
<1>1. \A t \in DOMAIN Decoding : Decoding[t] \in {".", "/", "\\", "%2e", "%2f"}
  BY DEF Decoding
<1>2. DOMAIN Decoding = {"%2e", "%2f", "%5c", "%252e", "%252f"}
  BY DEF Decoding
<1>3. /\ DOMAIN d = DOMAIN p
      /\ \A i \in DOMAIN p : d[i] = IF p[i] \in DOMAIN Decoding THEN Decoding[p[i]] ELSE p[i]
  BY DEF Decoded
<1>4. ASSUME NEW i \in DOMAIN p PROVE d[i] \in Token
  <2>1. p[i] \in Token
    OBVIOUS
  <2>2. CASE p[i] \in DOMAIN Decoding
    BY <1>1, <1>3, <2>2, RequestPathAssumption
  <2>3. CASE p[i] \notin DOMAIN Decoding
    BY <1>3, <2>1, <2>3
  <2>4. QED
    BY <2>2, <2>3
<1>5. d \in Seq(Token)
  BY <1>4 DEF Decoded
<1>6. ASSUME ToSet(d) \cap {"\\", "%2e", "%2f"} = {}
      PROVE  /\ Decoded(d) = d
             /\ Translated(d, "\\", "/") = d
  <2>1. \A i \in DOMAIN d : d[i] \notin DOMAIN Decoding /\ d[i] # "\\"
    BY <1>1, <1>2, <1>3, <1>6 DEF ToSet
  <2>2. d = [i \in DOMAIN d |-> d[i]]
    BY <1>5
  <2> HIDE DEF d
  <2>3. QED
    BY <2>1, <2>2 DEF Decoded, Translated
<1>7. QED
  BY <1>5, <1>6

-----------------------------------------------------------------------------
(* Resolving dots                                                          *)

\* What is left of a path is a path.
LEMMA ParentIsPath == ASSUME NEW p \in Seq(Token) PROVE Parent(p) \in Seq(Token)
  BY SlashOf DEF Parent

LEMMA ResolvedIsPath ==
  ASSUME NEW p \in Seq(Token), NEW last \in BOOLEAN
  PROVE  SegmentResolved(p, last) \in Seq(Token)
<1> DEFINE slash == IF last THEN <<"/">> ELSE <<>>
<1>1. Parent(p) \in Seq(Token) /\ Parent(Parent(p)) \in Seq(Token)
  BY ParentIsPath
<1>2. slash \in Seq(Token)
  <2>1. "/" \in Token
    BY RequestPathAssumption
  <2>2. <<"/">> \in Seq(Token)
    BY <2>1
  <2>3. QED
    BY <2>2
<1>3. Parent(p) \o slash \in Seq(Token) /\ Parent(Parent(p)) \o slash \in Seq(Token)
  BY <1>1, <1>2, ConcatProperties
<1>4. QED
  BY <1>3 DEF SegmentResolved

\* A segment of a normal path resolves to itself.
LEMMA NormalStays ==
  ASSUME NEW p \in Seq(Token), IsNormal(p), NEW n \in DOMAIN p, EndsAt(p, n)
  PROVE  SegmentResolved(SubSeq(p, 1, n), n = Len(p)) = SubSeq(p, 1, n)
<1> DEFINE o == SubSeq(p, 1, n)
<1>1. o \in Seq(Token) /\ Len(o) = n /\ n \in Nat /\ n > 0
  OBVIOUS
<1>2. /\ ~IsDot(LastSegment(o))
      /\ ~IsDotDot(LastSegment(o))
      /\ LastSegment(o) = <<>> => n = Len(p)
  BY DEF IsNormal
<1>3. CASE LastSegment(o) # <<>>
  BY <1>2, <1>3 DEF SegmentResolved
<1>4. CASE LastSegment(o) = <<>>
  <2> HIDE DEF o
  <2>1. LastSlash(o) = n /\ o[n] = "/"
    <3>1. LastSlash(o) \in 0..n /\ (LastSlash(o) # 0 => o[LastSlash(o)] = "/")
      BY <1>1, SlashOf
    <3>2. ASSUME NEW k \in 0..n, k # n PROVE SubSeq(o, k + 1, n) # <<>>
      <4>1. \A i \in k + 1..n : o[i] \in Token
        BY <1>1
      <4>2. Len(SubSeq(o, k + 1, n)) = n - (k + 1) + 1
        BY <1>1, <3>2, <4>1, SubSeqProperties
      <4>3. Len(<<>>) = 0
        OBVIOUS
      <4>4. n - (k + 1) + 1 # 0
        BY <1>1, <3>2
      <4>5. QED
        BY <4>2, <4>3, <4>4
    <3>3. QED
      BY <1>1, <1>4, <3>1, <3>2 DEF LastSegment
  <2>2. Parent(o) = SubSeq(o, 1, n - 1)
    BY <2>1 DEF Parent
  <2>3. SubSeq(o, 1, n - 1) \o <<"/">> = o
    BY <1>1, <2>1, SubSeqRecursiveSecond, SubSeqFull
  <2>4. QED
    BY <1>2, <1>4, <2>2, <2>3 DEF SegmentResolved, o
<1>5. QED
  BY <1>3, <1>4

\* The recursion of DotsResolved has a solution.
LEMMA DotsRecursion ==
  ASSUME NEW p \in Seq(Token)
  PROVE  \E out : /\ out[0] = <<>>
                  /\ \A n \in 1..Len(p) : out[n] = OutStep(p, out[n - 1], n)
                  /\ DotsResolved(p) = out[Len(p)]
<1> DEFINE step == [x \in Seq(Token) \X (1..Len(p)) |-> OutStep(p, x[1], x[2])]
           Eq(f) == f = [n \in 0..Len(p) |-> IF n = 0 THEN <<>> ELSE OutStep(p, f[n - 1], n)]
<1>1. step \in [Seq(Token) \X (1..Len(p)) -> Seq(Token)]
  <2>1. ASSUME NEW o \in Seq(Token), NEW n \in 1..Len(p) PROVE OutStep(p, o, n) \in Seq(Token)
    <3>1. Append(o, p[n]) \in Seq(Token)
      OBVIOUS
    <3>2. SegmentResolved(Append(o, p[n]), n = Len(p)) \in Seq(Token)
      BY <3>1, ResolvedIsPath
    <3>3. QED
      BY <3>1, <3>2 DEF OutStep
  <2>2. QED
    BY <2>1
<1>2. Len(p) \in Nat /\ <<>> \in Seq(Token)
  OBVIOUS
<1>3. PICK f \in [0..Len(p) -> Seq(Token)] :
        f[0] = <<>> /\ \A n \in 1..Len(p) : f[n] = step[<<f[n - 1], n>>]
  <2> DEFINE S == Seq(Token)
             N == Len(p)
             a == <<>>
  <2>1. N \in Nat /\ a \in S /\ step \in [S \X (1..N) -> S]
    BY <1>1, <1>2
  <2> HIDE DEF step, S, N, a
  <2>2. \E f \in [0..N -> S] : Solves(f, a, step, N)
    BY <2>1, Recursion
  <2>3. QED
    BY <2>2 DEF S, N, a, Solves
<1>4. ASSUME NEW n \in 1..Len(p) PROVE f[n] = OutStep(p, f[n - 1], n)
  <2>1. f[n - 1] \in Seq(Token)
    BY <1>2
  <2>2. step[<<f[n - 1], n>>] = OutStep(p, f[n - 1], n)
    BY <2>1
  <2>3. QED
    BY <1>3, <2>2
<1>5. Eq(f)
  <2> HIDE DEF step
  <2>1. f = [n \in 0..Len(p) |-> f[n]]
    OBVIOUS
  <2>2. \A n \in 0..Len(p) : f[n] = IF n = 0 THEN <<>> ELSE OutStep(p, f[n - 1], n)
    BY <1>2, <1>3, <1>4
  <2>3. QED
    BY <2>1, <2>2
<1> DEFINE out == CHOOSE g : Eq(g)
<1>6. Eq(out)
  <2> HIDE DEF Eq
  <2> QED
    BY <1>5
<1>7. DotsResolved(p) = out[Len(p)]
  BY DEF DotsResolved
<1> HIDE DEF out
<1>8. out[0] = <<>> /\ \A n \in 1..Len(p) : out[n] = OutStep(p, out[n - 1], n)
  BY <1>2, <1>6
<1>9. QED
  BY <1>7, <1>8

\* No dot of a normal path is resolved.
LEMMA NormalResolves ==
  ASSUME NEW p \in Seq(Token), IsNormal(p) PROVE DotsResolved(p) = p
<1>1. PICK out : /\ out[0] = <<>>
                 /\ \A n \in 1..Len(p) : out[n] = OutStep(p, out[n - 1], n)
                 /\ DotsResolved(p) = out[Len(p)]
  BY DotsRecursion
<1> DEFINE T == {n \in Nat : n <= Len(p) => out[n] = SubSeq(p, 1, n)}
<1>2. 0 \in T
  <2>1. SubSeq(p, 1, 0) = <<>>
    BY SubSeqEmpty
  <2>2. QED
    BY <1>1, <2>1
<1>3. ASSUME NEW m \in Nat, m \in T PROVE m + 1 \in T
  <2>1. SUFFICES ASSUME m + 1 <= Len(p) PROVE out[m + 1] = SubSeq(p, 1, m + 1)
    OBVIOUS
  <2>2. m + 1 \in DOMAIN p /\ m + 1 \in 1..Len(p) /\ m + 1 - 1 = m
    BY <2>1
  <2>3. out[m] = SubSeq(p, 1, m)
    BY <1>3, <2>1
  <2>4. Append(SubSeq(p, 1, m), p[m + 1]) = SubSeq(p, 1, m + 1)
    BY <2>1
  <2>5. out[m + 1] = OutStep(p, SubSeq(p, 1, m), m + 1)
    <3>1. out[m + 1] = OutStep(p, out[m + 1 - 1], m + 1)
      BY <1>1, <2>2
    <3>2. m + 1 - 1 = m
      OBVIOUS
    <3>3. QED
      BY <2>3, <3>1, <3>2
  <2>6. out[m + 1] = IF EndsAt(p, m + 1) THEN SegmentResolved(SubSeq(p, 1, m + 1), m + 1 = Len(p))
                     ELSE SubSeq(p, 1, m + 1)
    BY <2>4, <2>5 DEF OutStep
  <2>7. EndsAt(p, m + 1) => SegmentResolved(SubSeq(p, 1, m + 1), m + 1 = Len(p)) = SubSeq(p, 1, m + 1)
    BY <2>2, NormalStays
  <2>8. QED
    BY <2>6, <2>7
<1>4. Len(p) \in T
  <2> HIDE DEF T
  <2>1. Nat \subseteq T
    BY <1>2, <1>3, SetInduction
  <2>2. QED
    BY <2>1
<1>5. QED
  BY <1>1, <1>4, SubSeqFull

-----------------------------------------------------------------------------
(* Dropping ";params"                                                      *)

\* The recursion of Bare has a solution.
LEMMA KeptRecursion ==
  ASSUME NEW p \in Seq(Token)
  PROVE  \E kept : /\ kept[0] = <<>>
                   /\ \A n \in 1..Len(p) : kept[n] = KeptStep(p, kept[n - 1], n)
                   /\ Bare(p) = kept[Len(p)]
<1> DEFINE step == [x \in Seq(Token) \X (1..Len(p)) |-> KeptStep(p, x[1], x[2])]
           Eq(f) == f = [n \in 0..Len(p) |-> IF n = 0 THEN <<>> ELSE KeptStep(p, f[n - 1], n)]
<1>1. step \in [Seq(Token) \X (1..Len(p)) -> Seq(Token)]
  <2>1. ASSUME NEW o \in Seq(Token), NEW n \in 1..Len(p) PROVE KeptStep(p, o, n) \in Seq(Token)
    BY DEF KeptStep
  <2>2. QED
    BY <2>1
<1>2. Len(p) \in Nat /\ <<>> \in Seq(Token)
  OBVIOUS
<1>3. PICK f \in [0..Len(p) -> Seq(Token)] :
        f[0] = <<>> /\ \A n \in 1..Len(p) : f[n] = step[<<f[n - 1], n>>]
  <2> DEFINE S == Seq(Token)
             N == Len(p)
             a == <<>>
  <2>1. N \in Nat /\ a \in S /\ step \in [S \X (1..N) -> S]
    BY <1>1, <1>2
  <2> HIDE DEF step, S, N, a
  <2>2. \E f \in [0..N -> S] : Solves(f, a, step, N)
    BY <2>1, Recursion
  <2>3. QED
    BY <2>2 DEF S, N, a, Solves
<1>4. ASSUME NEW n \in 1..Len(p) PROVE f[n] = KeptStep(p, f[n - 1], n)
  <2>1. f[n - 1] \in Seq(Token)
    BY <1>2
  <2>2. step[<<f[n - 1], n>>] = KeptStep(p, f[n - 1], n)
    BY <2>1
  <2>3. QED
    BY <1>3, <2>2
<1>5. Eq(f)
  <2> HIDE DEF step
  <2>1. f = [n \in 0..Len(p) |-> f[n]]
    OBVIOUS
  <2>2. \A n \in 0..Len(p) : f[n] = IF n = 0 THEN <<>> ELSE KeptStep(p, f[n - 1], n)
    BY <1>2, <1>3, <1>4
  <2>3. QED
    BY <2>1, <2>2
<1> DEFINE kept == CHOOSE g : Eq(g)
<1>6. Eq(kept)
  <2> HIDE DEF Eq
  <2> QED
    BY <1>5
<1>7. Bare(p) = kept[Len(p)]
  BY DEF Bare
<1> HIDE DEF kept
<1>8. kept[0] = <<>> /\ \A n \in 1..Len(p) : kept[n] = KeptStep(p, kept[n - 1], n)
  BY <1>2, <1>6
<1>9. QED
  BY <1>7, <1>8

\* What comes before the first ";" is kept.
LEMMA BareKeeps ==
  ASSUME NEW p \in Seq(Token), NEW k \in 0..Len(p), \A i \in 1..k : p[i] # Semicolon
  PROVE  /\ Bare(p) \in Seq(Token)
         /\ k <= Len(Bare(p))
         /\ k = Len(p) => Len(Bare(p)) = k
         /\ \A i \in 1..k : Bare(p)[i] = p[i]
<1>1. PICK kept : /\ kept[0] = <<>>
                  /\ \A n \in 1..Len(p) : kept[n] = KeptStep(p, kept[n - 1], n)
                  /\ Bare(p) = kept[Len(p)]
  BY KeptRecursion
<1> DEFINE Keeps(s, n) == /\ s \in Seq(Token)
                          /\ n <= k => Len(s) = n
                          /\ n >= k => Len(s) >= k
                          /\ \A i \in 1..k : i <= n => s[i] = p[i]
           T == {n \in Nat : n <= Len(p) => Keeps(kept[n], n)}
<1>2. 0 \in T
  <2>1. Keeps(<<>>, 0)
    OBVIOUS
  <2> HIDE DEF Keeps
  <2>2. QED
    BY <1>1, <2>1
<1> HIDE DEF Keeps
<1>3. ASSUME NEW m \in Nat, m \in T PROVE m + 1 \in T
  <2>1. SUFFICES ASSUME m + 1 <= Len(p) PROVE Keeps(kept[m + 1], m + 1)
    OBVIOUS
  <2>2. m + 1 \in 1..Len(p) /\ m + 1 - 1 = m /\ m <= Len(p)
    BY <2>1
  <2>3. kept[m + 1] = KeptStep(p, kept[m], m + 1)
    BY <1>1, <2>2
  <2>4. Keeps(kept[m], m)
    BY <1>3, <2>2
  <2>5. p[m + 1] \in Token
    BY <2>2
  <2>6. ASSUME NEW s, Keeps(s, m), m + 1 <= k PROVE Keeps(KeptStep(p, s, m + 1), m + 1)
    <3>1. ~InParams(p, m + 1)
      BY <2>6 DEF InParams
    <3>2. s \in Seq(Token) /\ Len(s) = m /\ \A i \in 1..m : s[i] = p[i]
      BY <2>6 DEF Keeps
    <3>3. KeptStep(p, s, m + 1) = Append(s, p[m + 1])
      BY <3>1 DEF KeptStep
    <3>4. /\ Append(s, p[m + 1]) \in Seq(Token)
          /\ Len(Append(s, p[m + 1])) = m + 1
          /\ \A i \in 1..m + 1 : Append(s, p[m + 1])[i] = p[i]
      BY <2>5, <3>2
    <3>5. QED
      <4>1. /\ m + 1 <= k => Len(Append(s, p[m + 1])) = m + 1
            /\ m + 1 >= k => Len(Append(s, p[m + 1])) >= k
            /\ \A i \in 1..k : i <= m + 1 => Append(s, p[m + 1])[i] = p[i]
        BY <2>6, <3>4
      <4>2. QED
        BY <3>3, <3>4, <4>1 DEF Keeps
  <2>7. ASSUME NEW s, Keeps(s, m), k <= m PROVE Keeps(KeptStep(p, s, m + 1), m + 1)
    <3>1. s \in Seq(Token) /\ Len(s) >= k /\ \A i \in 1..k : s[i] = p[i]
      BY <2>7 DEF Keeps
    <3>2. /\ Append(s, p[m + 1]) \in Seq(Token)
          /\ Len(Append(s, p[m + 1])) >= k
          /\ \A i \in 1..k : Append(s, p[m + 1])[i] = p[i]
      BY <2>5, <3>1
    <3>3. KeptStep(p, s, m + 1) \in {s, Append(s, p[m + 1])}
      BY DEF KeptStep
    <3>4. ~(m + 1 <= k)
      BY <2>7
    <3>5. Keeps(s, m + 1) /\ Keeps(Append(s, p[m + 1]), m + 1)
      BY <2>7, <3>1, <3>2, <3>4 DEF Keeps
    <3>6. QED
      BY <3>3, <3>5
  <2>8. m + 1 <= k \/ k <= m
    OBVIOUS
  <2>9. QED
    BY <2>3, <2>4, <2>6, <2>7, <2>8
<1>4. Len(p) \in T
  <2> HIDE DEF T
  <2>1. Nat \subseteq T
    BY <1>2, <1>3, SetInduction
  <2>2. QED
    BY <2>1
<1>5. Keeps(Bare(p), Len(p))
  BY <1>1, <1>4
<1>6. QED
  BY <1>5 DEF Keeps

-----------------------------------------------------------------------------
(* A public target                                                         *)

\* Plain entries match without ";params" what they match with them.
LEMMA BareMatches ==
  ASSUME NEW paths, \A entry \in paths : entry.path \in Seq(Token), ArePlain(paths),
         NEW d \in Seq(Token), PathMatches(paths, d)
  PROVE  Bare(d) \in Seq(Token) /\ PathMatches(paths, Bare(d))
<1>1. PICK entry \in paths : IF entry.prefix THEN IsPrefix(entry.path, d) ELSE d = entry.path
  BY DEF PathMatches
<1> DEFINE e == entry.path
<1>2. e \in Seq(Token) /\ \A i \in 1..Len(e) : e[i] # Semicolon
  <2>1. e \in Seq(Token) /\ Semicolon \notin ToSet(e)
    BY DEF ArePlain
  <2>2. QED
    BY <2>1 DEF ToSet
<1> HIDE DEF e
<1>3. CASE entry.prefix
  <2>1. Len(e) <= Len(d) /\ SubSeq(e, 1, Len(e)) = SubSeq(d, 1, Len(e))
    BY <1>1, <1>3 DEF IsPrefix, e
  <2>2. Len(e) \in 0..Len(d)
    BY <1>2, <2>1
  <2>3. ASSUME NEW i \in 1..Len(e) PROVE d[i] = e[i]
    <3>1. SubSeq(e, 1, Len(e))[i] = e[i] /\ SubSeq(d, 1, Len(e))[i] = d[i]
      BY <1>2, <2>2
    <3>2. QED
      BY <2>1, <3>1
  <2>4. /\ Bare(d) \in Seq(Token)
        /\ Len(e) <= Len(Bare(d))
        /\ \A i \in 1..Len(e) : Bare(d)[i] = d[i]
    BY <1>2, <2>2, <2>3, BareKeeps
  <2>5. SubSeq(e, 1, Len(e)) = SubSeq(Bare(d), 1, Len(e))
    BY <1>2, <2>3, <2>4
  <2>6. IsPrefix(e, Bare(d))
    BY <2>4, <2>5 DEF IsPrefix
  <2>7. QED
    BY <1>3, <2>4, <2>6 DEF PathMatches, e
<1>4. CASE ~entry.prefix
  <2>1. d = e
    BY <1>1, <1>4 DEF e
  <2>2. Len(d) \in 0..Len(d) /\ \A i \in 1..Len(d) : d[i] # Semicolon
    BY <1>2, <2>1
  <2>3. /\ Bare(d) \in Seq(Token)
        /\ Len(Bare(d)) = Len(d)
        /\ \A i \in 1..Len(d) : Bare(d)[i] = d[i]
    BY <2>2, BareKeeps
  <2>4. Bare(d) = d
    BY <2>3, SeqEqual
  <2>5. QED
    BY <1>4, <2>1, <2>3, <2>4 DEF PathMatches, e
<1>5. QED
  BY <1>3, <1>4

\* What a target's canonical path matches, upstreams of all habits serve.
LEMMA MatchedIsServed ==
  ASSUME NEW paths, \A entry \in paths : entry.path \in Seq(Token),
         NEW t \in Seq(Token), IsOriginForm(t),
         CanonicalPath(PathOf(t)) # <<>>, PathMatches(paths, CanonicalPath(PathOf(t))), NEW habits,
         ArePlain(paths) \/ "params" \notin habits
  PROVE  PathMatches(paths, Served(t, habits))
<1> DEFINE path == Before(t, "?")
           d == Decoded(path)
<1>1. PathOf(t) = path
  <2>1. ~(t # <<>> /\ Head(t) = "origin")
    BY DEF IsOriginForm
  <2>2. QED
    BY <2>1 DEF PathOf
<1>2. path \in Seq(Token) /\ "#" \notin ToSet(path)
  BY BeforeIsPath DEF IsOriginForm
<1>3. /\ ToSet(d) \cap {"\\", "%2e", "%2f"} = {}
      /\ IsNormal(d)
      /\ IsNormal(Bare(d))
      /\ PathMatches(paths, d)
  BY <1>1 DEF CanonicalPath
<1>4. /\ d \in Seq(Token)
      /\ Decoded(d) = d
      /\ Translated(d, "\\", "/") = d
  BY <1>2, <1>3, DecodedOnce
<1>5. Before(path, "#") = path
  BY <1>2, BeforeIsPath
<1>6. Served(t, habits) = DotsResolved(IF "params" \in habits THEN Bare(d) ELSE d)
  <2> HIDE DEF path
  <2>1. (IF "fragment" \in habits THEN Before(path, "#") ELSE path) = path
    BY <1>5
  <2> HIDE DEF d
  <2>2. (IF "again" \in habits THEN Decoded(d) ELSE d) = d
    BY <1>4
  <2>3. (IF "backslash" \in habits THEN Translated(d, "\\", "/") ELSE d) = d
    BY <1>4
  <2>4. QED
    BY <2>1, <2>2, <2>3 DEF Served, path, d
<1> HIDE DEF d
<1>7. CASE "params" \in habits
  <2>1. Bare(d) \in Seq(Token) /\ PathMatches(paths, Bare(d))
    BY <1>3, <1>4, <1>7, BareMatches
  <2>2. DotsResolved(Bare(d)) = Bare(d)
    BY <1>3, <2>1, NormalResolves
  <2>3. QED
    BY <1>6, <1>7, <2>1, <2>2
<1>8. CASE "params" \notin habits
  BY <1>3, <1>4, <1>6, <1>8, NormalResolves
<1>9. QED
  BY <1>7, <1>8

-----------------------------------------------------------------------------
(* Header names                                                            *)

\* One token of a name for another.
LEMMA TranslatedIs ==
  ASSUME NEW S, NEW p \in Seq(S), NEW from, NEW to
  PROVE  /\ Translated(p, from, to) \in Seq(S \cup {to})
         /\ Len(Translated(p, from, to)) = Len(p)
         /\ \A i \in 1..Len(p) : Translated(p, from, to)[i] = IF p[i] = from THEN to ELSE p[i]
  BY SMT DEF Translated

\* A name that reads as w when its dashes are read as underscores begins with w
\* when its underscores are read as dashes, and is w if it is no longer.
LEMMA FoldedBegins ==
  ASSUME NEW S, NEW w \in Seq(S), NEW T, NEW name \in Seq(T), NEW d, NEW u, u \notin ToSet(w),
         IsPrefix(Translated(w, d, u), Translated(name, d, u))
  PROVE  IsPrefix(w, Translated(name, u, d))
<1> DEFINE wread == Translated(w, d, u)
           read == Translated(name, d, u)
           fold == Translated(name, u, d)
<1>1. /\ wread \in Seq(S \cup {u}) /\ Len(wread) = Len(w)
      /\ \A i \in 1..Len(w) : wread[i] = IF w[i] = d THEN u ELSE w[i]
  BY SMT DEF Translated
<1>2. /\ read \in Seq(T \cup {u}) /\ Len(read) = Len(name)
      /\ \A i \in 1..Len(name) : read[i] = IF name[i] = d THEN u ELSE name[i]
  BY SMT DEF Translated
<1>3. /\ fold \in Seq(T \cup {d}) /\ Len(fold) = Len(name)
      /\ \A i \in 1..Len(name) : fold[i] = IF name[i] = u THEN d ELSE name[i]
  BY SMT DEF Translated
<1>4. Len(wread) <= Len(read) /\ SubSeq(wread, 1, Len(wread)) = SubSeq(read, 1, Len(wread))
  BY DEF IsPrefix
<1> HIDE DEF wread, read, fold
<1>5. ASSUME NEW i \in 1..Len(w) PROVE w[i] = fold[i]
  <2>1. i \in 1..Len(name) /\ i \in 1..Len(wread) /\ i \in 1..Len(read)
    BY <1>1, <1>2, <1>4
  <2>2. SubSeq(wread, 1, Len(wread))[i] = wread[i] /\ SubSeq(read, 1, Len(wread))[i] = read[i]
    BY <1>1, <1>2, <1>4, <2>1
  <2>3. wread[i] = read[i]
    BY <1>4, <2>2
  <2>4. w[i] # u
    BY DEF ToSet
  <2>5. QED
    BY <1>1, <1>2, <1>3, <2>1, <2>3, <2>4
<1>6. Len(w) <= Len(fold)
  BY <1>1, <1>2, <1>3, <1>4
<1>7. SubSeq(w, 1, Len(w)) = SubSeq(fold, 1, Len(w))
  BY <1>3, <1>5, <1>6
<1>8. QED
  BY <1>6, <1>7 DEF IsPrefix, fold

\* And one that reads as w is w then.
LEMMA FoldedIs ==
  ASSUME NEW S, NEW w \in Seq(S), NEW T, NEW name \in Seq(T), NEW d, NEW u, u \notin ToSet(w),
         Translated(name, d, u) = Translated(w, d, u)
  PROVE  Translated(name, u, d) = w
<1> DEFINE fold == Translated(name, u, d)
<1>1. IsPrefix(Translated(w, d, u), Translated(name, d, u))
  <2>1. Translated(w, d, u) \in Seq(S \cup {u})
    BY TranslatedIs
  <2>2. QED
    BY <2>1 DEF IsPrefix
<1>2. IsPrefix(w, fold)
  BY <1>1, FoldedBegins
<1>3. Len(name) = Len(w)
  <2>1. Len(Translated(w, d, u)) = Len(w) /\ Len(Translated(name, d, u)) = Len(name)
    BY SMT DEF Translated
  <2>2. QED
    BY <2>1
<1>4. fold \in Seq(T \cup {d}) /\ Len(fold) = Len(w)
  BY <1>3, TranslatedIs
<1> HIDE DEF fold
<1>5. fold = w
  BY <1>2, <1>4 DEF IsPrefix
<1>6. QED
  BY <1>5 DEF fold

\* A header that is read as one Authwall keeps from the upstream was folded to
\* the same name and kept.
LEMMA ReadAsFolded ==
  ASSUME NEW S, NEW w \in Seq(S), NEW name \in Seq(Token), "_" \notin ToSet(w)
  PROVE  /\ IsPrefix(Translated(w, "-", "_"), Translated(name, "-", "_"))
              => IsPrefix(w, Translated(name, "_", "-"))
         /\ Translated(name, "-", "_") = Translated(w, "-", "_")
              => Translated(name, "_", "-") = w
  BY FoldedBegins, FoldedIs, Zenon

\* The names this code keeps from upstreams hold no underscore.
LEMMA NamesHoldDashes ==
  ASSUME NEW d, NEW u, d # u, u \notin {"x", "auth", "forwarded"}
  PROVE
  /\ u \notin ToSet(<<"x", d, "auth", d>>)
  /\ u \notin ToSet(<<"x", d, "forwarded", d>>)
  BY DEF ToSet

\* The prefixes as they are read.
LEMMA NamesTranslated ==
  ASSUME NEW d, NEW u, NEW a, NEW b, d \notin {a, b}
  PROVE  Translated(<<a, d, b, d>>, d, u) = <<a, u, b, u>>
<1>1. DOMAIN <<a, d, b, d>> = 1..4
  OBVIOUS
<1>2. QED
  BY <1>1, SMT DEF Translated

\* Names of up to four words, none of which is u.
LEMMA ShortNames ==
  ASSUME NEW d, NEW u, NEW S, NEW a \in S, NEW b \in S, NEW c \in S, NEW e \in S, d # u, u \notin S
  PROVE  /\ u \notin ToSet(<<a>>) /\ <<a>> \in Seq(S \cup {d})
         /\ u \notin ToSet(<<a, d, b>>) /\ <<a, d, b>> \in Seq(S \cup {d})
         /\ u \notin ToSet(<<a, d, b, d, c>>) /\ <<a, d, b, d, c>> \in Seq(S \cup {d})
         /\ u \notin ToSet(<<a, d, b, d, c, d, e>>) /\ <<a, d, b, d, c, d, e>> \in Seq(S \cup {d})
<1>1. a # u /\ b # u /\ c # u /\ e # u
  OBVIOUS
<1>2. u \notin ToSet(<<a>>) /\ u \notin ToSet(<<a, d, b>>) /\ u \notin ToSet(<<a, d, b, d, c>>)
  BY <1>1 DEF ToSet
<1>3. u \notin ToSet(<<a, d, b, d, c, d, e>>)
  BY <1>1 DEF ToSet
<1>4. QED
  BY <1>2, <1>3

ForwardedWords == {"forwarded", "x", "real", "ip", "original", "url", "rewrite", "host", "client", "true", "cf",
   "connecting", "cluster", "proxyuser"}

\* The names of ForwardedHeaders, with any separator.
LEMMA ForwardedNames ==
  ASSUME NEW d, NEW u, d # u, u \notin ForwardedWords,
         NEW h \in
  {<<"forwarded">>, <<"x", d, "real", d, "ip">>, <<"x", d, "original", d, "url">>,
   <<"x", d, "rewrite", d, "url">>, <<"x", d, "original", d, "host">>,
   <<"x", d, "host">>, <<"x", d, "client", d, "ip">>,
   <<"true", d, "client", d, "ip">>, <<"cf", d, "connecting", d, "ip">>,
   <<"x", d, "cluster", d, "client", d, "ip">>, <<"x", d, "proxyuser", d, "ip">>}
  PROVE  u \notin ToSet(h) /\ h \in Seq(ForwardedWords \cup {d})
<1> DEFINE Fine(n) == u \notin ToSet(n) /\ n \in Seq(ForwardedWords \cup {d})
<1>1. \A a, b, c, e \in ForwardedWords :
        Fine(<<a>>) /\ Fine(<<a, d, b>>) /\ Fine(<<a, d, b, d, c>>) /\ Fine(<<a, d, b, d, c, d, e>>)
  BY ShortNames
<1>w. /\ "forwarded" \in ForwardedWords /\ "x" \in ForwardedWords /\ "real" \in ForwardedWords /\ "ip" \in ForwardedWords
      /\ "original" \in ForwardedWords /\ "url" \in ForwardedWords /\ "rewrite" \in ForwardedWords /\ "host" \in ForwardedWords
      /\ "client" \in ForwardedWords /\ "true" \in ForwardedWords /\ "cf" \in ForwardedWords /\ "connecting" \in ForwardedWords
      /\ "cluster" \in ForwardedWords /\ "proxyuser" \in ForwardedWords
  BY Zenon DEF ForwardedWords
<1> HIDE DEF Fine
<1>t. \A a, b, c \in ForwardedWords : Fine(<<a, d, b, d, c>>)
  BY <1>1
<1>2. /\ Fine(<<"forwarded">>) /\ Fine(<<"x", d, "host">>)
      /\ Fine(<<"x", d, "cluster", d, "client", d, "ip">>)
  BY <1>1, <1>w, Zenon
<1>3. /\ Fine(<<"x", d, "real", d, "ip">>) /\ Fine(<<"x", d, "original", d, "url">>)
      /\ Fine(<<"x", d, "rewrite", d, "url">>) /\ Fine(<<"x", d, "original", d, "host">>)
      /\ Fine(<<"x", d, "client", d, "ip">>) /\ Fine(<<"true", d, "client", d, "ip">>)
      /\ Fine(<<"cf", d, "connecting", d, "ip">>) /\ Fine(<<"x", d, "proxyuser", d, "ip">>)
  BY <1>t, <1>w, Zenon
<1>4. Fine(h)
  BY <1>2, <1>3
<1>5. QED
  BY <1>4 DEF Fine

\* ... and with theirs.
LEMMA ForwardedHoldDashes ==
  ASSUME NEW h \in ForwardedHeaders
  PROVE  "_" \notin ToSet(h) /\ h \in Seq(ForwardedWords \cup {"-"})
<1>1. "_" \notin ForwardedWords
  BY Zenon DEF ForwardedWords
<1>2. "-" # "_"
  OBVIOUS
<1>3. QED
  BY <1>1, <1>2, ForwardedNames, Zenon DEF ForwardedHeaders

\* What the two prefixes are to the lemmas above.
LEMMA KeptNames ==
  ASSUME NEW d, NEW u, NEW a, NEW b, d \notin {a, b}, u \notin {a, b, d}
  PROVE  /\ Translated(<<a, d, b, d>>, d, u) = <<a, u, b, u>>
         /\ <<a, d, b, d>> \in Seq({a, b, d})
         /\ u \notin ToSet(<<a, d, b, d>>)
  BY NamesTranslated, ShortNames DEF ToSet

\* What is sent on is read as nothing that Authwall keeps from upstreams.
LEMMA NothingPretends ==
  ASSUME Headers \subseteq Seq(Token)
  PROVE Pretending = {}
<1>1. SUFFICES ASSUME NEW name \in SentOn, name \in Pretending PROVE FALSE
  BY Zenon DEF Pretending
<1> DEFINE read == Translated(name, "-", "_")
           fold == Translated(name, "_", "-")
<1>2. name \in Seq(Token) /\ ~IsInboundIdentity(name) /\ ~IsForwarded(name)
  BY Zenon DEF SentOn
<1>3. \A S : \A w \in Seq(S) : "_" \notin ToSet(w) =>
         /\ IsPrefix(Translated(w, "-", "_"), read) => IsPrefix(w, fold)
         /\ read = Translated(w, "-", "_") => fold = w
  BY <1>2, ReadAsFolded, Zenon
<1>4. ASSUME NEW b, b \in {"auth", "forwarded"}
      PROVE  /\ Translated(<<"x", "-", b, "-">>, "-", "_") = <<"x", "_", b, "_">>
             /\ <<"x", "-", b, "-">> \in Seq({"x", b, "-"})
             /\ "_" \notin ToSet(<<"x", "-", b, "-">>)
  <2>1. "-" \notin {"x", b} /\ "_" \notin {"x", b, "-"}
    BY <1>4, Zenon
  <2>2. QED
    BY <2>1, KeptNames, Zenon
<1>5. ~IsPrefix(<<"x", "_", "auth", "_">>, read)
  BY <1>2, <1>3, <1>4, Zenon DEF IsInboundIdentity
<1>6. ~IsPrefix(<<"x", "_", "forwarded", "_">>, read)
  BY <1>2, <1>3, <1>4, Zenon DEF IsForwarded
<1>7. \A h \in ForwardedHeaders : read # Translated(h, "-", "_")
  BY <1>2, <1>3, ForwardedHoldDashes, Zenon DEF IsForwarded
<1>8. QED
  BY <1>1, <1>5, <1>6, <1>7, Zenon DEF Pretending

-----------------------------------------------------------------------------
(* The theorems about the answers                                          *)

\* What a process and a request keep has its types, and a session was opened by
\* a flow the process offers, or before it.
THEOREM GatesTypeCorrect == GatesSpec => []GatesTypeOK
  BY GatesInvariant, PTL DEF GatesInv

\* Under every configuration, for every target and all credentials, the sidecar
\* answers as the proxy would, and neither it nor the upgrade lets in whom the
\* proxy would not (sidecar_get, sign_in_required, authenticate_ws_upgrade).
THEOREM DoorsAnswerAlike == GatesSpec => []DoorsAgree
<1>1. ASSUME GatesInv, NEW cred \in Carried
      PROVE  LET who == AuthenticateHttp(cred) IN
             /\ told = class => SidecarAnswer(told, who) = ProxyAnswer(class, who)
             /\ (class # "bad" /\ SidecarAnswer(told, who).in) => ProxyAnswer(class, who).in
             /\ AuthenticateWs(cred) # "stop" =>
                  ProxyAnswer("private", who) = [in |-> TRUE, as |-> AuthenticateWs(cred)]
  <2> DEFINE who == AuthenticateHttp(cred)
  <2>1. who \in Asker
    BY WhoAsks
  <2>2. told # "bad" /\ (class # "bad" => told \in {class, "private"})
    BY <1>1 DEF GatesInv, GatesTypeOK, ToldInv
  <2> HIDE DEF who
  <2>3. SidecarAnswer(told, who) = ProxyAnswer(told, who)
    BY <2>1, <2>2, SidecarIsProxy
  <2>4. class # "bad" /\ ProxyAdmits("private", who) => ProxyAdmits(class, who)
    BY <2>1 DEF ProxyAdmits
  <2>5. class # "bad" /\ ProxyAdmits(told, who) => ProxyAdmits(class, who)
    BY <2>2, <2>4
  <2>6. \A c : ProxyAnswer(c, who).in = ProxyAdmits(c, who)
    BY DEF ProxyAnswer
  <2>7. class # "bad" /\ SidecarAnswer(told, who).in => ProxyAnswer(class, who).in
    BY <2>3, <2>5, <2>6
  <2>8. AuthenticateWs(cred) # "stop" =>
          ProxyAnswer("private", who) = [in |-> TRUE, as |-> AuthenticateWs(cred)]
    BY UpgradeIsProxy DEF who
  <2>9. QED
    BY <2>3, <2>7, <2>8 DEF who
<1>2. GatesInv => DoorsAgree
  BY <1>1 DEF DoorsAgree
<1>3. QED
  BY <1>2, GatesInvariant, PTL

\* Under every configuration with a list of allowed addresses, and whatever the
\* providers answer, nobody who signed in under it enters by name without a
\* proven address (make_config, the flows, sign_in_required).
THEOREM EntrantsAreProven == GatesSpec => []WhoEntersIsProven
<1>1. ASSUME GatesInv, config.allow, session.via \in Flow, NEW cred \in Carried,
             ProxyAnswer("private", AuthenticateHttp(cred)).in
      PROVE  session.proven
  <2> DEFINE who == AuthenticateHttp(cred)
  <2>1. who \in Asker /\ (session = Nobody => who \in {"stop", "nobody"})
          /\ (who = "token" => ~Refuses /\ ~Holds)
    BY WhoAsks
  <2> HIDE DEF who
  <2>2. ProxyAdmits("private", who)
    BY <1>1 DEF ProxyAnswer, who
  <2>3. session # Nobody /\ ~Holds
    BY <2>1, <2>2 DEF ProxyAdmits, Asker
  <2>4. session.proven \/ (session.verified = "none" /\ config.required)
    BY <1>1, <2>3 DEF GatesInv, SessionInv
  <2>5. QED
    BY <2>3, <2>4 DEF Holds
<1>2. GatesInv => WhoEntersIsProven
  BY <1>1 DEF WhoEntersIsProven
<1>3. QED
  BY <1>2, GatesInvariant, PTL

\* No configuration that starts offers a flow without what it needs
\* (parse_flows_setting, make_config).
THEOREM OfferedIsServed == GatesSpec => []FlowsAreServed
  BY GatesInvariant, PTL DEF GatesInv, ConfigInv

\* Whatever the public paths are and however long the target, one that is let
\* in as public is public to every upstream, be it one that decodes twice, reads
\* "\" as "/", keeps "#" or, if no public path holds a ";", drops ";params"
\* (canonical_path, target_path, is_origin_form).
THEOREM PublicToUpstreams == GatesSpec => []PublicAsServed
<1>1. GatesInv => PublicAsServed
  <2> SUFFICES ASSUME GatesTypeOK, IsOriginForm(target), IsPublicPath(PathOf(target)),
                      NEW habits \in SUBSET Habit,
                      ArePlain(PublicPaths) \/ "params" \notin habits
               PROVE  PathMatches(PublicPaths, Served(target, habits))
    BY DEF GatesInv, PublicAsServed
  <2>1. target \in Seq(Token)
    BY GatesAssumption DEF GatesTypeOK, IsOriginForm
  <2>2. \A entry \in PublicPaths : entry.path \in Seq(Token)
    BY RequestPathAssumption
  <2>3. QED
    BY <2>1, <2>2, MatchedIsServed DEF IsPublicPath
<1>2. QED
  BY <1>1, GatesInvariant, PTL

\* The same of a target that lets in who has not signed in because its path is
\* an optional one (is_optional_auth_path).
THEOREM OptionalToUpstreams ==
  GatesSpec =>
    [](IsOriginForm(target) /\ IsOptionalAuthPath(PathOf(target)) =>
         \A habits \in SUBSET Habit :
           ArePlain(OptionalPaths) \/ "params" \notin habits =>
             PathMatches(OptionalPaths, Served(target, habits)))
<1>1. GatesInv =>
        (IsOriginForm(target) /\ IsOptionalAuthPath(PathOf(target)) =>
           \A habits \in SUBSET Habit :
             ArePlain(OptionalPaths) \/ "params" \notin habits =>
               PathMatches(OptionalPaths, Served(target, habits)))
  <2> SUFFICES ASSUME GatesTypeOK, IsOriginForm(target), IsOptionalAuthPath(PathOf(target)),
                      NEW habits \in SUBSET Habit,
                      ArePlain(OptionalPaths) \/ "params" \notin habits
               PROVE  PathMatches(OptionalPaths, Served(target, habits))
    BY DEF GatesInv
  <2>1. target \in Seq(Token)
    BY GatesAssumption DEF GatesTypeOK, IsOriginForm
  <2>2. \A entry \in OptionalPaths : entry.path \in Seq(Token)
    BY RequestPathAssumption
  <2>3. QED
    BY <2>1, <2>2, MatchedIsServed DEF IsOptionalAuthPath
<1>2. QED
  BY <1>1, GatesInvariant, PTL

\* Whatever headers a client sends, and however it spells them, none that goes
\* on is read as an identity or a forwarded address by an upstream that takes
\* "-" and "_" for one (is_inbound_identity_header, set_forwarded_headers).
THEOREM NobodyPretends == GatesSpec => []NothingIsPretended
<1>1. NothingIsPretended
  BY NothingPretends, GatesAssumption, Zenon DEF NothingIsPretended
<1>2. QED
  BY <1>1, PTL
=============================================================================
