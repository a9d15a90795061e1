------------------------- MODULE OneTimeCodesProofs -------------------------
(***************************************************************************)
(* What holds of OneTimeCodes for any caps, budgets, windows and requests. *)
(***************************************************************************)
EXTENDS OneTimeCodes, FiniteSetTheorems, TLAPS

-----------------------------------------------------------------------------
(* The inductive invariant                                                 *)

\* The requests that took a guess off a code and did not compare it yet hold
\* their place below what the row counts.
Spent(c) == {r \in Req : req[r].pc = "spent" /\ req[r].code = c}

CapInv ==
  \A c \in Code :
    /\ attempts[c] <= MaxAttempts
    /\ compared[c] + Cardinality(Spent(c)) <= attempts[c]

\* A row ends once, by an effect or by a revocation, and says so.
EndInv ==
  \A c \in Code :
    /\ used[c] => c <= issued
    /\ wins[c] <= 1
    /\ wins[c] = 1 => used[c] /\ c \notin killed
    /\ c \in killed => used[c]

\* While the counter's window lasts, the requests that were let in and not
\* answered yet hold their place in it; a window that is over only waits to
\* be replaced.
Admitted == {r \in Req : req[r].pc \in {"guess", "found", "spent"}}

FailInv ==
  /\ kind = "confirm" => wrong.count = 0
  /\ wrong.count < FailMax + Cardinality(Req)
  /\ clock <= wrong.reset_at => wrong.count + Cardinality(Admitted) < FailMax + Cardinality(Req)

\* The requests that were let in by the budget and took no guess off a code
\* yet hold their place below it; a row that is not inserted counts none.
Pending == {r \in Req : req[r].pc \in {"guess", "found"}}

BudgetInv ==
  /\ kind # "confirm" => WrongCodes + Cardinality(Pending) < Budget + Cardinality(Req)
  /\ \A c \in Code : issued < c => attempts[c] = 0

IInv == TypeOK /\ CapInv /\ EndInv /\ FailInv /\ BudgetInv

-----------------------------------------------------------------------------
(* Constants and counts                                                    *)

LEMMA Constants ==
  /\ IsFiniteSet(Req) /\ Cardinality(Req) \in Nat
  /\ MaxCodes \in Nat /\ MaxTime \in Nat /\ MaxAttempts \in Nat
  /\ Budget \in Nat \ {0} /\ Window \in Nat /\ FailMax \in Nat \ {0}
  /\ FailWindow \in Nat /\ Cooldown \in Nat /\ Lifetime \in Nat
  BY OneTimeCodesAssumption, FS_CardinalityType

\* The steps of a request, and what a request is.
Pc == {"idle", "asked", "saving", "guess", "found", "spent", "proven", "failing"}
Request == [pc : Pc, by : Browser, at : Time, own : 0..MaxCodes, code : 0..MaxCodes]

LEMMA IdleIsRequest == Idle \in Request /\ Idle.pc = "idle"
<1>1. (CHOOSE b \in Browser : TRUE) \in Browser
  BY OneTimeCodesAssumption
<1>2. 0 \in Time /\ 0 \in 0..MaxCodes
  BY Constants DEF Time
<1> QED BY <1>1, <1>2 DEF Idle, Request, Pc

\* A set of requests that loses one or gains one.
LEMMA Loses ==
  ASSUME NEW S \in SUBSET Req, NEW r \in S
  PROVE  /\ Cardinality(S) \in Nat
         /\ Cardinality(S \ {r}) = Cardinality(S) - 1
         /\ Cardinality(S \ {r}) \in Nat
<1>1. IsFiniteSet(S)
  BY Constants, FS_Subset
<1> QED BY <1>1, FS_CardinalityType, FS_RemoveElement, Constants, FS_Subset

LEMMA Gains ==
  ASSUME NEW S \in SUBSET Req, NEW r \in Req \ S
  PROVE  /\ Cardinality(S) \in Nat
         /\ Cardinality(S \cup {r}) = Cardinality(S) + 1
         /\ Cardinality(S \cup {r}) <= Cardinality(Req)
         /\ Cardinality(S) < Cardinality(Req)
<1>1. IsFiniteSet(S) /\ Cardinality(S) \in Nat
  BY Constants, FS_Subset, FS_CardinalityType
<1>2. Cardinality(S \cup {r}) = Cardinality(S) + 1
  BY <1>1, FS_AddElement
<1>3. Cardinality(S \cup {r}) <= Cardinality(Req)
  BY Constants, FS_Subset
<1> QED BY <1>1, <1>2, <1>3, Constants

LEMMA Some ==
  ASSUME NEW S \in SUBSET Req
  PROVE  Cardinality(S) \in Nat /\ Cardinality(S) <= Cardinality(Req)
  BY Constants, FS_Subset, FS_CardinalityType

-----------------------------------------------------------------------------
(* Types                                                                   *)

LEMMA TypeInit == Init => TypeOK
<1> SUFFICES ASSUME Init PROVE TypeOK
  OBVIOUS
<1>1. req \in [Req -> Request] /\ \A r \in Req : req[r].pc = "idle"
  BY IdleIsRequest DEF Init
<1>2. wrong \in [count : Nat, reset_at : Nat]
  BY DEF Init, NoEntry
<1>3. 0 \in Time /\ 0 \in 0..MaxCodes
  BY Constants DEF Time
<1> QED BY <1>1, <1>2, <1>3 DEF Init, TypeOK, Request, Pc

\* A failure is counted, and the request is over or about to record it.
LEMMA FailedTypes ==
  ASSUME TypeOK, NEW r \in Req, Failed(r)
  PROVE  /\ req' \in [Req -> Request]
         /\ req'[r].pc \in {"idle", "failing"}
         /\ \A q \in Req \ {r} : req'[q] = req[q]
         /\ wrong' \in [count : Nat, reset_at : Nat]
<1>1. req \in [Req -> Request] /\ wrong \in [count : Nat, reset_at : Nat] /\ clock \in Nat
  BY Constants DEF TypeOK, Request, Pc, Time
<1>2. CASE kind = "confirm"
  BY <1>1, <1>2 DEF Failed, Request, Pc
<1>3. CASE kind # "confirm"
  <2>1. req' = [req EXCEPT ![r] = Idle] /\ wrong' = Counted(wrong, FailWindow)
    BY <1>3 DEF Failed
  <2>2. clock + FailWindow \in Nat /\ wrong.count + 1 \in Nat
    BY <1>1, Constants
  <2>3. Counted(wrong, FailWindow) \in [count : Nat, reset_at : Nat]
    BY <1>1, <2>2 DEF Counted
  <2> QED BY <1>1, <2>1, <2>3, IdleIsRequest
<1> QED BY <1>2, <1>3

\* Nothing leaves its type, and a request that looked a row up is at one.
LEMMA TypeStep == TypeOK /\ [Next]_vars => TypeOK'
<1> SUFFICES ASSUME TypeOK, [Next]_vars PROVE TypeOK'
  OBVIOUS
<1> DEFINE AtRow(q) == q.pc \in {"found", "spent", "proven"} => q.code \in 1..issued
<1>0. /\ req \in [Req -> Request] /\ \A r \in Req : AtRow(req[r])
      /\ clock \in Nat /\ clock \in Time /\ issued \in 0..MaxCodes /\ 0 \in 0..MaxCodes
  BY Constants DEF TypeOK, Request, Pc, Time
<1> USE Constants, IdleIsRequest
\* A step that leaves the rows alone and takes one request to another place.
<1>a. ASSUME NEW r \in Req, NEW next \in Request, AtRow(next),
             req' = [req EXCEPT ![r] = next], UNCHANGED issued
      PROVE  /\ req' \in [Req -> [pc : Pc, by : Browser, at : Time, own : 0..MaxCodes,
                                  code : 0..MaxCodes]]
             /\ \A q \in Req : req'[q].pc \in {"found", "spent", "proven"} => req'[q].code \in 1..issued'
  <2>1. req' \in [Req -> Request] /\ \A q \in Req : AtRow(req'[q])
    BY <1>0, <1>a
  <2> QED BY <2>1, <1>a DEF Request
<1>b. ASSUME NEW r \in Req, Failed(r), UNCHANGED issued
      PROVE  /\ req' \in [Req -> [pc : Pc, by : Browser, at : Time, own : 0..MaxCodes,
                                  code : 0..MaxCodes]]
             /\ \A q \in Req : req'[q].pc \in {"found", "spent", "proven"} => req'[q].code \in 1..issued'
             /\ wrong' \in [count : Nat, reset_at : Nat]
  BY <1>0, <1>b, FailedTypes DEF Request
<1>1. ASSUME NEW r \in Req, NEW b \in Browser, AskRead(r, b) PROVE TypeOK'
  <2> DEFINE next == [Idle EXCEPT !.pc = "asked", !.by = b, !.at = clock]
  <2>1. next \in Request /\ AtRow(next)
    BY <1>0 DEF Request, Pc
  <2>2. req' = [req EXCEPT ![r] = next] /\ UNCHANGED issued
    BY <1>1 DEF AskRead, rows
  <2> HIDE DEF next
  <2> QED BY <1>1, <1>a, <2>1, <2>2 DEF AskRead, TypeOK, Pc, rows, history
<1>2. ASSUME NEW r \in Req, AskInsert(r) PROVE TypeOK'
  <2>1. issued + 1 \in Code /\ issued' = issued + 1 /\ issued' \in 0..MaxCodes
    BY <1>0, <1>2 DEF AskInsert, Code
  <2>2. created' \in [Code -> Time]
    BY <1>0, <1>2, <2>1 DEF AskInsert, TypeOK, Request
  <2>3. PICK next \in Request : req' = [req EXCEPT ![r] = next] /\ next.pc \in {"saving", "idle"}
    <3>1. CASE kind = "magic"
      <4> DEFINE next == [req[r] EXCEPT !.pc = "saving", !.own = issued + 1]
      <4>1. next \in Request /\ next.pc = "saving"
        BY <1>0, <1>2, <2>1 DEF AskInsert, Request, Pc
      <4>2. req' = [req EXCEPT ![r] = next]
        BY <1>0, <1>2, <3>1 DEF AskInsert, Request
      <4> QED BY <4>1, <4>2
    <3>2. CASE kind # "magic"
      BY <1>2, <3>2 DEF AskInsert
    <3> QED BY <3>1, <3>2
  <2>4. req' \in [Req -> Request]
    BY <1>0, <2>3
  <2>5. \A q \in Req : req'[q].pc \in {"found", "spent", "proven"} => req'[q].code \in 1..issued'
    BY <1>0, <2>1, <2>3
  <2> QED BY <1>2, <2>1, <2>2, <2>4, <2>5 DEF AskInsert, TypeOK, Request, Pc, history
<1>3. ASSUME NEW r \in Req, AskSave(r) PROVE TypeOK'
  <2>1. mine' \in [Browser -> 0..MaxCodes]
    BY <1>0, <1>3 DEF AskSave, TypeOK, Request
  <2>2. AtRow(Idle) /\ req' = [req EXCEPT ![r] = Idle] /\ UNCHANGED issued
    BY <1>3 DEF AskSave, rows
  <2> QED BY <1>3, <1>a, <2>1, <2>2 DEF AskSave, TypeOK, Pc, rows, history
<1>4. ASSUME NEW r \in Req, NEW b \in Browser, GuessAdmit(r, b) PROVE TypeOK'
  <2> DEFINE next == [pc |-> "guess", by |-> b, at |-> clock, own |-> mine[b], code |-> 0]
  <2>1. next \in Request /\ AtRow(next)
    BY <1>0 DEF TypeOK, Request, Pc
  <2>2. req' = [req EXCEPT ![r] = next] /\ UNCHANGED issued
    BY <1>4 DEF GuessAdmit, rows
  <2> HIDE DEF next
  <2> QED BY <1>4, <1>a, <2>1, <2>2 DEF GuessAdmit, TypeOK, Pc, rows, history
<1>5. ASSUME NEW r \in Req, RecordFailure(r) PROVE TypeOK'
  <2>1. failed' \in [Time -> Nat]
    BY <1>0, <1>5 DEF RecordFailure, TypeOK
  <2>2. AtRow(Idle) /\ req' = [req EXCEPT ![r] = Idle] /\ UNCHANGED issued
    BY <1>5 DEF RecordFailure, rows
  <2> QED BY <1>5, <1>a, <2>1, <2>2 DEF RecordFailure, TypeOK, Pc, rows, history
<1>6. ASSUME NEW r \in Req, GuessRead(r) PROVE TypeOK'
  <2>1. CASE Failed(r)
    BY <1>6, <1>b, <2>1 DEF GuessRead, TypeOK, Pc, rows, history
  <2>2. CASE ~Failed(r)
    <3>1. PICK c \in Guessed(r) : req' = [req EXCEPT ![r] = [Idle EXCEPT !.pc = "found", !.code = c]]
      BY <1>6, <2>2 DEF GuessRead
    <3>2. c \in 1..issued /\ c \in 0..MaxCodes
      BY <1>0, <3>1 DEF Guessed, IsOut
    <3> DEFINE next == [Idle EXCEPT !.pc = "found", !.code = c]
    <3>3. next \in Request /\ AtRow(next)
      BY <1>0, <3>2 DEF Request, Pc
    <3>4. UNCHANGED <<issued, wrong>>
      BY <1>6, <2>2 DEF GuessRead, rows
    <3> QED BY <1>6, <1>a, <3>1, <3>3, <3>4 DEF GuessRead, TypeOK, Pc, rows, history
  <2> QED BY <2>1, <2>2
<1>7. ASSUME NEW r \in Req, SpendAttempt(r) PROVE TypeOK'
  <2>1. req[r].code \in Code
    BY <1>0, <1>7 DEF SpendAttempt, Code
  <2>2. CASE attempts[req[r].code] < MaxAttempts
    <3>1. attempts' \in [Code -> Nat]
      BY <1>7, <2>1, <2>2 DEF SpendAttempt, TypeOK
    <3> DEFINE next == [req[r] EXCEPT !.pc = "spent"]
    <3>2. next \in Request /\ AtRow(next)
      BY <1>0, <1>7 DEF SpendAttempt, Request, Pc
    <3>3. req' = [req EXCEPT ![r] = next] /\ UNCHANGED <<issued, wrong>>
      BY <1>7, <2>2 DEF SpendAttempt
    <3> HIDE DEF next
    <3> QED BY <1>7, <1>a, <3>1, <3>2, <3>3 DEF SpendAttempt, TypeOK, Pc, history
  <2>3. CASE ~(attempts[req[r].code] < MaxAttempts)
    <3>1. Failed(r) /\ UNCHANGED attempts
      BY <1>7, <2>3 DEF SpendAttempt
    <3> QED BY <1>7, <1>b, <3>1 DEF SpendAttempt, TypeOK, Pc, history
  <2> QED BY <2>2, <2>3
<1>8. ASSUME NEW r \in Req, CompareRight(r) PROVE TypeOK'
  <2>1. req[r].code \in Code
    BY <1>0, <1>8 DEF CompareRight, Code
  <2>2. compared' \in [Code -> Nat]
    BY <1>8, <2>1 DEF CompareRight, TypeOK
  <2> DEFINE next == [req[r] EXCEPT !.pc = "proven"]
  <2>3. next \in Request /\ AtRow(next)
    BY <1>0, <1>8 DEF CompareRight, Request, Pc
  <2>4. req' = [req EXCEPT ![r] = next] /\ UNCHANGED issued
    BY <1>8 DEF CompareRight, rows
  <2> HIDE DEF next
  <2> QED BY <1>8, <1>a, <2>2, <2>3, <2>4 DEF CompareRight, TypeOK, Pc, rows
<1>9. ASSUME NEW r \in Req, CompareWrong(r) PROVE TypeOK'
  <2>1. req[r].code \in Code
    BY <1>0, <1>9 DEF CompareWrong, Code
  <2>2. compared' \in [Code -> Nat]
    BY <1>9, <2>1 DEF CompareWrong, TypeOK
  <2>3. Failed(r) /\ UNCHANGED issued
    BY <1>9 DEF CompareWrong, rows
  <2> QED BY <1>9, <1>b, <2>2, <2>3 DEF CompareWrong, TypeOK, Pc, rows
<1>10. ASSUME NEW r \in Req, NEW c \in Code, OpenLink(r, c) PROVE TypeOK'
  <2> DEFINE next == [Idle EXCEPT !.pc = "proven", !.at = clock, !.code = c]
  <2>1. next \in Request /\ AtRow(next)
    <3>1. c \in 1..issued /\ c \in 0..MaxCodes
      BY <1>0, <1>10 DEF OpenLink, IsOut, Code
    <3> QED BY <1>0, <3>1 DEF Request, Pc
  <2>2. req' = [req EXCEPT ![r] = next] /\ UNCHANGED issued
    BY <1>10 DEF OpenLink, rows
  <2> HIDE DEF next
  <2> QED BY <1>10, <1>a, <2>1, <2>2 DEF OpenLink, TypeOK, Pc, rows, history
<1>11. ASSUME NEW r \in Req, Consume(r) PROVE TypeOK'
  <2>1. req[r].code \in Code
    BY <1>0, <1>11 DEF Consume, Code
  <2>2. used' \in [Code -> BOOLEAN] /\ wins' \in [Code -> Nat]
    <3>1. used \in [Code -> BOOLEAN] /\ wins \in [Code -> Nat]
      BY DEF TypeOK
    <3>2. CASE used[req[r].code]
      BY <1>11, <3>1, <3>2 DEF Consume
    <3>3. CASE ~used[req[r].code]
      <4>1. used' = [used EXCEPT ![req[r].code] = TRUE] /\ wins' = [wins EXCEPT ![req[r].code] = @ + 1]
        BY <1>11, <3>3 DEF Consume
      <4>2. wins' \in [Code -> Nat]
        BY <2>1, <3>1, <4>1
      <4>3. used' \in [Code -> BOOLEAN]
        BY <2>1, <3>1, <4>1
      <4> QED BY <4>2, <4>3
    <3> QED BY <3>2, <3>3
  <2>3. PICK next \in Request : req' = [req EXCEPT ![r] = next] /\ next.pc \in {"failing", "idle"}
    <3>1. [req[r] EXCEPT !.pc = "failing"] \in Request
      BY <1>0 DEF Request, Pc
    <3> QED BY <1>0, <1>11, <3>1 DEF Consume, Request
  <2> QED BY <1>11, <1>a, <2>2, <2>3 DEF Consume, TypeOK, Pc
<1>12. CASE Revoke
  <2>1. used' \in [Code -> BOOLEAN]
    BY <1>12 DEF Revoke
  <2>2. killed' \subseteq Code
    <3>1. 1..issued \subseteq Code
      BY <1>0 DEF Code
    <3>2. killed \subseteq Code /\ killed' = killed \cup {c \in 1..issued : ~used[c]}
      BY <1>12 DEF Revoke, TypeOK
    <3> QED BY <3>1, <3>2
  <2> QED BY <1>12, <2>1, <2>2 DEF Revoke, TypeOK
<1>13. ASSUME NEW r \in Req, Abort(r) PROVE TypeOK'
  <2>1. AtRow(Idle) /\ req' = [req EXCEPT ![r] = Idle] /\ UNCHANGED issued
    BY <1>13 DEF Abort, rows
  <2> QED BY <1>13, <1>a, <2>1 DEF Abort, TypeOK, Pc, rows, history
<1>14. CASE Tick
  BY <1>0, <1>14 DEF Tick, TypeOK, Time, rows, history
<1>15. CASE UNCHANGED vars
  BY <1>15 DEF TypeOK, vars, rows, history
<1> QED BY <1>1, <1>2, <1>3, <1>4, <1>5, <1>6, <1>7, <1>8, <1>9, <1>10, <1>11, <1>12, <1>13,
           <1>14, <1>15 DEF Next

-----------------------------------------------------------------------------
(* Steps of one request                                                    *)

\* Only r moves.
Only(r) == \A q \in Req \ {r} : req'[q] = req[q]

\* Every step but a tick and a revocation moves one request, and only the
\* steps named for it let one in or take a guess off a code.
LEMMA Moves ==
  ASSUME TypeOK, NEW r \in Req,
         \/ \E b \in Browser : AskRead(r, b)
         \/ AskInsert(r) \/ AskSave(r) \/ RecordFailure(r)
         \/ \E c \in Code : OpenLink(r, c)
         \/ Consume(r) \/ Abort(r)
  PROVE  /\ Only(r) /\ req'[r].pc \notin {"guess", "found", "spent"}
         /\ UNCHANGED <<attempts, compared, wrong, clock, kind>>
<1>1. req \in [Req -> Request]
  BY DEF TypeOK, Request, Pc
<1> USE IdleIsRequest DEF Only, rows, history
<1>2. ASSUME NEW b \in Browser, AskRead(r, b) PROVE Only(r) /\ req'[r].pc = "asked"
  <2>1. [Idle EXCEPT !.pc = "asked", !.by = b, !.at = clock].pc = "asked"
    BY DEF Idle
  <2> QED BY <1>1, <1>2, <2>1 DEF AskRead
<1>3. CASE AskInsert(r)
  <2>1. req'[r].pc \in {"saving", "idle"} /\ Only(r)
    BY <1>1, <1>3 DEF AskInsert, Request
  <2> QED BY <1>3, <2>1 DEF AskInsert
<1>4. CASE AskSave(r)
  BY <1>1, <1>4 DEF AskSave
<1>5. CASE RecordFailure(r)
  BY <1>1, <1>5 DEF RecordFailure
<1>6. ASSUME NEW c \in Code, OpenLink(r, c) PROVE Only(r) /\ req'[r].pc = "proven"
  <2>1. [Idle EXCEPT !.pc = "proven", !.at = clock, !.code = c].pc = "proven"
    BY DEF Idle
  <2> QED BY <1>1, <1>6, <2>1 DEF OpenLink
<1>7. CASE Consume(r)
  <2>1. req'[r].pc \in {"failing", "idle"} /\ Only(r)
    BY <1>1, <1>7 DEF Consume, Request
  <2> QED BY <1>7, <2>1 DEF Consume
<1>8. CASE Abort(r)
  BY <1>1, <1>8 DEF Abort
<1>9. ASSUME \E b \in Browser : AskRead(r, b)
      PROVE  UNCHANGED <<attempts, compared, wrong, clock, kind>>
  BY <1>9 DEF AskRead
<1>10. ASSUME \E c \in Code : OpenLink(r, c)
       PROVE  UNCHANGED <<attempts, compared, wrong, clock, kind>>
  BY <1>10 DEF OpenLink
<1> QED BY <1>2, <1>3, <1>4, <1>5, <1>6, <1>7, <1>8, <1>9, <1>10

\* A guess that is found wanting is over.
LEMMA Fails ==
  ASSUME TypeOK, NEW r \in Req, Failed(r)
  PROVE  Only(r) /\ req'[r].pc \notin {"guess", "found", "spent"}
  BY FailedTypes DEF Only

-----------------------------------------------------------------------------
(* The cap of a code                                                       *)

LEMMA SpentLess ==
  ASSUME NEW r \in Req, Only(r), req'[r].pc # "spent", NEW c \in Code
  PROVE  Spent(c)' = Spent(c) \ {r}
  BY DEF Only, Spent

LEMMA CapKept ==
  ASSUME TypeOK, CapInv, UNCHANGED <<attempts, compared>>,
         \A c \in Code : Spent(c)' \subseteq Spent(c)
  PROVE  CapInv'
<1> SUFFICES ASSUME NEW c \in Code
             PROVE  /\ attempts[c] <= MaxAttempts
                    /\ compared[c] + Cardinality(Spent(c)') <= attempts[c]
  BY DEF CapInv
<1>1. Spent(c) \in SUBSET Req /\ Spent(c)' \in SUBSET Req
  BY DEF Spent
<1>2. Cardinality(Spent(c)') <= Cardinality(Spent(c))
  BY <1>1, Constants, FS_Subset
<1>3. Cardinality(Spent(c)') \in Nat /\ Cardinality(Spent(c)) \in Nat
  BY <1>1, Some
<1> QED BY <1>2, <1>3 DEF CapInv, TypeOK

LEMMA CapMoves ==
  ASSUME TypeOK, CapInv, NEW r \in Req, Only(r), req'[r].pc # "spent",
         UNCHANGED <<attempts, compared>>
  PROVE  CapInv'
  BY SpentLess, CapKept

\* A comparison takes its request's place.
LEMMA CapCompared ==
  ASSUME TypeOK, CapInv, NEW r \in Req, req[r].pc = "spent", Only(r), req'[r].pc # "spent",
         UNCHANGED attempts, compared' = [compared EXCEPT ![req[r].code] = @ + 1]
  PROVE  CapInv'
<1> SUFFICES ASSUME NEW c \in Code
             PROVE  /\ attempts[c] <= MaxAttempts
                    /\ compared'[c] + Cardinality(Spent(c)') <= attempts[c]
  BY DEF CapInv
<1>1. Spent(c) \in SUBSET Req /\ Spent(c)' = Spent(c) \ {r}
  BY SpentLess DEF Spent
<1>2. compared[c] \in Nat /\ attempts[c] \in Nat /\ attempts[c] <= MaxAttempts
      /\ compared[c] + Cardinality(Spent(c)) <= attempts[c]
  BY DEF CapInv, TypeOK
<1>3. CASE c = req[r].code
  <2>1. r \in Spent(c) /\ compared'[c] = compared[c] + 1
    BY <1>3 DEF Spent, TypeOK
  <2> QED BY <1>1, <1>2, <2>1, Loses
<1>4. CASE c # req[r].code
  <2>1. r \notin Spent(c) /\ compared'[c] = compared[c]
    BY <1>4 DEF Spent, TypeOK
  <2> QED BY <1>1, <1>2, <2>1
<1> QED BY <1>3, <1>4

LEMMA CapStep == TypeOK /\ CapInv /\ [Next]_vars => CapInv'
<1> SUFFICES ASSUME TypeOK, CapInv, [Next]_vars PROVE CapInv'
  OBVIOUS
<1>0. req \in [Req -> Request]
  BY DEF TypeOK, Request, Pc
<1>1. ASSUME NEW r \in Req,
             \/ \E b \in Browser : AskRead(r, b)
             \/ AskInsert(r) \/ AskSave(r) \/ RecordFailure(r)
             \/ \E c \in Code : OpenLink(r, c)
             \/ Consume(r) \/ Abort(r)
      PROVE CapInv'
  BY <1>1, Moves, CapMoves
<1>2. ASSUME NEW r \in Req, NEW b \in Browser, GuessAdmit(r, b) PROVE CapInv'
  <2>1. Only(r) /\ req'[r].pc = "guess" /\ UNCHANGED <<attempts, compared>>
    BY <1>0, <1>2 DEF GuessAdmit, Only, rows, history
  <2> QED BY <2>1, CapMoves
<1>3. ASSUME NEW r \in Req, GuessRead(r) PROVE CapInv'
  <2>1. UNCHANGED <<attempts, compared>>
    BY <1>3 DEF GuessRead, rows, history
  <2>2. CASE Failed(r)
    BY <2>1, <2>2, Fails, CapMoves
  <2>3. CASE ~Failed(r)
    <3>1. PICK c \in Guessed(r) : req' = [req EXCEPT ![r] = [Idle EXCEPT !.pc = "found", !.code = c]]
      BY <1>3, <2>3 DEF GuessRead
    <3>2. Only(r) /\ req'[r].pc # "spent"
      BY <1>0, <3>1 DEF Only, Idle
    <3> QED BY <2>1, <3>2, CapMoves
  <2> QED BY <2>2, <2>3
<1>4. ASSUME NEW r \in Req, SpendAttempt(r) PROVE CapInv'
  <2> DEFINE d == req[r].code
  <2>1. d \in Code /\ UNCHANGED compared /\ req[r].pc = "found"
    BY <1>4 DEF SpendAttempt, TypeOK, Code, history
  <2>2. CASE attempts[d] < MaxAttempts
    <3>1. /\ attempts' = [attempts EXCEPT ![d] = @ + 1]
          /\ req' = [req EXCEPT ![r].pc = "spent"]
      BY <1>4, <2>2 DEF SpendAttempt
    <3> SUFFICES ASSUME NEW c \in Code
                 PROVE  /\ attempts'[c] <= MaxAttempts
                        /\ compared[c] + Cardinality(Spent(c)') <= attempts'[c]
      BY <2>1 DEF CapInv
    <3>2. compared[c] \in Nat /\ attempts[c] \in Nat /\ attempts[c] <= MaxAttempts
          /\ compared[c] + Cardinality(Spent(c)) <= attempts[c]
      BY DEF CapInv, TypeOK
    <3>3. Spent(c) \in SUBSET Req /\ r \notin Spent(c)
      BY <2>1 DEF Spent
    <3>4. CASE c = d
      <4>1. Spent(c)' = Spent(c) \cup {r} /\ attempts'[c] = attempts[c] + 1
        BY <1>0, <2>1, <3>1, <3>4 DEF Spent, TypeOK, Request
      <4> QED BY <2>2, <3>2, <3>3, <3>4, <4>1, Gains, Constants
    <3>5. CASE c # d
      <4>1. Spent(c)' = Spent(c) /\ attempts'[c] = attempts[c]
        BY <1>0, <2>1, <3>1, <3>5 DEF Spent, TypeOK, Request
      <4> QED BY <3>2, <4>1
    <3> QED BY <3>4, <3>5
  <2>3. CASE ~(attempts[d] < MaxAttempts)
    <3>1. Failed(r) /\ UNCHANGED attempts
      BY <1>4, <2>3 DEF SpendAttempt
    <3> QED BY <2>1, <3>1, Fails, CapMoves
  <2> QED BY <2>2, <2>3
<1>5. ASSUME NEW r \in Req, CompareRight(r) PROVE CapInv'
  <2>1. /\ req[r].pc = "spent" /\ Only(r) /\ req'[r].pc = "proven" /\ UNCHANGED attempts
        /\ compared' = [compared EXCEPT ![req[r].code] = @ + 1]
    BY <1>0, <1>5 DEF CompareRight, Only, rows, Request
  <2> QED BY <2>1, CapCompared
<1>6. ASSUME NEW r \in Req, CompareWrong(r) PROVE CapInv'
  <2>1. /\ req[r].pc = "spent" /\ Failed(r) /\ UNCHANGED attempts
        /\ compared' = [compared EXCEPT ![req[r].code] = @ + 1]
    BY <1>6 DEF CompareWrong, rows
  <2> QED BY <2>1, Fails, CapCompared
<1>7. CASE Revoke \/ Tick \/ UNCHANGED vars
  <2>1. UNCHANGED <<attempts, compared, req>>
    BY <1>7 DEF Revoke, Tick, vars, rows, history
  <2>2. \A c \in Code : Spent(c)' = Spent(c)
    BY <2>1 DEF Spent
  <2> QED BY <2>1, <2>2, CapKept
<1> QED BY <1>1, <1>2, <1>3, <1>4, <1>5, <1>6, <1>7 DEF Next

-----------------------------------------------------------------------------
(* A row ends once                                                         *)

LEMMA EndStep == TypeOK /\ EndInv /\ [Next]_vars => EndInv'
<1> SUFFICES ASSUME TypeOK, EndInv, [Next]_vars PROVE EndInv'
  OBVIOUS
<1>0. /\ used \in [Code -> BOOLEAN] /\ wins \in [Code -> Nat] /\ issued \in Nat
      /\ \A r \in Req : req[r].pc = "proven" => req[r].code \in Code
  BY Constants DEF TypeOK, Code
<1>1. ASSUME UNCHANGED <<used, wins, killed>>, issued' = issued \/ issued' = issued + 1
      PROVE  EndInv'
  BY <1>0, <1>1 DEF EndInv, Code
<1>2. ASSUME NEW r \in Req, Consume(r) PROVE EndInv'
  <2>1. UNCHANGED <<killed, issued>> /\ req[r].code \in Code
    BY <1>0, <1>2 DEF Consume
  <2>2. CASE used[req[r].code]
    BY <1>1, <1>2, <2>1, <2>2 DEF Consume
  <2>3. CASE ~used[req[r].code]
    <3>1. /\ used' = [used EXCEPT ![req[r].code] = TRUE]
          /\ wins' = [wins EXCEPT ![req[r].code] = @ + 1]
      BY <1>2, <2>3 DEF Consume
    <3>2. wins[req[r].code] = 0 /\ req[r].code \notin killed
      BY <1>0, <2>1, <2>3 DEF EndInv
    <3>3. req[r].code <= issued
      BY <1>2 DEF Consume, TypeOK
    <3> SUFFICES ASSUME NEW c \in Code
                 PROVE  /\ used'[c] => c <= issued
                        /\ wins'[c] <= 1
                        /\ wins'[c] = 1 => used'[c] /\ c \notin killed
                        /\ c \in killed => used'[c]
      BY <2>1 DEF EndInv
    <3>4. CASE c = req[r].code
      BY <1>0, <3>1, <3>2, <3>3, <3>4
    <3>5. CASE c # req[r].code
      BY <1>0, <3>1, <3>5 DEF EndInv
    <3> QED BY <3>4, <3>5
  <2> QED BY <2>2, <2>3
<1>3. CASE Revoke
  <2>1. /\ used' = [c \in Code |-> c <= issued]
        /\ killed' = killed \cup {c \in 1..issued : ~used[c]}
        /\ UNCHANGED <<wins, issued>>
    BY <1>3 DEF Revoke
  <2> SUFFICES ASSUME NEW c \in Code
               PROVE  /\ used'[c] => c <= issued
                      /\ wins[c] <= 1
                      /\ wins[c] = 1 => used'[c] /\ c \notin killed'
                      /\ c \in killed' => used'[c]
    BY <2>1 DEF EndInv
  <2>2. used'[c] <=> c <= issued
    BY <2>1
  <2>3. wins[c] = 1 => used[c] /\ c \notin killed
    BY DEF EndInv
  <2>4. used[c] => c <= issued
    BY DEF EndInv
  <2>5. c \in killed' <=> c \in killed \/ (c \in 1..issued /\ ~used[c])
    BY <2>1
  <2>6. c \in 1..issued => c <= issued
    BY <1>0
  <2> QED BY <2>2, <2>3, <2>4, <2>5, <2>6 DEF EndInv
<1>4. CASE \E r \in Req : AskInsert(r)
  BY <1>1, <1>4 DEF AskInsert, history
<1>5. CASE \/ \E r \in Req, b \in Browser : AskRead(r, b) \/ GuessAdmit(r, b)
           \/ \E r \in Req : \/ AskSave(r) \/ RecordFailure(r) \/ GuessRead(r)
                             \/ SpendAttempt(r) \/ CompareRight(r) \/ CompareWrong(r) \/ Abort(r)
           \/ \E r \in Req, c \in Code : OpenLink(r, c)
           \/ Tick \/ UNCHANGED vars
  <2>1. UNCHANGED <<used, wins, killed, issued>>
    BY <1>5 DEF AskRead, AskSave, RecordFailure, GuessRead, SpendAttempt, CompareRight,
                CompareWrong, Abort, GuessAdmit, OpenLink, Tick, vars, rows, history
  <2> QED BY <1>1, <2>1
<1> QED BY <1>2, <1>3, <1>4, <1>5 DEF Next

-----------------------------------------------------------------------------
(* The counter of failures                                                 *)

LEMMA FailKept ==
  ASSUME TypeOK, FailInv, UNCHANGED <<kind, wrong>>, clock' = clock \/ clock' = clock + 1,
         Admitted' \subseteq Admitted
  PROVE  FailInv'
<1>1. Admitted \in SUBSET Req /\ Admitted' \in SUBSET Req
  BY DEF Admitted
<1>2. Cardinality(Admitted') <= Cardinality(Admitted)
  BY <1>1, Constants, FS_Subset
<1>3. Cardinality(Admitted') \in Nat /\ Cardinality(Admitted) \in Nat
  BY <1>1, Some
<1>4. clock \in Nat /\ wrong.count \in Nat /\ wrong.reset_at \in Nat
  BY Constants DEF TypeOK, Time
<1> QED BY <1>2, <1>3, <1>4, Constants DEF FailInv

LEMMA FailMoves ==
  ASSUME TypeOK, FailInv, UNCHANGED <<kind, wrong, clock>>, NEW r \in Req, Only(r),
         req'[r].pc \notin {"guess", "found", "spent"} \/ r \in Admitted
  PROVE  FailInv'
  BY FailKept DEF Admitted, Only

\* A failure takes its request's place in the window, or opens a new one.
LEMMA FailCounted ==
  ASSUME TypeOK, FailInv, NEW r \in Req, r \in Admitted, Failed(r), UNCHANGED <<kind, clock>>
  PROVE  FailInv'
<1>1. Only(r) /\ req'[r].pc \notin {"guess", "found", "spent"}
  BY Fails
<1>2. CASE kind = "confirm"
  BY <1>1, <1>2, FailMoves DEF Failed
<1>3. CASE kind # "confirm"
  <2>1. Admitted \in SUBSET Req /\ Admitted' = Admitted \ {r}
    BY <1>1 DEF Admitted, Only
  <2>2. /\ Cardinality(Admitted) \in Nat /\ Cardinality(Admitted) <= Cardinality(Req)
        /\ Cardinality(Admitted') = Cardinality(Admitted) - 1 /\ Cardinality(Admitted') \in Nat
    BY <2>1, Loses, Some
  <2>3. wrong \in [count : Nat, reset_at : Nat] /\ clock \in Nat
    BY Constants DEF TypeOK, Time
  <2>4. wrong' = IF wrong.count = 0 \/ clock > wrong.reset_at
                 THEN [count |-> 1, reset_at |-> clock + FailWindow]
                 ELSE [wrong EXCEPT !.count = @ + 1]
    BY <1>3 DEF Failed, Counted
  <2>5. CASE wrong.count = 0 \/ clock > wrong.reset_at
    <3>1. wrong'.count = 1
      BY <2>4, <2>5
    <3>2. 1 + Cardinality(Admitted') < FailMax + Cardinality(Req)
      BY <2>2, Constants
    <3> QED BY <1>3, <2>2, <3>1, <3>2, Constants DEF FailInv
  <2>6. CASE ~(wrong.count = 0 \/ clock > wrong.reset_at)
    <3>1. wrong'.count = wrong.count + 1 /\ wrong'.reset_at = wrong.reset_at
      BY <2>3, <2>4, <2>6
    <3>2. wrong.count + Cardinality(Admitted) < FailMax + Cardinality(Req)
      BY <2>3, <2>6 DEF FailInv
    <3> QED BY <1>3, <2>2, <2>3, <3>1, <3>2, Constants DEF FailInv
  <2> QED BY <2>5, <2>6
<1> QED BY <1>2, <1>3

LEMMA FailStep == TypeOK /\ FailInv /\ [Next]_vars => FailInv'
<1> SUFFICES ASSUME TypeOK, FailInv, [Next]_vars PROVE FailInv'
  OBVIOUS
<1>0. req \in [Req -> Request]
  BY DEF TypeOK, Request, Pc
<1>1. ASSUME NEW r \in Req,
             \/ \E b \in Browser : AskRead(r, b)
             \/ AskInsert(r) \/ AskSave(r) \/ RecordFailure(r)
             \/ \E c \in Code : OpenLink(r, c)
             \/ Consume(r) \/ Abort(r)
      PROVE FailInv'
  BY <1>1, Moves, FailMoves
<1>2. ASSUME NEW r \in Req, NEW b \in Browser, GuessAdmit(r, b) PROVE FailInv'
  <2>1. /\ UNCHANGED <<kind, wrong, clock>> /\ req[r].pc = "idle"
        /\ Only(r) /\ req'[r].pc = "guess"
    BY <1>0, <1>2 DEF GuessAdmit, Only
  <2>2. Admitted \in SUBSET Req /\ r \notin Admitted /\ Admitted' = Admitted \cup {r}
    BY <2>1 DEF Admitted, Only
  <2>3. /\ Cardinality(Admitted') \in Nat
        /\ Cardinality(Admitted') <= Cardinality(Req)
    BY <2>2, Some DEF Admitted
  <2>4. wrong.count \in Nat /\ wrong.reset_at \in Nat /\ clock \in Nat
    BY Constants DEF TypeOK, Time
  <2>5. clock <= wrong.reset_at => wrong.count < FailMax
    <3>1. CASE kind = "confirm"
      BY <3>1, Constants DEF FailInv
    <3>2. CASE kind # "confirm"
      <4>1. ~IsBlocked
        BY <1>2, <3>2 DEF GuessAdmit, MayGuess
      <4> QED BY <2>4, <4>1, Constants DEF IsBlocked
    <3> QED BY <3>1, <3>2
  <2> QED BY <2>1, <2>3, <2>4, <2>5, Constants DEF FailInv
<1>3. ASSUME NEW r \in Req, GuessRead(r) PROVE FailInv'
  <2>1. r \in Admitted /\ UNCHANGED <<kind, clock>>
    BY <1>3 DEF GuessRead, Admitted
  <2>2. CASE Failed(r)
    BY <2>1, <2>2, FailCounted
  <2>3. CASE ~Failed(r)
    <3>1. Only(r) /\ UNCHANGED wrong
      BY <1>0, <1>3, <2>3 DEF GuessRead, Only
    <3> QED BY <2>1, <3>1, FailMoves
  <2> QED BY <2>2, <2>3
<1>4. ASSUME NEW r \in Req, SpendAttempt(r) PROVE FailInv'
  <2>1. r \in Admitted /\ UNCHANGED <<kind, clock>>
    BY <1>4 DEF SpendAttempt, Admitted
  <2>2. CASE Failed(r)
    BY <2>1, <2>2, FailCounted
  <2>3. CASE ~Failed(r)
    <3>1. Only(r) /\ UNCHANGED wrong
      BY <1>0, <1>4, <2>3 DEF SpendAttempt, Only
    <3> QED BY <2>1, <3>1, FailMoves
  <2> QED BY <2>2, <2>3
<1>5. ASSUME NEW r \in Req, CompareRight(r) PROVE FailInv'
  <2>1. Only(r) /\ r \in Admitted /\ UNCHANGED <<kind, clock, wrong>>
    BY <1>0, <1>5 DEF CompareRight, Only, Admitted
  <2> QED BY <2>1, FailMoves
<1>6. ASSUME NEW r \in Req, CompareWrong(r) PROVE FailInv'
  <2>1. Failed(r) /\ r \in Admitted /\ UNCHANGED <<kind, clock>>
    BY <1>6 DEF CompareWrong, Admitted
  <2> QED BY <2>1, FailCounted
<1>7. CASE Revoke \/ Tick \/ UNCHANGED vars
  <2>1. UNCHANGED <<kind, wrong, req>> /\ (clock' = clock \/ clock' = clock + 1)
    BY <1>7 DEF Revoke, Tick, vars
  <2>2. Admitted' = Admitted
    BY <2>1 DEF Admitted
  <2> QED BY <2>1, <2>2, FailKept
<1> QED BY <1>1, <1>2, <1>3, <1>4, <1>5, <1>6, <1>7 DEF Next

-----------------------------------------------------------------------------
(* The budget of an address                                                *)

LEMMA GuessesCount ==
  ASSUME NEW S, S \subseteq Code \X (1..MaxAttempts)
  PROVE  IsFiniteSet(S) /\ Cardinality(S) \in Nat
<1>1. IsFiniteSet(Code) /\ IsFiniteSet(1..MaxAttempts)
  BY FS_Interval, Constants DEF Code
<1>2. IsFiniteSet(Code \X (1..MaxAttempts))
  BY <1>1, FS_Product
<1> QED BY <1>2, FS_Subset, FS_CardinalityType

LEMMA GuessesAre ==
  ASSUME TypeOK, NEW counter
  PROVE  Guesses(counter) \subseteq Code \X (1..MaxAttempts)
<1>1. InWindow \subseteq Code
  BY Constants DEF InWindow, Code, TypeOK
<1> QED BY <1>1 DEF Guesses

\* The window closes and rows are used up: the guesses counted get fewer.
LEMMA BudgetKept ==
  ASSUME TypeOK, BudgetInv, UNCHANGED kind,
         Guesses(attempts)' \subseteq Guesses(attempts), Pending' \subseteq Pending,
         \A c \in Code : issued' < c => attempts'[c] = 0
  PROVE  BudgetInv'
<1>1. /\ IsFiniteSet(Guesses(attempts)) /\ WrongCodes \in Nat
      /\ WrongCodes' \in Nat /\ WrongCodes' <= WrongCodes
  <2>1. Guesses(attempts) \subseteq Code \X (1..MaxAttempts)
    BY GuessesAre
  <2> QED BY <2>1, GuessesCount, FS_Subset DEF WrongCodes
<1>2. Pending \in SUBSET Req /\ Pending' \in SUBSET Req
  BY DEF Pending
<1>3. Cardinality(Pending') <= Cardinality(Pending)
  BY <1>2, Constants, FS_Subset
<1>4. Cardinality(Pending') \in Nat /\ Cardinality(Pending) \in Nat
  BY <1>2, Some
<1> QED BY <1>1, <1>3, <1>4, Constants DEF BudgetInv

\* Only the rows a step inserts or spends a guess of can count more.
LEMMA BudgetMoves ==
  ASSUME TypeOK, BudgetInv, UNCHANGED <<kind, attempts, issued>>, InWindow' \subseteq InWindow,
         Pending' \subseteq Pending
  PROVE  BudgetInv'
<1>1. Guesses(attempts)' \subseteq Guesses(attempts)
  BY DEF Guesses
<1>2. \A c \in Code : issued' < c => attempts'[c] = 0
  BY DEF BudgetInv
<1> QED BY <1>1, <1>2, BudgetKept

LEMMA PendingLess ==
  ASSUME NEW r \in Req, Only(r), req'[r].pc \notin {"guess", "found"} \/ r \in Pending
  PROVE  Pending' \subseteq Pending
  BY DEF Only, Pending

LEMMA SpendBudget ==
  ASSUME TypeOK, BudgetInv, NEW r \in Req, SpendAttempt(r), attempts[req[r].code] < MaxAttempts
  PROVE  BudgetInv'
<1> DEFINE c == req[r].code
           guess == <<c, attempts[c] + 1>>
<1>1. /\ req[r].pc = "found" /\ attempts' = [attempts EXCEPT ![c] = @ + 1]
      /\ req' = [req EXCEPT ![r].pc = "spent"] /\ UNCHANGED <<kind, clock, issued, created, used>>
  BY DEF SpendAttempt
<1>2. c \in Code /\ c <= issued /\ issued \in Nat /\ attempts \in [Code -> Nat]
  BY <1>1, Constants DEF TypeOK, Code
<1>3. InWindow' = InWindow
  BY <1>1 DEF InWindow
<1>4. attempts'[c] = attempts[c] + 1 /\ \A d \in Code : d # c => attempts'[d] = attempts[d]
  BY <1>1, <1>2
<1>5. InWindow \subseteq Code
  BY Constants DEF InWindow, Code, TypeOK
<1> HIDE DEF c
<1>6. Guesses(attempts)' \subseteq Guesses(attempts) \cup {guess}
  <2> SUFFICES ASSUME NEW g \in InWindow \X (1..MaxAttempts), g[2] <= attempts'[g[1]],
                      g # guess
               PROVE  g[2] <= attempts[g[1]]
    BY <1>3 DEF Guesses
  <2>1. g = <<g[1], g[2]>> /\ g[1] \in Code /\ g[2] \in Nat
    BY <1>5, Constants
  <2>2. attempts[g[1]] \in Nat
    BY <1>2, <2>1
  <2>3. CASE g[1] = c
    BY <1>4, <2>1, <2>2, <2>3
  <2>4. CASE g[1] # c
    BY <1>4, <2>1, <2>4
  <2> QED BY <2>3, <2>4
<1>7. /\ WrongCodes \in Nat /\ WrongCodes' \in Nat /\ WrongCodes' <= WrongCodes + 1
  <2>1. IsFiniteSet(Guesses(attempts)) /\ Cardinality(Guesses(attempts)) \in Nat
    BY GuessesAre, GuessesCount
  <2> HIDE DEF guess
  <2>2. /\ IsFiniteSet(Guesses(attempts) \cup {guess})
        /\ Cardinality(Guesses(attempts) \cup {guess}) <= Cardinality(Guesses(attempts)) + 1
        /\ Cardinality(Guesses(attempts) \cup {guess}) \in Nat
    <3> DEFINE S == Guesses(attempts)
    <3> HIDE DEF S
    <3>1. IsFiniteSet(S) /\ Cardinality(S) \in Nat
      BY <2>1 DEF S
    <3>2. /\ IsFiniteSet(S \cup {guess})
          /\ Cardinality(S \cup {guess}) =
               IF guess \in S THEN Cardinality(S) ELSE Cardinality(S) + 1
      BY <3>1, FS_AddElement
    <3> QED BY <3>1, <3>2 DEF S
  <2>3. /\ Cardinality(Guesses(attempts)') <= Cardinality(Guesses(attempts) \cup {guess})
        /\ Cardinality(Guesses(attempts)') \in Nat
    BY <1>6, <2>2, FS_Subset, FS_CardinalityType
  <2> QED BY <2>1, <2>2, <2>3 DEF WrongCodes
<1>8. Pending \in SUBSET Req /\ r \in Pending /\ Pending' = Pending \ {r}
  <2>1. req \in [Req -> Request]
    BY DEF TypeOK, Request, Pc
  <2>2. req'[r].pc = "spent" /\ \A q \in Req \ {r} : req'[q] = req[q]
    BY <1>1, <2>1 DEF Request
  <2> QED BY <1>1, <2>2 DEF Pending
<1>9. /\ Cardinality(Pending) \in Nat /\ Cardinality(Pending') = Cardinality(Pending) - 1
      /\ Cardinality(Pending') \in Nat
  BY <1>8, Loses
<1>10. \A d \in Code : issued' < d => attempts'[d] = 0
  BY <1>1, <1>2, <1>4, Constants DEF BudgetInv, Code
<1> QED BY <1>1, <1>7, <1>9, <1>10, Constants DEF BudgetInv

LEMMA BudgetStep == TypeOK /\ BudgetInv /\ [Next]_vars => BudgetInv'
<1> SUFFICES ASSUME TypeOK, BudgetInv, [Next]_vars PROVE BudgetInv'
  OBVIOUS
<1>0. req \in [Req -> Request] /\ issued \in Nat /\ clock \in Nat /\ created \in [Code -> Time]
  BY Constants DEF TypeOK, Request, Pc, Time
<1>1. ASSUME NEW r \in Req,
             \/ \E b \in Browser : AskRead(r, b)
             \/ AskSave(r) \/ RecordFailure(r)
             \/ \E c \in Code : OpenLink(r, c)
             \/ Consume(r) \/ Abort(r)
      PROVE BudgetInv'
  <2>1. Only(r) /\ req'[r].pc \notin {"guess", "found"} /\ UNCHANGED <<attempts, clock, kind>>
    BY <1>1, Moves
  <2>2. UNCHANGED <<issued, created>> /\ \A c \in 1..issued : used[c] => used'[c]
    <3>1. CASE \/ \E b \in Browser : AskRead(r, b)
               \/ AskSave(r) \/ RecordFailure(r)
               \/ \E c \in Code : OpenLink(r, c)
               \/ Abort(r)
      BY <3>1 DEF AskRead, AskSave, RecordFailure, OpenLink, Abort, rows
    <3>2. CASE Consume(r)
      <4>1. used \in [Code -> BOOLEAN] /\ 1..issued \subseteq Code
        BY Constants DEF TypeOK, Code
      <4>2. CASE used[req[r].code]
        BY <3>2, <4>2 DEF Consume
      <4>3. CASE ~used[req[r].code]
        <5>1. used' = [used EXCEPT ![req[r].code] = TRUE]
          BY <3>2, <4>3 DEF Consume
        <5>2. \A c \in 1..issued : used[c] => used'[c]
          BY <4>1, <5>1
        <5> QED BY <3>2, <5>2 DEF Consume
      <4> QED BY <4>2, <4>3
    <3> QED BY <1>1, <3>1, <3>2
  <2>3. InWindow' \subseteq InWindow
    BY <2>1, <2>2 DEF InWindow
  <2> QED BY <2>1, <2>2, <2>3, PendingLess, BudgetMoves
<1>2. ASSUME NEW r \in Req, AskInsert(r) PROVE BudgetInv'
  <2>1. Only(r) /\ req'[r].pc \notin {"guess", "found"} /\ UNCHANGED <<attempts, clock, kind>>
    BY <1>2, Moves
  <2>2. /\ issued + 1 \in Code /\ issued' = issued + 1 /\ UNCHANGED used
        /\ created' = [created EXCEPT ![issued + 1] = req[r].at]
    BY <1>0, <1>2, Constants DEF AskInsert, Code
  <2>3. attempts[issued + 1] = 0
    BY <1>0, <2>2 DEF BudgetInv
  <2>4. InWindow' \subseteq InWindow \cup {issued + 1}
    <3> SUFFICES ASSUME NEW c \in InWindow', c # issued + 1 PROVE c \in InWindow
      OBVIOUS
    <3>1. c \in 1..issued' /\ ~used[c] /\ created'[c] + Window > clock
      BY <2>1, <2>2 DEF InWindow
    <3>2. c \in 1..issued /\ c \in Code
      BY <1>0, <2>2, <3>1, Constants DEF Code
    <3>3. created'[c] = created[c]
      BY <1>0, <2>2, <3>2
    <3> QED BY <3>1, <3>2, <3>3 DEF InWindow
  <2>5. Guesses(attempts)' \subseteq Guesses(attempts)
    <3> SUFFICES ASSUME NEW g \in InWindow' \X (1..MaxAttempts), g[2] <= attempts[g[1]]
                 PROVE  g \in InWindow \X (1..MaxAttempts)
      BY <2>1 DEF Guesses
    <3>1. g[1] # issued + 1
      BY <2>3, Constants
    <3> QED BY <2>4, <3>1
  <2>6. \A c \in Code : issued' < c => attempts'[c] = 0
    BY <1>0, <2>1, <2>2 DEF BudgetInv, Code
  <2> QED BY <2>1, <2>5, <2>6, PendingLess, BudgetKept
<1>3. ASSUME NEW r \in Req, NEW b \in Browser, GuessAdmit(r, b) PROVE BudgetInv'
  <2>1. UNCHANGED <<kind, clock, rows>> /\ MayGuess
    BY <1>3 DEF GuessAdmit
  <2>2. WrongCodes' = WrongCodes /\ WrongCodes \in Nat
    <3>1. WrongCodes \in Nat
      BY GuessesAre, GuessesCount DEF WrongCodes
    <3> QED BY <2>1, <3>1 DEF WrongCodes, Guesses, InWindow, rows
  <2>3. Cardinality(Pending') \in Nat /\ Cardinality(Pending') <= Cardinality(Req)
    BY Some DEF Pending
  <2>4. kind # "confirm" => WrongCodes < Budget
    BY <2>1 DEF MayGuess
  <2>5. \A c \in Code : issued' < c => attempts'[c] = 0
    BY <2>1 DEF BudgetInv, rows
  <2> QED BY <2>1, <2>2, <2>3, <2>4, <2>5, Constants DEF BudgetInv
<1>4. ASSUME NEW r \in Req, GuessRead(r) PROVE BudgetInv'
  <2>1. r \in Pending /\ UNCHANGED <<kind, clock, rows>>
    BY <1>4 DEF GuessRead, Pending
  <2>2. Only(r)
    <3>1. CASE Failed(r)
      BY <3>1, Fails
    <3>2. CASE ~Failed(r)
      BY <1>0, <1>4, <3>2 DEF GuessRead, Only
    <3> QED BY <3>1, <3>2
  <2>3. InWindow' = InWindow
    BY <2>1 DEF InWindow, rows
  <2> QED BY <2>1, <2>2, <2>3, PendingLess, BudgetMoves DEF rows
<1>5. ASSUME NEW r \in Req, SpendAttempt(r) PROVE BudgetInv'
  <2>1. CASE attempts[req[r].code] < MaxAttempts
    BY <1>5, <2>1, SpendBudget
  <2>2. CASE ~(attempts[req[r].code] < MaxAttempts)
    <3>1. Failed(r) /\ UNCHANGED <<attempts, kind, clock, issued, created, used>>
      BY <1>5, <2>2 DEF SpendAttempt
    <3>2. InWindow' = InWindow
      BY <3>1 DEF InWindow
    <3> QED BY <3>1, <3>2, Fails, PendingLess, BudgetMoves
  <2> QED BY <2>1, <2>2
<1>6. ASSUME NEW r \in Req, CompareRight(r) \/ CompareWrong(r) PROVE BudgetInv'
  <2>1. UNCHANGED <<kind, clock, rows>>
    BY <1>6 DEF CompareRight, CompareWrong
  <2>2. Only(r) /\ req'[r].pc \notin {"guess", "found"}
    <3>1. CASE CompareRight(r)
      BY <1>0, <3>1 DEF CompareRight, Only, Request
    <3>2. CASE CompareWrong(r)
      BY <3>2, Fails DEF CompareWrong
    <3> QED BY <1>6, <3>1, <3>2
  <2>3. InWindow' = InWindow
    BY <2>1 DEF InWindow, rows
  <2> QED BY <2>1, <2>2, <2>3, PendingLess, BudgetMoves DEF rows
<1>7. CASE Revoke \/ Tick \/ UNCHANGED vars
  <2>1. /\ UNCHANGED <<kind, attempts, issued, created, req>> /\ clock' \in {clock, clock + 1}
        /\ \A c \in 1..issued : ~used'[c] => ~used[c]
    <3>1. 1..issued \subseteq Code
      BY Constants DEF TypeOK, Code
    <3>2. CASE Revoke
      <4>1. /\ used' = [c \in Code |-> c <= issued]
            /\ UNCHANGED <<kind, clock, issued, created, attempts, req>>
        BY <3>2 DEF Revoke
      <4>2. ASSUME NEW c \in 1..issued PROVE used'[c]
        <5>1. c \in Code /\ c <= issued
          BY <1>0, <3>1
        <5>2. used'[c] <=> c <= issued
          BY <4>1, <5>1
        <5> QED BY <5>1, <5>2
      <4> QED BY <4>1, <4>2
    <3> QED BY <1>7, <3>2 DEF Tick, vars, rows
  <2>2. InWindow' \subseteq InWindow
    <3> SUFFICES ASSUME NEW c \in InWindow' PROVE c \in InWindow
      OBVIOUS
    <3>1. c \in 1..issued /\ ~used[c] /\ created[c] + Window > clock'
      BY <2>1 DEF InWindow
    <3>2. created[c] \in Nat
      BY <1>0, <3>1, Constants DEF TypeOK, Code, Time
    <3> QED BY <1>0, <2>1, <3>1, <3>2, Constants DEF InWindow
  <2>3. Pending' = Pending
    BY <2>1 DEF Pending
  <2> QED BY <2>1, <2>2, <2>3, BudgetMoves
<1> QED BY <1>1, <1>2, <1>3, <1>4, <1>5, <1>6, <1>7 DEF Next

-----------------------------------------------------------------------------
(* The theorems                                                            *)

LEMMA Inductive == Spec => []IInv
<1>1. Init => IInv
  <2> SUFFICES ASSUME Init PROVE IInv
    OBVIOUS
  <2>1. TypeOK
    BY TypeInit
  <2>2. \A r \in Req : req[r].pc = "idle"
    BY IdleIsRequest DEF Init
  <2>3. Admitted = {} /\ \A c \in Code : Spent(c) = {}
    BY <2>2 DEF Admitted, Spent
  <2>4. Cardinality({}) = 0
    BY FS_EmptySet
  <2>5. CapInv
    <3> SUFFICES ASSUME NEW c \in Code
                 PROVE  /\ attempts[c] <= MaxAttempts
                        /\ compared[c] + Cardinality(Spent(c)) <= attempts[c]
      BY DEF CapInv
    <3>1. Cardinality(Spent(c)) = 0
      BY <2>3, <2>4
    <3>2. attempts[c] = 0 /\ compared[c] = 0
      BY DEF Init
    <3> QED BY <3>1, <3>2, Constants
  <2>6. EndInv
    BY DEF Init, EndInv
  <2>7. FailInv
    BY <2>3, <2>4, Constants DEF Init, NoEntry, FailInv
  <2>8. BudgetInv
    <3>1. Pending = {} /\ Guesses(attempts) = {}
      BY <2>2 DEF Pending, Guesses, InWindow, Init
    <3>2. WrongCodes = 0 /\ Cardinality(Pending) = 0
      BY <2>4, <3>1 DEF WrongCodes
    <3> QED BY <3>2, Constants DEF BudgetInv, Init
  <2> QED BY <2>1, <2>5, <2>6, <2>7, <2>8 DEF IInv
<1>2. IInv /\ [Next]_vars => IInv'
  BY TypeStep, CapStep, EndStep, FailStep, BudgetStep DEF IInv
<1> QED BY <1>1, <1>2, PTL DEF Spec

\* The rows, the counters, the requests and the history keep their types.
THEOREM TypeCorrect == Spec => []TypeOK
<1>1. IInv => TypeOK
  BY DEF IInv
<1> QED BY <1>1, Inductive, PTL

\* However many guesses at a code arrive at once, and whatever each of them
\* read, no more than its cap are compared with it (spend_attempt).
THEOREM CapsHold == Spec => []CapHolds
<1>1. IInv => CapHolds
  <2> SUFFICES ASSUME IInv, NEW c \in Code PROVE compared[c] <= MaxAttempts
    BY DEF CapHolds
  <2>1. Cardinality(Spent(c)) \in Nat
    BY Some DEF Spent
  <2> QED BY <2>1, Constants DEF IInv, CapInv, TypeOK
<1> QED BY <1>1, Inductive, PTL

\* A code and its link take effect once together, and never after they were
\* revoked (consume_one_time_token).
THEOREM CodesEndOnce == Spec => []EndsOnce
<1>1. IInv => EndsOnce
  <2> SUFFICES ASSUME IInv, NEW c \in Code
               PROVE  wins[c] + (IF c \in killed THEN 1 ELSE 0) <= 1
    BY DEF EndsOnce
  <2>1. wins[c] \in Nat /\ wins[c] <= 1 /\ (wins[c] = 1 => c \notin killed)
    BY DEF IInv, EndInv, TypeOK
  <2> QED BY <2>1
<1> QED BY <1>1, Inductive, PTL

\* The failures one window counts exceed the limit by fewer than there are
\* requests (make_failure_counter).
THEOREM FailuresStayBounded == Spec => []FailuresBounded
<1>1. IInv => FailuresBounded
  BY DEF IInv, FailInv, FailuresBounded
<1> QED BY <1>1, Inductive, PTL

\* The guesses compared with an address's codes that are unused and were made
\* within the window, which are those the code counts, exceed its budget by fewer
\* than there are requests, though each of them read the sum before it spent its
\* guess (is_code_budget_spent, spend_attempt).
THEOREM CountedGuessesStayBounded == Spec => []CountedGuessesBounded
<1>1. IInv => CountedGuessesBounded
  <2> SUFFICES ASSUME IInv, kind # "confirm"
               PROVE  Cardinality(Guesses(compared)) < Budget + Cardinality(Req)
    BY DEF CountedGuessesBounded
  <2>1. \A c \in Code : compared[c] \in Nat /\ attempts[c] \in Nat /\ compared[c] <= attempts[c]
    <3> SUFFICES ASSUME NEW c \in Code
                 PROVE  compared[c] \in Nat /\ attempts[c] \in Nat /\ compared[c] <= attempts[c]
      OBVIOUS
    <3>1. Cardinality(Spent(c)) \in Nat
      BY Some DEF Spent
    <3> QED BY <3>1 DEF IInv, CapInv, TypeOK
  <2>2. InWindow \subseteq Code
    BY Constants DEF InWindow, Code, IInv, TypeOK
  <2>3. Guesses(compared) \subseteq Guesses(attempts)
    <3> SUFFICES ASSUME NEW g \in InWindow \X (1..MaxAttempts), g[2] <= compared[g[1]]
                 PROVE  g[2] <= attempts[g[1]]
      BY DEF Guesses
    <3>1. g[1] \in Code /\ g[2] \in Nat
      BY <2>2, Constants
    <3> QED BY <2>1, <3>1
  <2>4. /\ IsFiniteSet(Guesses(attempts)) /\ WrongCodes \in Nat
        /\ Cardinality(Guesses(compared)) \in Nat
        /\ Cardinality(Guesses(compared)) <= WrongCodes
    BY <2>3, GuessesAre, GuessesCount, FS_Subset DEF WrongCodes, IInv
  <2>5. Cardinality(Pending) \in Nat
    BY Some DEF Pending
  <2> QED BY <2>4, <2>5, Constants DEF IInv, BudgetInv
<1> QED BY <1>1, Inductive, PTL

-----------------------------------------------------------------------------
(* Refinement                                                              *)

Lives == [c \in Code |-> LifeOf(c)]

\* Nothing happens to any row.
LEMMA LifeStays ==
  ASSUME UNCHANGED <<issued, used, compared, wins>>
  PROVE  UNCHANGED <<Lives, compared, wins>>
  BY DEF Lives, LifeOf

\* Rows end, or one begins, and nothing is compared.
LEMMA LifeEnds ==
  ASSUME UNCHANGED compared,
         Lives' \in [Code -> Life!Phase],
         \A c \in Code : \/ LifeOf(c)' = LifeOf(c)
                         \/ LifeOf(c) = "unborn" /\ LifeOf(c)' = "out"
                         \/ LifeOf(c) = "out" /\ LifeOf(c)' = "over",
         \/ UNCHANGED wins
         \/ \E c \in Code : /\ LifeOf(c) = "out" /\ LifeOf(c)' = "over"
                            /\ wins' = [wins EXCEPT ![c] = @ + 1]
  PROVE  Life!Next
  BY DEF Life!Next, Life!Goes, Lives

\* A guess that was taken off a code is one it has left to compare.
LEMMA LifeCompares ==
  ASSUME TypeOK, CapInv, NEW r \in Req, req[r].pc = "spent",
         compared' = [compared EXCEPT ![req[r].code] = @ + 1],
         UNCHANGED <<issued, used, wins>>
  PROVE  Life!Next
<1> DEFINE c == req[r].code
<1>1. c \in Code /\ c \in 1..issued /\ issued \in Nat
  BY Constants DEF TypeOK, Code
<1>2. compared[c] \in Nat /\ attempts[c] \in Nat /\ attempts[c] <= MaxAttempts
      /\ compared[c] + Cardinality(Spent(c)) <= attempts[c]
  BY <1>1 DEF CapInv, TypeOK
<1>3. Spent(c) \in SUBSET Req /\ r \in Spent(c)
  BY DEF Spent
<1>4. Cardinality(Spent(c)) \in Nat /\ Cardinality(Spent(c)) - 1 \in Nat
  BY <1>3, Loses
<1>5. compared[c] < MaxAttempts
  BY <1>2, <1>4, Constants
<1>6. LifeOf(c) # "unborn"
  BY <1>1 DEF LifeOf
<1>7. \A d \in Code : LifeOf(d)' = LifeOf(d)
  BY DEF LifeOf
<1>8. Lives' \in [Code -> Life!Phase]
  BY <1>7 DEF Lives, LifeOf, Life!Phase
<1> QED BY <1>1, <1>5, <1>6, <1>7, <1>8 DEF Life!Next, Life!Goes, Lives

\* The statement in which a row takes effect is the one that ends it, a row is
\* out from its insert to its end, and each guess compared was counted against
\* the cap: the rows implement the abstract life of a code.
THEOREM Refinement == Spec => ImplementsLife
<1>1. Init => Life!Init
  BY DEF Init, Life!Init, LifeOf, Code
<1>2. ASSUME IInv, [Next]_vars PROVE [Life!Next]_<<Lives, compared, wins>>
  <2>0. /\ issued \in Nat /\ used \in [Code -> BOOLEAN] /\ wins \in [Code -> Nat]
        /\ \A c \in Code : c \in Nat /\ (used[c] => c <= issued)
        /\ \A r \in Req : req[r].pc = "proven" => req[r].code \in Code /\ req[r].code <= issued
    BY <1>2, Constants DEF IInv, TypeOK, EndInv, Code
  <2>1. ASSUME NEW r \in Req, AskInsert(r) PROVE Life!Next
    <3>1. UNCHANGED <<used, compared, wins>> /\ issued' = issued + 1
      BY <2>1 DEF AskInsert, history
    <3>2. \A c \in Code : \/ LifeOf(c)' = LifeOf(c)
                          \/ LifeOf(c) = "unborn" /\ LifeOf(c)' = "out"
      BY <2>0, <3>1 DEF LifeOf
    <3>3. Lives' \in [Code -> Life!Phase]
      BY DEF Lives, LifeOf, Life!Phase
    <3> QED BY <3>1, <3>2, <3>3, LifeEnds
  <2>2. ASSUME NEW r \in Req, Consume(r)
        PROVE  Life!Next \/ UNCHANGED <<Lives, compared, wins>>
    <3>1. UNCHANGED <<issued, compared>> /\ req[r].code \in Code /\ req[r].code <= issued
      BY <2>0, <2>2 DEF Consume
    <3>2. CASE used[req[r].code]
      BY <2>2, <3>1, <3>2, LifeStays DEF Consume
    <3>3. CASE ~used[req[r].code]
      <4>1. PICK c \in Code : c = req[r].code
        BY <3>1
      <4>2. /\ used' = [used EXCEPT ![c] = TRUE]
            /\ wins' = [wins EXCEPT ![c] = @ + 1]
        BY <2>2, <3>3, <4>1 DEF Consume
      <4>3. LifeOf(c) = "out" /\ LifeOf(c)' = "over"
        BY <2>0, <3>1, <3>3, <4>1, <4>2 DEF LifeOf
      <4>4. \A d \in Code : d # c => LifeOf(d)' = LifeOf(d)
        BY <2>0, <3>1, <4>2 DEF LifeOf
      <4>5. Lives' \in [Code -> Life!Phase]
        BY DEF Lives, LifeOf, Life!Phase
      <4> QED BY <3>1, <4>2, <4>3, <4>4, <4>5, LifeEnds
    <3> QED BY <3>2, <3>3
  <2>3. ASSUME Revoke PROVE Life!Next
    <3>1. used' = [c \in Code |-> c <= issued] /\ UNCHANGED <<issued, compared, wins>>
      BY <2>3 DEF Revoke
    <3>2. \A c \in Code : LifeOf(c)' = LifeOf(c) \/ (LifeOf(c) = "out" /\ LifeOf(c)' = "over")
      BY <2>0, <3>1 DEF LifeOf
    <3>3. Lives' \in [Code -> Life!Phase]
      BY DEF Lives, LifeOf, Life!Phase
    <3> QED BY <3>1, <3>2, <3>3, LifeEnds
  <2>4. ASSUME NEW r \in Req, CompareRight(r) \/ CompareWrong(r) PROVE Life!Next
    <3>1. /\ req[r].pc = "spent" /\ UNCHANGED <<issued, used, wins>>
          /\ compared' = [compared EXCEPT ![req[r].code] = @ + 1]
      BY <2>4 DEF CompareRight, CompareWrong, rows
    <3> QED BY <1>2, <3>1, LifeCompares DEF IInv
  <2>5. CASE \/ \E r \in Req, b \in Browser : AskRead(r, b) \/ GuessAdmit(r, b)
             \/ \E r \in Req : \/ AskSave(r) \/ RecordFailure(r) \/ GuessRead(r)
                               \/ SpendAttempt(r) \/ Abort(r)
             \/ \E r \in Req, c \in Code : OpenLink(r, c)
             \/ Tick \/ UNCHANGED vars
    <3>1. UNCHANGED <<issued, used, compared, wins>>
      BY <2>5 DEF AskRead, AskSave, RecordFailure, GuessRead, SpendAttempt, Abort,
                  GuessAdmit, OpenLink, Tick, vars, rows, history
    <3> QED BY <3>1, LifeStays
  <2> QED BY <1>2, <2>1, <2>2, <2>3, <2>4, <2>5 DEF Next
<1> QED BY <1>1, <1>2, Inductive, PTL DEF Spec, ImplementsLife, Life!Spec, Lives
=============================================================================
