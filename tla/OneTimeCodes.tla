---------------------------- MODULE OneTimeCodes ----------------------------
(***************************************************************************)
(* The codes mailed to one address, or to one account, and the guesses at  *)
(* them: the rows of magic_links, email_verify_tokens or confirm_codes     *)
(* with their caps, the budget of wrong codes summed over the rows, and    *)
(* the counter a process keeps of a client's failures.                     *)
(*                                                                         *)
(* A request is a sequence of statements; others run in between.  A link   *)
(* and a code are one row, and either one consumes it.                     *)
(***************************************************************************)
EXTENDS Naturals, FiniteSets, FiniteSetsExt

CONSTANTS
  Req,          \* requests running at once
  Browser,      \* browsers, each with a session
  MaxCodes,     \* bound of the rows inserted
  MaxTime,      \* bound of the clock
  MaxAttempts,  \* guesses a code takes
  Budget,       \* WRONG_CODES_MAX
  Window,       \* WINDOW_MS
  FailMax,      \* failures a counter takes ...
  FailWindow,   \* ... in one window
  Cooldown,     \* between two codes
  Lifetime      \* of a code

ASSUME OneTimeCodesAssumption ==
  /\ IsFiniteSet(Req)
  /\ Browser # {}
  /\ {MaxCodes, MaxTime, MaxAttempts, Budget, Window, FailMax, FailWindow,
      Cooldown, Lifetime} \subseteq Nat
  /\ 0 < FailMax
  /\ 0 < Budget

Code == 1..MaxCodes
Time == 0..MaxTime

VARIABLES
  kind,      \* whose rows these are: "magic", "verify" or "confirm"
  clock,
  issued,    \* rows inserted; the newest is the last one
  created,   \* [Code -> created_at]
  attempts,  \* [Code -> guesses spent]
  used,      \* [Code -> whether used_at is set]
  mine,      \* [Browser -> the magic_link_id of its session, or 0]
  req,       \* [Req -> [pc, by, at, own, code]]
  wrong,     \* the client's entry of wrong_codes: [count, reset_at]
  failed,    \* [Time -> failure events recorded then], of a confirmation
  compared,  \* history: [Code -> guesses compared with it]
  wins,      \* history: [Code -> times it, or its link, took effect]
  killed     \* history: rows revoked while unused

rows == <<issued, created, attempts, used>>
history == <<compared, wins, killed>>
vars == <<kind, clock, rows, mine, req, wrong, failed, history>>

Idle == [pc |-> "idle", by |-> CHOOSE b \in Browser : TRUE,
         at |-> 0, own |-> 0, code |-> 0]
NoEntry == [count |-> 0, reset_at |-> 0]

Init ==
  /\ kind \in {"magic", "verify", "confirm"}
  /\ clock = 0
  /\ issued = 0
  /\ created = [c \in Code |-> 0]
  /\ attempts = [c \in Code |-> 0]
  /\ used = [c \in Code |-> FALSE]
  /\ mine = [b \in Browser |-> 0]
  /\ req = [r \in Req |-> Idle]
  /\ wrong = NoEntry
  /\ failed = [t \in Time |-> 0]
  /\ compared = [c \in Code |-> 0]
  /\ wins = [c \in Code |-> 0]
  /\ killed = {}

-----------------------------------------------------------------------------
(* The counter in memory                                                   *)

\* One more in the window, or the first of a new one.  An entry whose window
\* is over counts as none: the timer that deletes it changes nothing else.
Counted(entry, window) ==
  IF entry.count = 0 \/ clock > entry.reset_at
  THEN [count |-> 1, reset_at |-> clock + window]
  ELSE [entry EXCEPT !.count = @ + 1]

\* Mutant of IsBlocked: a window is over at its last moment.
IsBlockedBefore == clock < wrong.reset_at /\ wrong.count >= FailMax

\* The client may not guess now.
IsBlocked == clock <= wrong.reset_at /\ wrong.count >= FailMax

-----------------------------------------------------------------------------
(* Asking for a code                                                       *)

\* The request finds no code sent a moment ago.
AskRead(r, b) ==
  /\ req[r].pc = "idle"
  /\ issued > 0 => created[issued] + Cooldown <= clock
  /\ req' = [req EXCEPT ![r] = [Idle EXCEPT !.pc = "asked", !.by = b, !.at = clock]]
  /\ UNCHANGED <<kind, clock, rows, mine, wrong, failed, history>>

\* Its code is hashed and the row inserted.
AskInsert(r) ==
  /\ req[r].pc = "asked"
  /\ issued < MaxCodes
  /\ issued' = issued + 1
  /\ created' = [created EXCEPT ![issued + 1] = req[r].at]
  /\ req' = [req EXCEPT ![r] =
       IF kind = "magic" THEN [@ EXCEPT !.pc = "saving", !.own = issued + 1] ELSE Idle]
  /\ UNCHANGED <<kind, clock, attempts, used, mine, wrong, failed, history>>

\* The browser's session learns which row is its own.
AskSave(r) ==
  /\ req[r].pc = "saving"
  /\ mine' = [mine EXCEPT ![req[r].by] = req[r].own]
  /\ req' = [req EXCEPT ![r] = Idle]
  /\ UNCHANGED <<kind, clock, rows, wrong, failed, history>>

-----------------------------------------------------------------------------
(* Guessing a code                                                         *)

\* The address's unused codes of the window, and the guesses that one of their
\* counters tells of, each guess a pair: how many there are is its sum.
InWindow == {c \in 1..issued : ~used[c] /\ created[c] + Window > clock}

Guesses(counter) == {g \in InWindow \X (1..MaxAttempts) : g[2] <= counter[g[1]]}

WrongCodes == Cardinality(Guesses(attempts))

\* Failures of the account the window's events tell of.
FailureEvents ==
  MapThenSumSet(LAMBDA t : failed[t], {t \in Time : t + FailWindow > clock /\ t <= clock})

\* Mutant of MayGuess: the address's budget is not asked about.
MayGuessUnbudgeted == IF kind = "confirm" THEN FailureEvents < FailMax ELSE ~IsBlocked

\* Whether a guess is looked at, at all.
MayGuess ==
  IF kind = "confirm" THEN FailureEvents < FailMax
  ELSE ~IsBlocked /\ WrongCodes < Budget

GuessAdmit(r, b) ==
  /\ req[r].pc = "idle"
  /\ MayGuess
  /\ req' = [req EXCEPT ![r] = [pc |-> "guess", by |-> b, at |-> clock,
                                own |-> mine[b], code |-> 0]]
  /\ UNCHANGED <<kind, clock, rows, mine, wrong, failed, history>>

\* The guess is answered as wrong, and counted: in memory at once, or as an
\* event by a statement of its own.
Failed(r) ==
  IF kind = "confirm"
  THEN /\ req' = [req EXCEPT ![r].pc = "failing"]
       /\ UNCHANGED wrong
  ELSE /\ req' = [req EXCEPT ![r] = Idle]
       /\ wrong' = Counted(wrong, FailWindow)

RecordFailure(r) ==
  /\ req[r].pc = "failing"
  /\ req' = [req EXCEPT ![r] = Idle]
  /\ failed' = [failed EXCEPT ![clock] = @ + 1]
  /\ UNCHANGED <<kind, clock, rows, mine, wrong, history>>

IsOut(c, now) == c \in 1..issued /\ ~used[c] /\ now < created[c] + Lifetime

\* The row a guess is at: the one this browser asked for, or the newest.
Guessed(r) ==
  LET out == {c \in Code : IsOut(c, req[r].at)} IN
  IF kind = "magic" THEN out \cap {req[r].own}
  ELSE {c \in out : \A d \in out : d <= c}

GuessRead(r) ==
  /\ req[r].pc = "guess"
  /\ IF Guessed(r) = {} THEN Failed(r)
     ELSE /\ \E c \in Guessed(r) :
               req' = [req EXCEPT ![r] = [Idle EXCEPT !.pc = "found", !.code = c]]
          /\ UNCHANGED wrong
  /\ UNCHANGED <<kind, clock, rows, mine, failed, history>>

\* Mutant of SpendAttempt: the count written is one more than the count read.
SpendAttemptRead(r) ==
  /\ req[r].pc = "found"
  /\ attempts' = [attempts EXCEPT ![req[r].code] = IF @ < MaxAttempts THEN @ + 1 ELSE @]
  /\ req' = [req EXCEPT ![r].pc = "spent"]
  /\ UNCHANGED <<kind, clock, issued, created, used, mine, wrong, failed, history>>

\* One statement takes a guess off the code, if it has one left.
SpendAttempt(r) ==
  LET c == req[r].code IN
  /\ req[r].pc = "found"
  /\ IF attempts[c] < MaxAttempts
     THEN /\ attempts' = [attempts EXCEPT ![c] = @ + 1]
          /\ req' = [req EXCEPT ![r].pc = "spent"]
          /\ UNCHANGED wrong
     ELSE Failed(r) /\ UNCHANGED attempts
  /\ UNCHANGED <<kind, clock, issued, created, used, mine, failed, history>>

\* The guess is compared with the row's hash.
CompareRight(r) ==
  /\ req[r].pc = "spent"
  /\ compared' = [compared EXCEPT ![req[r].code] = @ + 1]
  /\ req' = [req EXCEPT ![r].pc = "proven"]
  /\ UNCHANGED <<kind, clock, rows, mine, wrong, failed, wins, killed>>

CompareWrong(r) ==
  /\ req[r].pc = "spent"
  /\ compared' = [compared EXCEPT ![req[r].code] = @ + 1]
  /\ Failed(r)
  /\ UNCHANGED <<kind, clock, rows, mine, failed, wins, killed>>

\* The link of the same row is opened, and finds it out.
OpenLink(r, c) ==
  /\ req[r].pc = "idle"
  /\ kind # "confirm"
  /\ IsOut(c, clock)
  /\ req' = [req EXCEPT ![r] = [Idle EXCEPT !.pc = "proven", !.at = clock, !.code = c]]
  /\ UNCHANGED <<kind, clock, rows, mine, wrong, failed, history>>

\* Mutant of Consume: the row was read unused, so it is marked.
ConsumeRead(r) ==
  LET c == req[r].code IN
  /\ req[r].pc = "proven"
  /\ used' = [used EXCEPT ![c] = TRUE]
  /\ wins' = [wins EXCEPT ![c] = @ + 1]
  /\ req' = [req EXCEPT ![r] = Idle]
  /\ UNCHANGED <<kind, clock, issued, created, attempts, mine, wrong,
                 failed, compared, killed>>

\* One statement marks the row used, if it is not; the effect follows.
Consume(r) ==
  LET c == req[r].code IN
  /\ req[r].pc = "proven"
  /\ IF used[c]
     THEN /\ req' = [req EXCEPT ![r] = IF kind = "confirm" THEN [@ EXCEPT !.pc = "failing"] ELSE Idle]
          /\ UNCHANGED <<used, wins>>
     ELSE /\ used' = [used EXCEPT ![c] = TRUE]
          /\ wins' = [wins EXCEPT ![c] = @ + 1]
          /\ req' = [req EXCEPT ![r] = Idle]
  /\ UNCHANGED <<kind, clock, issued, created, attempts, mine, wrong,
                 failed, compared, killed>>

\* A recovery, a change or a removal marks the verification rows used.
Revoke ==
  /\ kind = "verify"
  /\ \E c \in 1..issued : ~used[c]
  /\ used' = [c \in Code |-> c <= issued]
  /\ killed' = killed \cup {c \in 1..issued : ~used[c]}
  /\ UNCHANGED <<kind, clock, issued, created, attempts, mine, req, wrong,
                 failed, compared, wins>>

\* A statement fails, or the process ends.
Abort(r) ==
  /\ req[r].pc # "idle"
  /\ req' = [req EXCEPT ![r] = Idle]
  /\ UNCHANGED <<kind, clock, rows, mine, wrong, failed, history>>

Tick ==
  /\ clock < MaxTime
  /\ clock' = clock + 1
  /\ UNCHANGED <<kind, rows, mine, req, wrong, failed, history>>

Next ==
  \/ \E r \in Req, b \in Browser : AskRead(r, b)
  \/ \E r \in Req : AskInsert(r)
  \/ \E r \in Req : AskSave(r)
  \/ \E r \in Req, b \in Browser : GuessAdmit(r, b)
  \/ \E r \in Req : RecordFailure(r)
  \/ \E r \in Req : GuessRead(r)
  \/ \E r \in Req : SpendAttempt(r)
  \/ \E r \in Req : CompareRight(r)
  \/ \E r \in Req : CompareWrong(r)
  \/ \E r \in Req, c \in Code : OpenLink(r, c)
  \/ \E r \in Req : Consume(r)
  \/ Revoke
  \/ \E r \in Req : Abort(r)
  \/ Tick

Spec == Init /\ [][Next]_vars

-----------------------------------------------------------------------------
(* Properties                                                              *)

\* The types of the rows, the counters, the requests and the history; a
\* request past its read is at a row there is.
TypeOK ==
  /\ kind \in {"magic", "verify", "confirm"}
  /\ clock \in Time
  /\ issued \in 0..MaxCodes
  /\ created \in [Code -> Time]
  /\ attempts \in [Code -> Nat]
  /\ used \in [Code -> BOOLEAN]
  /\ mine \in [Browser -> 0..MaxCodes]
  /\ req \in [Req -> [pc : {"idle", "asked", "saving", "guess", "found", "spent",
                            "proven", "failing"},
                      by : Browser, at : Time, own : 0..MaxCodes, code : 0..MaxCodes]]
  /\ \A r \in Req : req[r].pc \in {"found", "spent", "proven"} => req[r].code \in 1..issued
  /\ wrong \in [count : Nat, reset_at : Nat]
  /\ failed \in [Time -> Nat]
  /\ compared \in [Code -> Nat]
  /\ wins \in [Code -> Nat]
  /\ killed \subseteq Code

\* However many guesses at a code arrive at once, no more than its cap are
\* compared with it (spend_attempt counts in the statement that spends).
CapHolds == \A c \in Code : compared[c] <= MaxAttempts

\* A code and its link are one row: together they take effect once, and never
\* after the row was revoked, whatever was read before.
EndsOnce == \A c \in Code : wins[c] + (IF c \in killed THEN 1 ELSE 0) <= 1

\* Of the guesses the code counts, those at rows still unused and made within
\* the window, the budget is exceeded by fewer than there are requests, though
\* each reads the sum before it spends its guess (is_code_budget_spent,
\* spend_attempt).  It is no bound of the wrong guesses of an hour, which
\* docs/security.md:107-111 speaks of: a guess leaves the sum when its row is
\* consumed or revoked, or is as old as the window, however recent the guess.
CountedGuessesBounded ==
  kind # "confirm" => Cardinality(Guesses(compared)) < Budget + Cardinality(Req)

\* The failures of one window of the counter exceed its limit by the requests
\* that were let in together, and no more, up to its last moment: it is blocked
\* as long as it counts, and counts as long as it is blocked.
FailuresBounded == wrong.count < FailMax + Cardinality(Req)

-----------------------------------------------------------------------------
(* Refinement                                                              *)

\* The life of a row, as CodeLife tells it.
LifeOf(c) == IF c > issued THEN "unborn" ELSE IF used[c] THEN "over" ELSE "out"

Life == INSTANCE CodeLife WITH
          Cap     <- MaxAttempts,
          life    <- [c \in Code |-> LifeOf(c)],
          guesses <- compared,
          effects <- wins

\* The rows implement CodeLife: the statement in which a row takes effect is
\* the one that ends it, whoever ends it otherwise, and every guess compared
\* was counted before (consume_one_time_token, spend_attempt).
ImplementsLife == Life!Spec
=============================================================================
