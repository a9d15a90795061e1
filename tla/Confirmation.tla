---------------------------- MODULE Confirmation ----------------------------
(***************************************************************************)
(* The confirmation that an action asks of the owner beside the session:   *)
(* what the session keeps of it, and the requests of that session.         *)
(*                                                                         *)
(* Each request works on the copy of the session it loaded, and writes it  *)
(* back whole.  An action without a confirmation leaves in the session     *)
(* what it asked for; the answers to POST /auth/confirm, and a provider's, *)
(* are recorded beside it; the action then finds and spends them.          *)
(*                                                                         *)
(* One action is one statement of the database with the local steps of     *)
(* the request that issued it.                                             *)
(***************************************************************************)
EXTENDS Naturals, FiniteSets

CONSTANTS
  Ask,          \* what is asked for: the values of confirmation_key()
  TwoWays,      \* the asks with two factors: the removal of an account
  Counted,      \* the ways whose answers the budget bounds: code, password
  Provider,     \* the ways it does not: a sign-in with a linked provider
  Req,          \* requests in flight
  None,         \* nothing asked
  Window,       \* CONFIRMED_WINDOW_MS, in ticks
  FailuresMax,  \* wrong answers that lock the confirmation
  MaxTime,      \* bound of the clock
  MaxAnswers    \* bound of the answers given

Way == Counted \cup Provider

(* confirmation, confirmed_for, confirmed_with and confirmed_at of the     *)
(* session; "answer" is the number of the answer last recorded, 0 if none. *)
Data == [asked : Ask \cup {None}, for : Ask \cup {None}, with : SUBSET Way,
         at : Nat, answer : Nat]

Local == [step : {"idle", "act", "acted", "answer", "judge", "ending"},
          copy : Data, ask : Ask \cup {None}, way : Way \cup {None}]

ASSUME ConfirmationAssumption ==
  /\ TwoWays \subseteq Ask
  /\ None \notin Ask \cup Way
  /\ IsFiniteSet(Way)
  /\ Window \in Nat \ {0}
  /\ FailuresMax \in Nat \ {0}
  /\ MaxTime \in Nat
  /\ MaxAnswers \in Nat
  /\ IsFiniteSet(Req)

VARIABLES
  now,       \* the clock
  session,   \* the session's row
  reqs,      \* [Req -> Local]
  failures,  \* failed identity_confirmed events
  wrong,     \* history: those of the ways the budget bounds
  given,     \* history: the right answers, each with its ask, way and time
  answers    \* history: how many

vars == <<now, session, reqs, failures, wrong, given, answers>>

-----------------------------------------------------------------------------
(* The session's confirmation                                              *)

Nothing == [asked |-> None, for |-> None, with |-> {}, at |-> 0, answer |-> 0]

Idle == [step |-> "idle", copy |-> Nothing, ask |-> None, way |-> None]

Factors(a) == IF a \in TwoWays THEN 2 ELSE 1

\* Mutant of Recorded: an answer counts for whatever was asked before, too.
RecordedForAny(c, w) ==
  [c EXCEPT !.for = c.asked, !.with = c.with \cup {w}, !.at = now, !.answer = answers + 1]

\* record_confirmation(): the ways given for this ask before stay.
Recorded(c, w) ==
  [c EXCEPT !.for = c.asked,
            !.with = IF c.for = c.asked THEN c.with \cup {w} ELSE {w},
            !.at = now, !.answer = answers + 1]

\* Mutant of Spendable: no window.
SpendableForEver(c, a) ==
  c.answer # 0 /\ c.for = a /\ Cardinality(c.with) >= Factors(a)

\* spend_confirmation(): recent, for this action, by as many ways as it asks.
Spendable(c, a) ==
  /\ c.answer # 0 /\ now < c.at + Window
  /\ c.for = a
  /\ Cardinality(c.with) >= Factors(a)

\* All that is left of a request is its copy.
Ends(r, step, c) ==
  reqs' = [reqs EXCEPT ![r] = [step |-> step, copy |-> c, ask |-> None, way |-> None]]

\* A request loads the session.
Loads(r, step, ask, way) ==
  /\ reqs[r].step = "idle"
  /\ reqs' = [reqs EXCEPT ![r] =
                [step |-> step, copy |-> session, ask |-> ask, way |-> way]]

Init ==
  /\ now = 0
  /\ session = Nothing
  /\ reqs = [r \in Req |-> Idle]
  /\ failures = 0
  /\ wrong = 0
  /\ given = {}
  /\ answers = 0

-----------------------------------------------------------------------------
(* The actions that ask                                                    *)

\* A request for an action that needs the owner comes in.
Act(r, a) ==
  /\ Loads(r, "act", a, None)
  /\ UNCHANGED <<now, session, failures, wrong, given, answers>>

\* The confirmation is spent in the copy, and the action done.
ActDo(r) ==
  LET c == reqs[r].copy
  IN  /\ reqs[r].step = "act"
      /\ Spendable(c, reqs[r].ask)
      /\ Ends(r, "acted", Nothing)
      /\ UNCHANGED <<now, session, failures, wrong, given, answers>>

\* require_confirmation(): the session keeps what was asked, and is saved;
\* the request is refused.
ActRefused(r) ==
  LET asked == [reqs[r].copy EXCEPT !.asked = reqs[r].ask]
  IN  /\ reqs[r].step = "act"
      /\ ~Spendable(reqs[r].copy, reqs[r].ask)
      /\ session' = asked
      /\ Ends(r, "ending", asked)
      /\ UNCHANGED <<now, failures, wrong, given, answers>>

-----------------------------------------------------------------------------
(* The answers                                                             *)

\* POST /auth/confirm, or the callback of a provider, comes in.
Answer(r, w) ==
  /\ Loads(r, "answer", None, w)
  /\ UNCHANGED <<now, session, failures, wrong, given, answers>>

\* Mutant of AnswerCount: the failures are not counted.
AnswerCountFree(r) ==
  /\ reqs[r].step = "answer"
  /\ reqs' = [reqs EXCEPT ![r].step = "judge"]
  /\ UNCHANGED <<now, session, failures, wrong, given, answers>>

\* confirm_post() counts the failures so far; confirm_with_provider() does not.
AnswerCount(r) ==
  /\ reqs[r].step = "answer"
  /\ reqs[r].way \in Counted => failures < FailuresMax
  /\ reqs' = [reqs EXCEPT ![r].step = "judge"]
  /\ UNCHANGED <<now, session, failures, wrong, given, answers>>

\* The answer is right: it is recorded, and the session saved.
AnswerRight(r) ==
  LET c == Recorded(reqs[r].copy, reqs[r].way)
  IN  /\ reqs[r].step = "judge"
      /\ answers < MaxAnswers
      /\ session' = c
      /\ Ends(r, "ending", c)
      /\ answers' = answers + 1
      /\ given' = given \cup
           {[ask |-> reqs[r].copy.asked, way |-> reqs[r].way, at |-> now]}
      /\ UNCHANGED <<now, failures, wrong>>

\* It is wrong: a failure is inserted.  Bounded: a provider's is left out once
\* the confirmation is locked, since one more failure changes nothing.
AnswerWrong(r) ==
  /\ reqs[r].step = "judge"
  /\ reqs[r].way \in Provider => failures < FailuresMax
  /\ failures' = failures + 1
  /\ wrong' = IF reqs[r].way \in Counted THEN wrong + 1 ELSE wrong
  /\ failures' <= FailuresMax + Cardinality(Req)
  /\ Ends(r, "ending", reqs[r].copy)
  /\ UNCHANGED <<now, session, given, answers>>

-----------------------------------------------------------------------------
(* Other requests, and the end of each                                     *)

\* Any other request of the session.
Visit(r) ==
  /\ Loads(r, "ending", None, None)
  /\ UNCHANGED <<now, session, failures, wrong, given, answers>>

\* The response ends, and the copy was modified: spent, or given the error
\* that error_handler keeps for the next page.
EndSaved(r) ==
  /\ reqs[r].step \in {"acted", "ending"}
  /\ session' = reqs[r].copy
  /\ reqs' = [reqs EXCEPT ![r] = Idle]
  /\ UNCHANGED <<now, failures, wrong, given, answers>>

\* It ends and the copy is as it was loaded, or saved; or the request dies.
EndUnsaved(r) ==
  /\ reqs[r].step # "idle"
  /\ reqs' = [reqs EXCEPT ![r] = Idle]
  /\ UNCHANGED <<now, session, failures, wrong, given, answers>>

Tick ==
  /\ now < MaxTime
  /\ now' = now + 1
  /\ UNCHANGED <<session, reqs, failures, wrong, given, answers>>

Next ==
  \/ \E r \in Req, a \in Ask : Act(r, a)
  \/ \E r \in Req : ActDo(r)
  \/ \E r \in Req : ActRefused(r)
  \/ \E r \in Req, w \in Way : Answer(r, w)
  \/ \E r \in Req : AnswerCount(r)
  \/ \E r \in Req : AnswerRight(r)
  \/ \E r \in Req : AnswerWrong(r)
  \/ \E r \in Req : Visit(r)
  \/ \E r \in Req : EndSaved(r)
  \/ \E r \in Req : EndUnsaved(r)
  \/ Tick

Spec == Init /\ [][Next]_vars

-----------------------------------------------------------------------------
(* Properties                                                              *)

\* The types of the session, the requests and the history.
TypeOK ==
  /\ now \in Nat
  /\ session \in Data
  /\ reqs \in [Req -> Local]
  /\ failures \in Nat
  /\ wrong \in 0..failures
  /\ given \in SUBSET [ask : Ask \cup {None}, way : Way, at : Nat]
  /\ answers \in Nat

\* r carries out its action in this step.
Does(r) == reqs[r].step = "act" /\ reqs'[r].step = "acted"

\* The ways the owner gave for a, at a moment of the set.
WaysGiven(a, moments) ==
  {w \in Way : \E g \in given : g.ask = a /\ g.way = w /\ g.at \in moments}

\* An action is done only after as many different ways were given for this
\* very action as it asks, however the copies of the session overwrote each
\* other meanwhile (confirmation_key, record_confirmation).
ActionsWereConfirmed ==
  [][\A r \in Req : Does(r) =>
       Cardinality(WaysGiven(reqs[r].ask, 0..now)) >= Factors(reqs[r].ask)]_vars

\* The last of these answers is within its ten minutes (is_recently_confirmed).
LastAnswerIsRecent ==
  [][\A r \in Req : Does(r) =>
       WaysGiven(reqs[r].ask, {t \in 0..now : now < t + Window}) # {}]_vars

\* Requests that answer at once exceed the budget of wrong codes and passwords
\* by no more than there are of them (routes/confirm.js:26-29).
WrongAnswersAreBounded == wrong < FailuresMax + Cardinality(Req)
=============================================================================
