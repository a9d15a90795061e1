------------------------ MODULE ConfirmationProofs -------------------------
(***************************************************************************)
(* What holds of Confirmation for any actions, ways, requests and windows. *)
(***************************************************************************)
EXTENDS Confirmation, FiniteSetTheorems, TLAPS

-----------------------------------------------------------------------------
(* The inductive invariant                                                 *)

(* Whatever a copy of the session says was confirmed, the owner did give   *)
(* for that very ask: each of its ways, and the last of them when it says. *)
Backed(c, time, count, gave) ==
  /\ c.at <= time
  /\ c.answer <= count
  /\ \A w \in c.with : \E g \in gave : g.ask = c.for /\ g.way = w
  /\ c.answer # 0 => \E g \in gave : g.ask = c.for /\ g.at = c.at

KeptInv ==
  /\ Backed(session, now, answers, given)
  /\ \A r \in Req : Backed(reqs[r].copy, now, answers, given)
  /\ \A g \in given : g.at <= now

(* The requests whose answer was let in and not judged yet hold their      *)
(* place in the budget.                                                    *)
Judged == {r \in Req : reqs[r].step = "judge" /\ reqs[r].way \in Counted}

BudgetInv ==
  /\ \A r \in Req : reqs[r].step \in {"answer", "judge"} => reqs[r].way \in Way
  /\ wrong + Cardinality(Judged) < FailuresMax + Cardinality(Req)

IInv == TypeOK /\ KeptInv /\ BudgetInv

-----------------------------------------------------------------------------
(* The copies                                                              *)

LEMMA Constants ==
  /\ FailuresMax \in Nat \ {0} /\ Window \in Nat \ {0}
  /\ IsFiniteSet(Req) /\ Cardinality(Req) \in Nat
  /\ IsFiniteSet(Way) /\ None \notin Way /\ None \notin Ask
  /\ Counted \subseteq Way /\ Provider \subseteq Way
  BY ConfirmationAssumption, FS_CardinalityType DEF Way

LEMMA NothingIsData == Nothing \in Data
  BY DEF Nothing, Data

LEMMA NothingIsBacked ==
  ASSUME NEW time \in Nat, NEW count \in Nat, NEW gave
  PROVE  Backed(Nothing, time, count, gave)
  BY DEF Backed, Nothing

\* A copy that says so is still right later, when more was given.
LEMMA BackedLater ==
  ASSUME NEW c \in Data, NEW time \in Nat, NEW count \in Nat, NEW gave,
         NEW time2 \in Nat, NEW count2 \in Nat, NEW gave2,
         Backed(c, time, count, gave),
         time <= time2, count <= count2, gave \subseteq gave2
  PROVE  Backed(c, time2, count2, gave2)
<1>1. c.at \in Nat /\ c.answer \in Nat
  BY DEF Data
<1>2. c.at <= time2 /\ c.answer <= count2
  BY <1>1 DEF Backed
<1> QED BY <1>2 DEF Backed

\* What is asked for is no part of what was confirmed.
LEMMA BackedAsked ==
  ASSUME NEW c \in Data, NEW time, NEW count, NEW gave,
         Backed(c, time, count, gave), NEW a \in Ask
  PROVE  /\ [c EXCEPT !.asked = a] \in Data
         /\ Backed([c EXCEPT !.asked = a], time, count, gave)
<1> DEFINE d == [c EXCEPT !.asked = a]
<1>1. d \in Data
  BY DEF Data
<1>2. d.at = c.at /\ d.answer = c.answer /\ d.with = c.with /\ d.for = c.for
  BY DEF Data
<1>3. Backed(d, time, count, gave)
  BY <1>2 DEF Backed
<1> QED BY <1>1, <1>3

\* record_confirmation() keeps a copy right: the ways that stay were given for
\* the same ask, and the new one is given now.
LEMMA BackedRecorded ==
  ASSUME TypeOK, NEW c \in Data, Backed(c, now, answers, given), NEW w \in Way,
         NEW more, more = given \cup {[ask |-> c.asked, way |-> w, at |-> now]}
  PROVE  /\ Recorded(c, w) \in Data
         /\ Backed(Recorded(c, w), now, answers + 1, more)
<1> DEFINE d == Recorded(c, w)
           g == [ask |-> c.asked, way |-> w, at |-> now]
<1>1. now \in Nat /\ answers \in Nat
  BY DEF TypeOK
<1>2. /\ d \in Data
      /\ d.for = c.asked /\ d.at = now /\ d.answer = answers + 1
      /\ d.with = IF c.for = c.asked THEN c.with \cup {w} ELSE {w}
  <2> DEFINE ways == IF c.for = c.asked THEN c.with \cup {w} ELSE {w}
  <2>1. ways \in SUBSET Way
    BY DEF Data
  <2>2. d = [c EXCEPT !.for = c.asked, !.with = ways, !.at = now, !.answer = answers + 1]
    BY DEF Recorded
  <2> HIDE DEF ways, d
  <2>3. /\ d \in Data
        /\ d.for = c.asked /\ d.at = now /\ d.answer = answers + 1 /\ d.with = ways
    <3>1. d = [asked |-> c.asked, for |-> c.asked, with |-> ways, at |-> now,
               answer |-> answers + 1]
      BY <2>2 DEF Data
    <3>2. c.asked \in Ask \cup {None} /\ answers + 1 \in Nat
      BY <1>1 DEF Data
    <3> QED BY <1>1, <2>1, <3>1, <3>2 DEF Data
  <2> QED BY <2>3 DEF ways
<1>3. g \in more /\ g.ask = d.for /\ g.way = w /\ g.at = d.at
  BY <1>2
<1>4. ASSUME NEW v \in d.with
      PROVE  \E h \in more : h.ask = d.for /\ h.way = v
  <2>1. CASE v = w
    BY <2>1, <1>3
  <2>2. CASE v # w
    <3>1. c.for = c.asked /\ v \in c.with
      BY <2>2, <1>2, <1>4
    <3>2. PICK h \in given : h.ask = c.for /\ h.way = v
      BY <3>1 DEF Backed
    <3> QED BY <3>1, <3>2, <1>2
  <2> QED BY <2>1, <2>2
<1>5. \E h \in more : h.ask = d.for /\ h.at = d.at
  BY <1>3
<1>6. d.at <= now /\ d.answer <= answers + 1
  BY <1>1, <1>2
<1>7. Backed(d, now, answers + 1, more)
  BY <1>4, <1>5, <1>6 DEF Backed
<1> QED BY <1>2, <1>7

-----------------------------------------------------------------------------
(* Types                                                                   *)

\* Nothing leaves its type.
LEMMA TypeStep == IInv /\ [Next]_vars => TypeOK'
<1> SUFFICES ASSUME IInv, [Next]_vars PROVE TypeOK'
  OBVIOUS
<1> USE Constants, NothingIsData DEF IInv, TypeOK
<1>1. ASSUME NEW r \in Req, NEW a \in Ask, Act(r, a) PROVE TypeOK'
  BY <1>1 DEF Act, Loads, Local
<1>2. ASSUME NEW r \in Req, ActDo(r) PROVE TypeOK'
  <2>1. reqs[r].copy \in Data /\ reqs[r].copy.answer \in Nat
    BY DEF Local, Data
  <2>2. reqs[r].copy.answer \in 1..answers
    BY <1>2, <2>1 DEF ActDo, Spendable, KeptInv, Backed
  <2> QED BY <1>2, <2>2 DEF ActDo, Ends, Local
<1>3. ASSUME NEW r \in Req, ActRefused(r) PROVE TypeOK'
  <2>1. [reqs[r].copy EXCEPT !.asked = reqs[r].ask] \in Data
    BY DEF Local, Data
  <2> QED BY <1>3, <2>1 DEF ActRefused, Ends, Local
<1>4. ASSUME NEW r \in Req, NEW w \in Way, Answer(r, w) PROVE TypeOK'
  BY <1>4 DEF Answer, Loads, Local
<1>5. ASSUME NEW r \in Req, AnswerCount(r) PROVE TypeOK'
  BY <1>5 DEF AnswerCount, Local
<1>6. ASSUME NEW r \in Req, AnswerRight(r) PROVE TypeOK'
  <2>1. reqs[r].copy \in Data /\ reqs[r].copy.asked \in Ask \cup {None}
    BY DEF Local, Data
  <2>2. reqs[r].way \in Way
    BY <1>6 DEF AnswerRight, BudgetInv
  <2>3. Recorded(reqs[r].copy, reqs[r].way) \in Data
    BY <2>1, <2>2, BackedRecorded DEF KeptInv
  <2>4. reqs' \in [Req -> Local] /\ session' \in Data
    BY <1>6, <2>3 DEF AnswerRight, Ends, Local
  <2>5. given' \in SUBSET [ask : Ask \cup {None}, way : Way, at : Nat]
    BY <1>6, <2>1, <2>2 DEF AnswerRight
  <2>6. answers' \in Nat
    BY <1>6 DEF AnswerRight
  <2> QED BY <1>6, <2>4, <2>5, <2>6 DEF AnswerRight
<1>7. ASSUME NEW r \in Req, AnswerWrong(r) PROVE TypeOK'
  <2>1. reqs' \in [Req -> Local]
    BY <1>7 DEF AnswerWrong, Ends, Local
  <2>2. failures' \in Nat /\ wrong' \in 0..failures'
    BY <1>7 DEF AnswerWrong
  <2> QED BY <1>7, <2>1, <2>2 DEF AnswerWrong
<1>8. ASSUME NEW r \in Req, Visit(r) PROVE TypeOK'
  BY <1>8 DEF Visit, Loads, Local
<1>9. ASSUME NEW r \in Req, EndSaved(r) PROVE TypeOK'
  BY <1>9 DEF EndSaved, Idle, Local
<1>10. ASSUME NEW r \in Req, EndUnsaved(r) PROVE TypeOK'
  BY <1>10 DEF EndUnsaved, Idle, Local
<1>11. CASE Tick
  BY <1>11 DEF Tick
<1>12. CASE UNCHANGED vars
  BY <1>12 DEF vars
<1> QED
  BY <1>1, <1>2, <1>3, <1>4, <1>5, <1>6, <1>7, <1>8, <1>9, <1>10, <1>11, <1>12
  DEF Next

-----------------------------------------------------------------------------
(* What the copies say                                                     *)

\* Every copy, and the row, stays right: each is one of those there were,
\* emptied, asked anew, or recorded in.
LEMMA KeptStep == IInv /\ [Next]_vars => KeptInv'
<1> SUFFICES ASSUME IInv, [Next]_vars PROVE KeptInv'
  OBVIOUS
<1>0. /\ TypeOK /\ KeptInv /\ now \in Nat /\ answers \in Nat /\ session \in Data
      /\ reqs \in [Req -> Local]
      /\ \A r \in Req : reqs[r].copy \in Data
  BY DEF IInv, TypeOK, Local
<1> DEFINE Right(c) == Backed(c, now, answers, given)
<1>a. Right(session) /\ Right(Nothing) /\ \A r \in Req : Right(reqs[r].copy)
  BY <1>0, NothingIsBacked DEF KeptInv
<1>b. ASSUME UNCHANGED <<now, given, answers>>, Right(session'),
             \A r \in Req : Right(reqs'[r].copy)
      PROVE  KeptInv'
  BY <1>b, <1>0 DEF KeptInv
<1>1. ASSUME NEW r \in Req, NEW step, NEW ask, NEW way, Loads(r, step, ask, way),
             UNCHANGED <<now, session, given, answers>>
      PROVE  KeptInv'
  <2>1. \A q \in Req : Right(reqs'[q].copy)
    BY <1>1, <1>0, <1>a DEF Loads
  <2> QED BY <1>1, <1>a, <1>b, <2>1
<1>2. ASSUME NEW r \in Req, NEW step, NEW c, Ends(r, step, c), Right(c),
             session' \in {session, c}, UNCHANGED <<now, given, answers>>
      PROVE  KeptInv'
  <2>1. \A q \in Req : Right(reqs'[q].copy)
    BY <1>2, <1>0, <1>a DEF Ends
  <2> QED BY <1>2, <1>a, <1>b, <2>1
<1>3. ASSUME NEW r \in Req, ActRefused(r) PROVE KeptInv'
  <2> DEFINE c == [reqs[r].copy EXCEPT !.asked = reqs[r].ask]
  <2>1. c.at = reqs[r].copy.at /\ c.answer = reqs[r].copy.answer
        /\ c.with = reqs[r].copy.with /\ c.for = reqs[r].copy.for
    BY <1>0 DEF Data
  <2>2. Right(c)
    BY <2>1, <1>a DEF Backed
  <2>3. Ends(r, "ending", c) /\ session' = c /\ UNCHANGED <<now, given, answers>>
    BY <1>3 DEF ActRefused
  <2> HIDE DEF c
  <2> QED BY <1>2, <2>2, <2>3
<1>4. ASSUME NEW r \in Req, AnswerRight(r) PROVE KeptInv'
  <2> DEFINE c == Recorded(reqs[r].copy, reqs[r].way)
  <2>1. reqs[r].way \in Way
    BY <1>4 DEF AnswerRight, IInv, BudgetInv
  <2>2. /\ given' = given \cup {[ask |-> reqs[r].copy.asked, way |-> reqs[r].way, at |-> now]}
        /\ now' = now /\ answers' = answers + 1
        /\ session' = c /\ Ends(r, "ending", c)
    BY <1>4 DEF AnswerRight
  <2>3. Backed(c, now', answers', given')
    BY <1>0, <1>a, <2>1, <2>2, BackedRecorded
  <2>4. ASSUME NEW q \in Req PROVE Backed(reqs'[q].copy, now', answers', given')
    <3> HIDE DEF c
    <3>1. CASE q = r
      BY <3>1, <2>2, <2>3, <1>0 DEF Ends
    <3>2. CASE q # r
      <4>1. reqs'[q] = reqs[q]
        BY <3>2, <2>2, <1>0 DEF Ends
      <4>2. now <= now' /\ answers <= answers' /\ given \subseteq given'
            /\ now' \in Nat /\ answers' \in Nat
        BY <1>0, <2>2
      <4>3. Backed(reqs[q].copy, now', answers', given')
        BY <1>0, <1>a, <4>2, BackedLater
      <4> QED BY <4>1, <4>3
    <3> QED BY <3>1, <3>2
  <2>5. \A g \in given' : g.at <= now'
    BY <1>0, <2>2 DEF KeptInv
  <2> QED BY <2>2, <2>3, <2>4, <2>5 DEF KeptInv
<1>5. ASSUME NEW r \in Req, EndSaved(r) PROVE KeptInv'
  <2>1. Right(session') /\ \A q \in Req : Right(reqs'[q].copy)
    BY <1>5, <1>0, <1>a DEF EndSaved, Idle
  <2> QED BY <1>5, <1>b, <2>1 DEF EndSaved
<1>6. ASSUME NEW r \in Req, EndUnsaved(r) PROVE KeptInv'
  <2>1. Right(session') /\ \A q \in Req : Right(reqs'[q].copy)
    BY <1>6, <1>0, <1>a DEF EndUnsaved, Idle
  <2> QED BY <1>6, <1>b, <2>1 DEF EndUnsaved
<1>7. ASSUME NEW r \in Req, AnswerCount(r) PROVE KeptInv'
  <2>1. Right(session') /\ \A q \in Req : Right(reqs'[q].copy)
    BY <1>7, <1>0, <1>a DEF AnswerCount, Local
  <2> QED BY <1>7, <1>b, <2>1 DEF AnswerCount
<1>8. CASE Tick
  <2>1. /\ now' = now + 1 /\ now' \in Nat /\ now <= now'
        /\ answers' = answers /\ given' = given /\ session' = session /\ reqs' = reqs
    BY <1>8, <1>0 DEF Tick
  <2>2. Backed(session, now', answers, given)
        /\ \A r \in Req : Backed(reqs[r].copy, now', answers, given)
    BY <1>0, <1>a, <2>1, BackedLater
  <2>3. \A g \in given : g.at <= now'
    BY <1>0, <2>1 DEF KeptInv, TypeOK
  <2> QED BY <2>1, <2>2, <2>3 DEF KeptInv
<1>9. CASE UNCHANGED vars
  BY <1>9, <1>0 DEF vars, KeptInv
<1>10. ASSUME NEW r \in Req, NEW a \in Ask, Act(r, a) PROVE KeptInv'
  BY <1>10, <1>1 DEF Act
<1>11. ASSUME NEW r \in Req, NEW w \in Way, Answer(r, w) PROVE KeptInv'
  BY <1>11, <1>1 DEF Answer
<1>12. ASSUME NEW r \in Req, Visit(r) PROVE KeptInv'
  BY <1>12, <1>1 DEF Visit
<1>13. ASSUME NEW r \in Req, ActDo(r) PROVE KeptInv'
  BY <1>13, <1>2, <1>a DEF ActDo
<1>14. ASSUME NEW r \in Req, AnswerWrong(r) PROVE KeptInv'
  BY <1>14, <1>2, <1>a DEF AnswerWrong
<1> QED
  BY <1>3, <1>4, <1>5, <1>6, <1>7, <1>8, <1>9, <1>10, <1>11, <1>12, <1>13, <1>14
  DEF Next

-----------------------------------------------------------------------------
(* The budget                                                              *)

\* A request that is let in has its place, and a wrong answer takes it.
LEMMA BudgetStep == IInv /\ [Next]_vars => BudgetInv'
<1> SUFFICES ASSUME IInv, [Next]_vars PROVE BudgetInv'
  OBVIOUS
<1>0. /\ reqs \in [Req -> Local] /\ failures \in Nat /\ wrong \in 0..failures
      /\ BudgetInv
  BY DEF IInv, TypeOK
<1>1. /\ IsFiniteSet(Judged) /\ Cardinality(Judged) \in Nat
      /\ Judged \subseteq Req
  BY Constants, FS_Subset, FS_CardinalityType DEF Judged
<1>a. ASSUME wrong' = wrong, Judged' \subseteq Judged,
             \A r \in Req : reqs'[r].step \in {"answer", "judge"} => reqs'[r].way \in Way
      PROVE  BudgetInv'
  <2>1. Cardinality(Judged') \in Nat /\ Cardinality(Judged') <= Cardinality(Judged)
    BY <1>a, <1>1, FS_Subset, FS_CardinalityType
  <2> QED BY <1>a, <2>1, <1>0, <1>1, Constants DEF BudgetInv
<1>2. ASSUME NEW r \in Req, NEW step, NEW ask, NEW way, Loads(r, step, ask, way),
             step # "judge", step = "answer" => way \in Way, UNCHANGED wrong
      PROVE  BudgetInv'
  BY <1>2, <1>0, <1>a DEF Loads, Judged, BudgetInv
<1>3. ASSUME NEW r \in Req, NEW step, NEW c, Ends(r, step, c),
             step \notin {"answer", "judge"}, UNCHANGED wrong
      PROVE  BudgetInv'
  BY <1>3, <1>0, <1>a DEF Ends, Judged, BudgetInv
<1>4. ASSUME NEW r \in Req, AnswerCount(r) PROVE BudgetInv'
  <2>1. \A q \in Req : reqs'[q].step \in {"answer", "judge"} => reqs'[q].way \in Way
    BY <1>4, <1>0 DEF AnswerCount, BudgetInv, Local
  <2>2. CASE reqs[r].way \in Counted
    <3>1. wrong' = wrong /\ wrong < FailuresMax
      BY <1>4, <2>2, <1>0, Constants DEF AnswerCount
    <3>2. Judged' \in SUBSET Req
      BY DEF Judged
    <3>3. Cardinality(Judged') \in Nat /\ Cardinality(Judged') <= Cardinality(Req)
      BY <3>2, Constants, FS_Subset, FS_CardinalityType
    <3> QED BY <2>1, <3>1, <3>3, <1>0, Constants DEF BudgetInv
  <2>3. CASE reqs[r].way \notin Counted
    <3>1. Judged' \subseteq Judged
      BY <1>4, <2>3, <1>0 DEF AnswerCount, Judged, Local
    <3> QED BY <1>4, <1>a, <2>1, <3>1 DEF AnswerCount
  <2> QED BY <2>2, <2>3
<1>5. ASSUME NEW r \in Req, AnswerWrong(r) PROVE BudgetInv'
  <2>1. \A q \in Req : reqs'[q].step \in {"answer", "judge"} => reqs'[q].way \in Way
    BY <1>5, <1>0 DEF AnswerWrong, Ends, BudgetInv
  <2>2. CASE reqs[r].way \in Counted
    <3>1. r \in Judged /\ wrong' = wrong + 1
      BY <1>5, <2>2 DEF AnswerWrong, Judged
    <3>2. Judged' \subseteq Judged \ {r}
      BY <1>5, <1>0 DEF AnswerWrong, Ends, Judged
    <3>3. IsFiniteSet(Judged \ {r}) /\ Cardinality(Judged \ {r}) = Cardinality(Judged) - 1
      BY <3>1, <1>1, FS_RemoveElement
    <3>4. Cardinality(Judged') \in Nat /\ Cardinality(Judged') <= Cardinality(Judged) - 1
      BY <3>2, <3>3, FS_Subset, FS_CardinalityType
    <3> QED BY <2>1, <3>1, <3>4, <1>0, <1>1, Constants DEF BudgetInv
  <2>3. CASE reqs[r].way \notin Counted
    <3>1. wrong' = wrong /\ Judged' \subseteq Judged
      BY <1>5, <2>3, <1>0 DEF AnswerWrong, Ends, Judged
    <3> QED BY <1>a, <2>1, <3>1
  <2> QED BY <2>2, <2>3
<1>6. ASSUME NEW r \in Req, EndSaved(r) PROVE BudgetInv'
  BY <1>6, <1>0, <1>a DEF EndSaved, Idle, Judged, BudgetInv
<1>7. ASSUME NEW r \in Req, EndUnsaved(r) PROVE BudgetInv'
  BY <1>7, <1>0, <1>a DEF EndUnsaved, Idle, Judged, BudgetInv
<1>8. CASE Tick
  BY <1>8, <1>0, <1>a DEF Tick, Judged, BudgetInv
<1>9. CASE UNCHANGED vars
  BY <1>9, <1>0, <1>a DEF vars, Judged, BudgetInv
<1>10. ASSUME NEW r \in Req, NEW a \in Ask, Act(r, a) PROVE BudgetInv'
  BY <1>10, <1>2 DEF Act
<1>11. ASSUME NEW r \in Req, NEW w \in Way, Answer(r, w) PROVE BudgetInv'
  BY <1>11, <1>2 DEF Answer
<1>12. ASSUME NEW r \in Req, Visit(r) PROVE BudgetInv'
  BY <1>12, <1>2 DEF Visit
<1>13. ASSUME NEW r \in Req, ActDo(r) PROVE BudgetInv'
  BY <1>13, <1>3 DEF ActDo
<1>14. ASSUME NEW r \in Req, ActRefused(r) PROVE BudgetInv'
  BY <1>14, <1>3 DEF ActRefused
<1>15. ASSUME NEW r \in Req, AnswerRight(r) PROVE BudgetInv'
  BY <1>15, <1>3 DEF AnswerRight
<1> QED
  BY <1>4, <1>5, <1>6, <1>7, <1>8, <1>9, <1>10, <1>11, <1>12, <1>13, <1>14, <1>15
  DEF Next

-----------------------------------------------------------------------------
(* The theorems                                                            *)

LEMMA Start == Init => IInv
<1> SUFFICES ASSUME Init PROVE IInv
  OBVIOUS
<1>1. TypeOK
  BY NothingIsData DEF Init, TypeOK, Idle, Local
<1>2. KeptInv
  BY NothingIsBacked DEF Init, KeptInv, Idle
<1>3. Judged = {}
  BY DEF Init, Judged, Idle
<1>4. BudgetInv
  BY <1>3, Constants, FS_EmptySet DEF Init, BudgetInv, Idle
<1> QED BY <1>1, <1>2, <1>4 DEF IInv

LEMMA Invariance == Spec => []IInv
<1>1. IInv /\ [Next]_vars => IInv'
  BY TypeStep, KeptStep, BudgetStep DEF IInv
<1> QED BY Start, <1>1, PTL DEF Spec

\* The session, the requests and the history keep their types.
THEOREM TypeCorrect == Spec => []TypeOK
<1>1. IInv => TypeOK
  BY DEF IInv
<1> QED BY Invariance, <1>1, PTL

\* However many answers are given at once, the wrong ones exceed the budget by
\* fewer than there are requests.
THEOREM WrongAnswersStayBounded == Spec => []WrongAnswersAreBounded
<1>1. IInv => WrongAnswersAreBounded
  <2> SUFFICES ASSUME IInv PROVE WrongAnswersAreBounded
    OBVIOUS
  <2>1. Judged \subseteq Req /\ Cardinality(Judged) \in Nat /\ wrong \in Nat
    BY Constants, FS_Subset, FS_CardinalityType DEF Judged, IInv, TypeOK
  <2> QED BY <2>1, Constants DEF IInv, BudgetInv, WrongAnswersAreBounded
<1> QED BY Invariance, <1>1, PTL

\* What a copy must hold when an action is done with it.
LEMMA DoneWith ==
  ASSUME IInv, [Next]_vars, NEW r \in Req, Does(r)
  PROVE  ActDo(r)
<1>1. reqs \in [Req -> Local] /\ reqs[r].step = "act" /\ reqs'[r].step = "acted"
  BY DEF IInv, TypeOK, Does
<1>2. ASSUME NEW q \in Req, NEW step, NEW ask, NEW way, Loads(q, step, ask, way)
      PROVE  FALSE
  BY <1>2, <1>1 DEF Loads
<1>3. ASSUME NEW q \in Req, NEW step, NEW c, Ends(q, step, c), step # "acted"
      PROVE  FALSE
  BY <1>3, <1>1 DEF Ends
<1>4. ASSUME NEW q \in Req, ActDo(q) PROVE q = r
  BY <1>4, <1>1 DEF ActDo, Ends
<1>5. ~UNCHANGED vars /\ ~Tick
  BY <1>1 DEF vars, Tick
<1>6. ASSUME NEW q \in Req, NEW a \in Ask, Act(q, a) PROVE FALSE
  BY <1>6, <1>2 DEF Act
<1>7. ASSUME NEW q \in Req, NEW w \in Way, Answer(q, w) PROVE FALSE
  BY <1>7, <1>2 DEF Answer
<1>8. ASSUME NEW q \in Req, Visit(q) PROVE FALSE
  BY <1>8, <1>2 DEF Visit
<1>9. ASSUME NEW q \in Req, ActRefused(q) PROVE FALSE
  BY <1>9, <1>3 DEF ActRefused
<1>10. ASSUME NEW q \in Req, AnswerRight(q) PROVE FALSE
  BY <1>10, <1>3 DEF AnswerRight
<1>11. ASSUME NEW q \in Req, AnswerWrong(q) PROVE FALSE
  BY <1>11, <1>3 DEF AnswerWrong
<1>12. ASSUME NEW q \in Req, AnswerCount(q) PROVE FALSE
  BY <1>12, <1>1 DEF AnswerCount
<1>13. ASSUME NEW q \in Req, EndSaved(q) \/ EndUnsaved(q) PROVE FALSE
  BY <1>13, <1>1 DEF EndSaved, EndUnsaved, Idle
<1> QED
  BY <1>4, <1>5, <1>6, <1>7, <1>8, <1>9, <1>10, <1>11, <1>12, <1>13 DEF Next

\* No action is done unless as many different ways were given for it as it
\* asks, whatever copies of the session overwrote each other.
THEOREM ActionsAreConfirmed == Spec => ActionsWereConfirmed
<1>1. IInv /\ [Next]_vars =>
        [\A r \in Req : Does(r) =>
           Cardinality(WaysGiven(reqs[r].ask, 0..now)) >= Factors(reqs[r].ask)]_vars
  <2> SUFFICES ASSUME IInv, [Next]_vars, NEW r \in Req, Does(r)
               PROVE  Cardinality(WaysGiven(reqs[r].ask, 0..now)) >= Factors(reqs[r].ask)
    OBVIOUS
  <2> DEFINE c == reqs[r].copy
             ways == WaysGiven(reqs[r].ask, 0..now)
  <2>1. c \in Data /\ Backed(c, now, answers, given)
    BY DEF IInv, TypeOK, KeptInv, Local
  <2>2. c.for = reqs[r].ask /\ Cardinality(c.with) >= Factors(reqs[r].ask)
    BY DoneWith DEF ActDo, Spendable
  <2>3. \A g \in given : g.at \in 0..now
    BY DEF IInv, KeptInv, TypeOK
  <2>4. c.with \in SUBSET ways
    BY <2>1, <2>2, <2>3 DEF WaysGiven, Backed, Data
  <2>5. IsFiniteSet(ways) /\ Cardinality(ways) \in Nat
    <3>1. ways \in SUBSET Way
      BY DEF WaysGiven
    <3> QED BY <3>1, Constants, FS_Subset, FS_CardinalityType
  <2>6. Cardinality(c.with) <= Cardinality(ways) /\ Cardinality(c.with) \in Nat
    BY <2>4, <2>5, FS_Subset, FS_CardinalityType
  <2>7. Factors(reqs[r].ask) \in Nat
    BY DEF Factors
  <2> HIDE DEF ways, c
  <2>8. Cardinality(ways) >= Factors(reqs[r].ask)
    BY <2>2, <2>5, <2>6, <2>7
  <2> QED BY <2>8 DEF ways
<1> QED BY Invariance, <1>1, PTL DEF Spec, ActionsWereConfirmed

\* No action is done unless one of its answers is within the window.
THEOREM LastAnswersAreRecent == Spec => LastAnswerIsRecent
<1>1. IInv /\ [Next]_vars =>
        [\A r \in Req : Does(r) =>
           WaysGiven(reqs[r].ask, {t \in 0..now : now < t + Window}) # {}]_vars
  <2> SUFFICES ASSUME IInv, [Next]_vars, NEW r \in Req, Does(r)
               PROVE  WaysGiven(reqs[r].ask, {t \in 0..now : now < t + Window}) # {}
    OBVIOUS
  <2>1. Backed(reqs[r].copy, now, answers, given)
    BY DEF IInv, KeptInv
  <2>2. reqs[r].copy.for = reqs[r].ask /\ reqs[r].copy.answer # 0
        /\ now < reqs[r].copy.at + Window
    BY DoneWith DEF ActDo, Spendable
  <2>3. PICK g \in given : g.ask = reqs[r].ask /\ g.at = reqs[r].copy.at
    BY <2>1, <2>2 DEF Backed
  <2>4. g.way \in Way /\ g.at \in 0..now /\ now < g.at + Window
    BY <2>2, <2>3 DEF IInv, KeptInv, TypeOK
  <2> QED BY <2>3, <2>4 DEF WaysGiven
<1> QED BY Invariance, <1>1, PTL DEF Spec, LastAnswerIsRecent
=============================================================================
