--------------------------- MODULE RecoveryProofs ---------------------------
(***************************************************************************)
(* What holds of Recovery for any number of rows, requests and passwords.  *)
(***************************************************************************)
EXTENDS Recovery, TLAPS

(***************************************************************************)
(* The inductive invariant.                                                *)
(*                                                                         *)
(* LinksInv: every link out was issued after the last sealing, and whoever *)
(* holds one that is still out read that number with it.                   *)
(* BoundInv: nothing is under a version that was not written yet.          *)
(* OwnInv: a session a request made is its alone, and under its version.   *)
(* Passed(t): what may still mint a credential, or is one, under a version *)
(* before t was overtaken.  It holds of the last settled version, and of   *)
(* the version of every change that deleted the other sessions already.    *)
(***************************************************************************)
LinksInv ==
  /\ \A l \in Link : links[l] # NoRow => links[l] = sealed
  /\ \A r \in Req : reqs[r].step = "reset_commit" =>
       /\ reqs[r].link \in Link
       /\ links[reqs[r].link] # NoRow => reqs[r].issued = links[reqs[r].link]

Written == {"change_replace", "change_sessions", "change_links", "change_pats", "ending"}

Making == Written \cup {"replace", "create_pat"}

Made == {"change_sessions", "change_links", "change_pats", "ending"}

Revoking == {"change_links", "change_pats"}

BoundInv ==
  /\ \A s \in Sid : sessions[s] # NoRow => sessions[s].under <= password
  /\ \A r \in Req : reqs[r].step \in Making => reqs[r].version <= password

OwnInv ==
  /\ \A r \in Req : reqs[r].step \in Made =>
       /\ reqs[r].sid \in Sid
       /\ sessions[reqs[r].sid] # NoRow => sessions[reqs[r].sid].under = reqs[r].version
  /\ \A q, r \in Req : /\ reqs[q].step \in Made /\ reqs[r].step \in Made
                       /\ reqs[q].sid = reqs[r].sid
                       => q = r

SessionsPassed(t) ==
  \A s \in Sid : sessions[s] # NoRow /\ sessions[s].under < t => sessions[s].late

RequestsPassed(t) ==
  \A r \in Req : reqs[r].step \in Making /\ reqs[r].version < t => reqs[r].late

Passed(t) == SessionsPassed(t) /\ RequestsPassed(t)

PatsPassed(t) ==
  \A p \in Pat : pats[p] # NoRow /\ pats[p].under < t => pats[p].late

PassedInv ==
  /\ Passed(settled)
  /\ PatsPassed(settled)
  /\ \A r \in Req : reqs[r].step \in Revoking => Passed(reqs[r].version)

IInv == TypeOK /\ LinksInv /\ BoundInv /\ OwnInv /\ PassedInv

-----------------------------------------------------------------------------
(* Types                                                                   *)

LEMMA Constants == NoRow \notin Nat /\ NoRow \notin Cred /\ None \notin Sid /\ None \notin Link
  BY RecoveryAssumption

\* The requests a revoking statement leaves behind, one by one.
LEMMA OvertakeEffect ==
  ASSUME TypeOK, NEW r \in Req, NEW next \in Local, Overtake(r, next)
  PROVE  /\ reqs' \in [Req -> Local]
         /\ reqs'[r] = next
         /\ \A q \in Req : q # r =>
              /\ reqs'[q].step = reqs[q].step
              /\ reqs'[q].sid = reqs[q].sid
              /\ reqs'[q].version = reqs[q].version
              /\ reqs'[q].link = reqs[q].link
              /\ reqs'[q].issued = reqs[q].issued
              /\ reqs[q].step # "idle" => reqs'[q].late
              /\ reqs[q].late => reqs'[q].late
<1>1. \A q \in Req : reqs[q] \in Local /\ [reqs[q] EXCEPT !.late = TRUE] \in Local
  BY DEF TypeOK, Local
<1>2. QED
  BY <1>1 DEF Overtake, TypeOK, Local

LEMMA IdleLocal == Idle \in Local
  BY DEF Idle, Local, Step

\* What a reset does to the requests, and to every row.
LEMMA ResetMoves ==
  ASSUME TypeOK, NEW r \in Req, ResetCommit(r)
  PROVE  /\ reqs'[r].step = "idle"
         /\ \A q \in Req : q # r =>
              /\ reqs'[q].step = reqs[q].step
              /\ reqs'[q].sid = reqs[q].sid
              /\ reqs'[q].version = reqs[q].version
              /\ reqs'[q].link = reqs[q].link
              /\ reqs'[q].issued = reqs[q].issued
              /\ reqs[q].step # "idle" => reqs'[q].late
              /\ reqs[q].late => reqs'[q].late
         /\ \A s \in Sid : sessions'[s] = NoRow
         /\ \A p \in Pat : pats'[p] = NoRow
         /\ \A l \in Link : links'[l] = NoRow
<1>1. Overtake(r, Idle)
  BY DEF ResetCommit
<1>2. Idle.step = "idle"
  BY DEF Idle
<1>3. QED
  BY <1>1, <1>2, IdleLocal, OvertakeEffect DEF ResetCommit, NoCreds

\* What the revoking statements of a change do to the requests.
LEMMA ChangeMoves ==
  ASSUME TypeOK, NEW r \in Req, NEW step \in Step,
         Overtake(r, [reqs[r] EXCEPT !.step = step])
  PROVE  /\ reqs'[r].step = step
         /\ reqs'[r].sid = reqs[r].sid
         /\ reqs'[r].version = reqs[r].version
         /\ reqs'[r].late = reqs[r].late
         /\ \A q \in Req : q # r =>
              /\ reqs'[q].step = reqs[q].step
              /\ reqs'[q].sid = reqs[q].sid
              /\ reqs'[q].version = reqs[q].version
              /\ reqs'[q].link = reqs[q].link
              /\ reqs'[q].issued = reqs[q].issued
              /\ reqs[q].step # "idle" => reqs'[q].late
              /\ reqs[q].late => reqs'[q].late
<1> DEFINE next == [reqs[r] EXCEPT !.step = step]
<1>1. reqs[r] \in Local
  BY DEF TypeOK
<1>2. /\ next \in Local
      /\ next.step = step /\ next.sid = reqs[r].sid
      /\ next.version = reqs[r].version /\ next.late = reqs[r].late
  BY <1>1 DEF Local
<1> HIDE DEF next
<1>3. Overtake(r, next)
  BY DEF next
<1>4. QED
  BY <1>2, <1>3, OvertakeEffect

LEMMA TypeStep == TypeOK /\ BoundInv /\ [Next]_vars => TypeOK'
<1> SUFFICES ASSUME TypeOK, BoundInv, [Next]_vars PROVE TypeOK'
  OBVIOUS
<1> USE Constants
<1>1. ASSUME NEW r \in Req, SignInCompare(r) PROVE  TypeOK'
  BY <1>1, IdleLocal DEF SignInCompare, TypeOK, Local, Step, Cred, FreeSid, FreeLink
<1>2. ASSUME NEW r \in Req, NEW s \in Sid, ReplaceSession(r, s) PROVE  TypeOK'
  BY <1>2, IdleLocal DEF ReplaceSession, TypeOK, Local, Step, Cred, FreeSid, FreeLink
<1>3. ASSUME NEW r \in Req, EndResponse(r) PROVE  TypeOK'
  BY <1>3, IdleLocal DEF EndResponse, TypeOK, Local, Step, Cred, FreeSid, FreeLink
<1>4. ASSUME NEW l \in Link, RequestReset(l) PROVE  TypeOK'
  BY <1>4, IdleLocal DEF RequestReset, TypeOK, Local, Step, Cred, FreeSid, FreeLink
<1>5. ASSUME NEW r \in Req, NEW l \in Link, ResetFind(r, l) PROVE  TypeOK'
  <2> DEFINE next == [reqs[r] EXCEPT !.step = "reset_commit", !.link = l, !.issued = links[l]]
  <2>1. reqs[r] \in Local /\ links[l] \in Nat
    BY <1>5 DEF ResetFind, TypeOK, Cred
  <2>2. next \in Local
    BY <1>5, <2>1 DEF TypeOK, Local, Step
  <2>3. reqs' = [reqs EXCEPT ![r] = next]
    BY <1>5, <2>1 DEF ResetFind, Local
  <2> HIDE DEF next
  <2>4. QED
    BY <1>5, <2>2, <2>3 DEF ResetFind, TypeOK
<1>6. ASSUME NEW r \in Req, ResetCommit(r) PROVE  TypeOK'
  BY <1>6, OvertakeEffect, IdleLocal DEF ResetCommit, TypeOK, NoCreds
<1>7. ASSUME NEW r \in Req, ResetRefused(r) PROVE  TypeOK'
  BY <1>7, IdleLocal DEF ResetRefused, TypeOK, Local, Step, Cred, FreeSid, FreeLink
<1>8. ASSUME NEW r \in Req, NEW s \in Sid, ChangeCompare(r, s) PROVE  TypeOK'
  <2> DEFINE next == [reqs[r] EXCEPT !.step = "change_write", !.sid = s, !.late = sessions[s].late]
  <2>1. reqs[r] \in Local /\ sessions[s].late \in BOOLEAN
    BY <1>8 DEF ChangeCompare, TypeOK, Cred
  <2>2. next \in Local
    BY <1>8, <2>1 DEF TypeOK, Local, Step
  <2>3. reqs' = [reqs EXCEPT ![r] = next]
    BY <1>8, <2>1 DEF ChangeCompare, Local
  <2> HIDE DEF next
  <2>4. QED
    BY <1>8, <2>2, <2>3 DEF ChangeCompare, TypeOK
<1>9. ASSUME NEW r \in Req, ChangeWrite(r) PROVE  TypeOK'
  <2> DEFINE next == [reqs[r] EXCEPT !.step = "change_replace", !.version = password + 1]
  <2>1. reqs[r] \in Local
    BY <1>9 DEF ChangeWrite, TypeOK, Cred
  <2>2. password + 1 \in Nat
    BY DEF TypeOK
  <2>3. next \in Local
    BY <2>1, <2>2 DEF Local, Step
  <2>4. reqs' = [reqs EXCEPT ![r] = next]
    BY <1>9, <2>1 DEF ChangeWrite, Local
  <2>5. settled' \in 0..password'
    BY <1>9 DEF ChangeWrite, TypeOK
  <2> HIDE DEF next
  <2>6. QED
    BY <1>9, <2>2, <2>3, <2>4, <2>5 DEF ChangeWrite, TypeOK
<1>10. ASSUME NEW r \in Req, NEW s \in Sid, ChangeReplace(r, s) PROVE  TypeOK'
  BY <1>10, IdleLocal DEF ChangeReplace, TypeOK, Local, Step, Cred, FreeSid, FreeLink
<1>11. ASSUME NEW r \in Req, ChangeSessions(r) PROVE  TypeOK'
  <2>1. reqs[r] \in Local /\ [reqs[r] EXCEPT !.step = "change_links"] \in Local
    BY DEF TypeOK, Local, Step
  <2>2. QED
    BY <1>11, <2>1, OvertakeEffect DEF ChangeSessions, TypeOK, Local, NoCreds, Greater
<1>12. ASSUME NEW r \in Req, ChangeLinks(r) PROVE  TypeOK'
  BY <1>12, IdleLocal DEF ChangeLinks, TypeOK, Local, Step, Cred, FreeSid, FreeLink
<1>13. ASSUME NEW r \in Req, ChangePats(r) PROVE  TypeOK'
  <2>1. reqs[r] \in Local /\ [reqs[r] EXCEPT !.step = "ending"] \in Local
    BY DEF TypeOK, Local, Step
  <2>2. reqs[r].version \in 0..password
    BY <1>13, <2>1 DEF ChangePats, BoundInv, Making, Written, TypeOK, Local
  <2>3. settled' \in 0..password
    BY <1>13, <2>2 DEF ChangePats, TypeOK, Greater
  <2>4. QED
    BY <1>13, <2>1, <2>3, OvertakeEffect DEF ChangePats, TypeOK, NoCreds
<1>14. ASSUME NEW r \in Req, NEW s \in Sid, CreatePatLoad(r, s) PROVE  TypeOK'
  <2> DEFINE next == [reqs[r] EXCEPT !.step = "create_pat", !.sid = s,
                                    !.version = sessions[s].under, !.late = sessions[s].late]
  <2>1. reqs[r] \in Local /\ sessions[s] \in Cred
    BY <1>14 DEF CreatePatLoad, TypeOK
  <2>2. next \in Local
    BY <2>1 DEF Local, Step, Cred
  <2>3. reqs' = [reqs EXCEPT ![r] = next]
    BY <1>14, <2>1 DEF CreatePatLoad, Local
  <2>4. UNCHANGED <<password, sessions, pats, links, settled, sealed>>
    BY <1>14 DEF CreatePatLoad
  <2> HIDE DEF next
  <2>5. QED
    BY <2>2, <2>3, <2>4 DEF TypeOK
<1>15. ASSUME NEW r \in Req, NEW p \in Pat, CreatePatInsert(r, p) PROVE  TypeOK'
  BY <1>15, IdleLocal DEF CreatePatInsert, TypeOK, Local, Step, Cred, FreeSid, FreeLink
<1>16. ASSUME NEW s \in Sid, EndSession(s) PROVE  TypeOK'
  BY <1>16, IdleLocal DEF EndSession, TypeOK, Local, Step, Cred, FreeSid, FreeLink
<1>17. ASSUME NEW p \in Pat, RevokePat(p) PROVE  TypeOK'
  BY <1>17, IdleLocal DEF RevokePat, TypeOK, Local, Step, Cred, FreeSid, FreeLink
<1>18. ASSUME NEW r \in Req, Fail(r) PROVE  TypeOK'
  BY <1>18, IdleLocal DEF Fail, TypeOK, Local, Step, Cred, FreeSid, FreeLink
<1>19. ASSUME NEW r \in Req, Abort(r) PROVE  TypeOK'
  BY <1>19, IdleLocal DEF Abort, TypeOK, Local, Step, Cred, FreeSid, FreeLink
<1>20. ASSUME NEW r \in Req, NEW s \in Sid, ProfileLoad(r, s) PROVE  TypeOK'
  <2> DEFINE next == [reqs[r] EXCEPT !.step = "replace", !.sid = s,
                                    !.version = sessions[s].under, !.late = sessions[s].late]
  <2>1. reqs[r] \in Local /\ sessions[s] \in Cred
    BY <1>20 DEF ProfileLoad, TypeOK
  <2>2. next \in Local
    BY <2>1 DEF Local, Step, Cred
  <2>3. reqs' = [reqs EXCEPT ![r] = next]
    BY <1>20, <2>1 DEF ProfileLoad, Local
  <2>4. UNCHANGED <<password, sessions, pats, links, settled, sealed>>
    BY <1>20 DEF ProfileLoad
  <2> HIDE DEF next
  <2>5. QED
    BY <2>2, <2>3, <2>4 DEF TypeOK
<1>21. CASE UNCHANGED vars
  BY <1>21 DEF vars, TypeOK
<1>22. QED
  BY <1>1, <1>2, <1>3, <1>4, <1>5, <1>6, <1>7, <1>8, <1>9, <1>10, <1>11, <1>12, <1>13, <1>14, <1>15, <1>16, <1>17, <1>18, <1>19, <1>20, <1>21 DEF Next

-----------------------------------------------------------------------------
(* The steps of the invariant's parts                                      *)

\* A link that is out was issued after the last sealing.
LEMMA LinksStep == TypeOK /\ LinksInv /\ [Next]_vars => LinksInv'
<1> SUFFICES ASSUME TypeOK, LinksInv, [Next]_vars PROVE LinksInv'
  OBVIOUS
<1> USE Constants
<1>1. ASSUME NEW r \in Req, SignInCompare(r) PROVE  LinksInv'
  BY <1>1 DEF SignInCompare, TypeOK, Local, Cred, FreeSid, FreeLink, Idle, LinksInv
<1>2. ASSUME NEW r \in Req, NEW s \in Sid, ReplaceSession(r, s) PROVE  LinksInv'
  BY <1>2 DEF ReplaceSession, TypeOK, Local, Cred, FreeSid, FreeLink, Idle, LinksInv
<1>3. ASSUME NEW r \in Req, EndResponse(r) PROVE  LinksInv'
  BY <1>3 DEF EndResponse, TypeOK, Local, Cred, FreeSid, FreeLink, Idle, LinksInv
<1>4. ASSUME NEW l \in Link, RequestReset(l) PROVE  LinksInv'
  BY <1>4 DEF RequestReset, TypeOK, Local, Cred, FreeSid, FreeLink, Idle, LinksInv
<1>5. ASSUME NEW r \in Req, NEW l \in Link, ResetFind(r, l) PROVE  LinksInv'
  BY <1>5 DEF ResetFind, TypeOK, Local, Cred, FreeSid, FreeLink, Idle, LinksInv
<1>6. ASSUME NEW r \in Req, ResetCommit(r) PROVE  LinksInv'
  BY <1>6, ResetMoves DEF ResetCommit, TypeOK, Local, LinksInv
<1>7. ASSUME NEW r \in Req, ResetRefused(r) PROVE  LinksInv'
  BY <1>7 DEF ResetRefused, TypeOK, Local, Cred, FreeSid, FreeLink, Idle, LinksInv
<1>8. ASSUME NEW r \in Req, NEW s \in Sid, ChangeCompare(r, s) PROVE  LinksInv'
  BY <1>8 DEF ChangeCompare, TypeOK, Local, Cred, FreeSid, FreeLink, Idle, LinksInv
<1>9. ASSUME NEW r \in Req, ChangeWrite(r) PROVE  LinksInv'
  BY <1>9 DEF ChangeWrite, TypeOK, Local, Cred, FreeSid, FreeLink, Idle, LinksInv
<1>10. ASSUME NEW r \in Req, NEW s \in Sid, ChangeReplace(r, s) PROVE  LinksInv'
  BY <1>10 DEF ChangeReplace, TypeOK, Local, Cred, FreeSid, FreeLink, Idle, LinksInv
<1>11. ASSUME NEW r \in Req, ChangeSessions(r) PROVE  LinksInv'
  <2>1. "change_links" \in Step /\ Overtake(r, [reqs[r] EXCEPT !.step = "change_links"])
    BY <1>11 DEF ChangeSessions, Step
  <2>2. QED
    BY <1>11, <2>1, ChangeMoves DEF ChangeSessions, TypeOK, Local, NoCreds, LinksInv
<1>12. ASSUME NEW r \in Req, ChangeLinks(r) PROVE  LinksInv'
  BY <1>12 DEF ChangeLinks, TypeOK, Local, Cred, FreeSid, FreeLink, Idle, LinksInv
<1>13. ASSUME NEW r \in Req, ChangePats(r) PROVE  LinksInv'
  <2>1. "ending" \in Step /\ Overtake(r, [reqs[r] EXCEPT !.step = "ending"])
    BY <1>13 DEF ChangePats, Step
  <2>2. QED
    BY <1>13, <2>1, ChangeMoves DEF ChangePats, TypeOK, Local, NoCreds, LinksInv
<1>14. ASSUME NEW r \in Req, NEW s \in Sid, CreatePatLoad(r, s) PROVE  LinksInv'
  BY <1>14 DEF CreatePatLoad, TypeOK, Local, Cred, FreeSid, FreeLink, Idle, LinksInv
<1>15. ASSUME NEW r \in Req, NEW p \in Pat, CreatePatInsert(r, p) PROVE  LinksInv'
  BY <1>15 DEF CreatePatInsert, TypeOK, Local, Cred, FreeSid, FreeLink, Idle, LinksInv
<1>16. ASSUME NEW s \in Sid, EndSession(s) PROVE  LinksInv'
  BY <1>16 DEF EndSession, TypeOK, Local, Cred, FreeSid, FreeLink, Idle, LinksInv
<1>17. ASSUME NEW p \in Pat, RevokePat(p) PROVE  LinksInv'
  BY <1>17 DEF RevokePat, TypeOK, Local, Cred, FreeSid, FreeLink, Idle, LinksInv
<1>18. ASSUME NEW r \in Req, Fail(r) PROVE  LinksInv'
  BY <1>18 DEF Fail, TypeOK, Local, Cred, FreeSid, FreeLink, Idle, LinksInv
<1>19. ASSUME NEW r \in Req, Abort(r) PROVE  LinksInv'
  BY <1>19 DEF Abort, TypeOK, Local, Cred, FreeSid, FreeLink, Idle, LinksInv
<1>20. ASSUME NEW r \in Req, NEW s \in Sid, ProfileLoad(r, s) PROVE  LinksInv'
  BY <1>20 DEF ProfileLoad, TypeOK, Local, Cred, FreeSid, FreeLink, Idle, LinksInv
<1>21. CASE UNCHANGED vars
  BY <1>21 DEF vars, LinksInv
<1>22. QED
  BY <1>1, <1>2, <1>3, <1>4, <1>5, <1>6, <1>7, <1>8, <1>9, <1>10, <1>11, <1>12, <1>13, <1>14, <1>15, <1>16, <1>17, <1>18, <1>19, <1>20, <1>21 DEF Next

\* No version is used before it was written.
LEMMA BoundStep == TypeOK /\ BoundInv /\ [Next]_vars => BoundInv'
<1> SUFFICES ASSUME TypeOK, BoundInv, [Next]_vars PROVE BoundInv'
  OBVIOUS
<1> USE Constants
<1>1. ASSUME NEW r \in Req, SignInCompare(r) PROVE  BoundInv'
  BY <1>1 DEF SignInCompare, TypeOK, Local, Cred, FreeSid, FreeLink, Idle, BoundInv, Making, Written
<1>2. ASSUME NEW r \in Req, NEW s \in Sid, ReplaceSession(r, s) PROVE  BoundInv'
  BY <1>2 DEF ReplaceSession, TypeOK, Local, Cred, FreeSid, FreeLink, Idle, BoundInv, Making, Written
<1>3. ASSUME NEW r \in Req, EndResponse(r) PROVE  BoundInv'
  BY <1>3 DEF EndResponse, TypeOK, Local, Cred, FreeSid, FreeLink, Idle, BoundInv, Making, Written
<1>4. ASSUME NEW l \in Link, RequestReset(l) PROVE  BoundInv'
  BY <1>4 DEF RequestReset, TypeOK, Local, Cred, FreeSid, FreeLink, Idle, BoundInv, Making, Written
<1>5. ASSUME NEW r \in Req, NEW l \in Link, ResetFind(r, l) PROVE  BoundInv'
  BY <1>5 DEF ResetFind, TypeOK, Local, Cred, FreeSid, FreeLink, Idle, BoundInv, Making, Written
<1>6. ASSUME NEW r \in Req, ResetCommit(r) PROVE  BoundInv'
  BY <1>6, ResetMoves DEF ResetCommit, TypeOK, Local, BoundInv, Making, Written
<1>7. ASSUME NEW r \in Req, ResetRefused(r) PROVE  BoundInv'
  BY <1>7 DEF ResetRefused, TypeOK, Local, Cred, FreeSid, FreeLink, Idle, BoundInv, Making, Written
<1>8. ASSUME NEW r \in Req, NEW s \in Sid, ChangeCompare(r, s) PROVE  BoundInv'
  BY <1>8 DEF ChangeCompare, TypeOK, Local, Cred, FreeSid, FreeLink, Idle, BoundInv, Making, Written
<1>9. ASSUME NEW r \in Req, ChangeWrite(r) PROVE  BoundInv'
  BY <1>9 DEF ChangeWrite, TypeOK, Local, Cred, FreeSid, FreeLink, Idle, BoundInv, Making, Written
<1>10. ASSUME NEW r \in Req, NEW s \in Sid, ChangeReplace(r, s) PROVE  BoundInv'
  BY <1>10 DEF ChangeReplace, TypeOK, Local, Cred, FreeSid, FreeLink, Idle, BoundInv, Making, Written
<1>11. ASSUME NEW r \in Req, ChangeSessions(r) PROVE  BoundInv'
  <2>1. "change_links" \in Step /\ Overtake(r, [reqs[r] EXCEPT !.step = "change_links"])
    BY <1>11 DEF ChangeSessions, Step
  <2>2. QED
    BY <1>11, <2>1, ChangeMoves DEF ChangeSessions, TypeOK, Local, NoCreds, BoundInv, Making, Written
<1>12. ASSUME NEW r \in Req, ChangeLinks(r) PROVE  BoundInv'
  BY <1>12 DEF ChangeLinks, TypeOK, Local, Cred, FreeSid, FreeLink, Idle, BoundInv, Making, Written
<1>13. ASSUME NEW r \in Req, ChangePats(r) PROVE  BoundInv'
  <2>1. "ending" \in Step /\ Overtake(r, [reqs[r] EXCEPT !.step = "ending"])
    BY <1>13 DEF ChangePats, Step
  <2>2. QED
    BY <1>13, <2>1, ChangeMoves DEF ChangePats, TypeOK, Local, NoCreds, BoundInv, Making, Written
<1>14. ASSUME NEW r \in Req, NEW s \in Sid, CreatePatLoad(r, s) PROVE  BoundInv'
  BY <1>14 DEF CreatePatLoad, TypeOK, Local, Cred, FreeSid, FreeLink, Idle, BoundInv, Making, Written
<1>15. ASSUME NEW r \in Req, NEW p \in Pat, CreatePatInsert(r, p) PROVE  BoundInv'
  BY <1>15 DEF CreatePatInsert, TypeOK, Local, Cred, FreeSid, FreeLink, Idle, BoundInv, Making, Written
<1>16. ASSUME NEW s \in Sid, EndSession(s) PROVE  BoundInv'
  BY <1>16 DEF EndSession, TypeOK, Local, Cred, FreeSid, FreeLink, Idle, BoundInv, Making, Written
<1>17. ASSUME NEW p \in Pat, RevokePat(p) PROVE  BoundInv'
  BY <1>17 DEF RevokePat, TypeOK, Local, Cred, FreeSid, FreeLink, Idle, BoundInv, Making, Written
<1>18. ASSUME NEW r \in Req, Fail(r) PROVE  BoundInv'
  BY <1>18 DEF Fail, TypeOK, Local, Cred, FreeSid, FreeLink, Idle, BoundInv, Making, Written
<1>19. ASSUME NEW r \in Req, Abort(r) PROVE  BoundInv'
  BY <1>19 DEF Abort, TypeOK, Local, Cred, FreeSid, FreeLink, Idle, BoundInv, Making, Written
<1>20. ASSUME NEW r \in Req, NEW s \in Sid, ProfileLoad(r, s) PROVE  BoundInv'
  BY <1>20 DEF ProfileLoad, TypeOK, Local, Cred, FreeSid, FreeLink, Idle, BoundInv, Making, Written
<1>21. CASE UNCHANGED vars
  BY <1>21 DEF vars, BoundInv, Making, Written
<1>22. QED
  BY <1>1, <1>2, <1>3, <1>4, <1>5, <1>6, <1>7, <1>8, <1>9, <1>10, <1>11, <1>12, <1>13, <1>14, <1>15, <1>16, <1>17, <1>18, <1>19, <1>20, <1>21 DEF Next

\* Nobody writes another version on the row of a session a request made.
LEMMA OwnStep == TypeOK /\ OwnInv /\ [Next]_vars => OwnInv'
<1> SUFFICES ASSUME TypeOK, OwnInv, [Next]_vars PROVE OwnInv'
  OBVIOUS
<1> USE Constants
<1>1. ASSUME NEW r \in Req, SignInCompare(r) PROVE  OwnInv'
  BY <1>1 DEF SignInCompare, TypeOK, Local, Cred, FreeSid, FreeLink, Idle, OwnInv, Made
<1>2. ASSUME NEW r \in Req, NEW s \in Sid, ReplaceSession(r, s) PROVE  OwnInv'
  BY <1>2 DEF ReplaceSession, TypeOK, Local, Cred, FreeSid, FreeLink, Idle, OwnInv, Made
<1>3. ASSUME NEW r \in Req, EndResponse(r) PROVE  OwnInv'
  BY <1>3 DEF EndResponse, TypeOK, Local, Cred, FreeSid, FreeLink, Idle, OwnInv, Made
<1>4. ASSUME NEW l \in Link, RequestReset(l) PROVE  OwnInv'
  BY <1>4 DEF RequestReset, TypeOK, Local, Cred, FreeSid, FreeLink, Idle, OwnInv, Made
<1>5. ASSUME NEW r \in Req, NEW l \in Link, ResetFind(r, l) PROVE  OwnInv'
  BY <1>5 DEF ResetFind, TypeOK, Local, Cred, FreeSid, FreeLink, Idle, OwnInv, Made
<1>6. ASSUME NEW r \in Req, ResetCommit(r) PROVE  OwnInv'
  BY <1>6, ResetMoves DEF ResetCommit, TypeOK, Local, OwnInv, Made
<1>7. ASSUME NEW r \in Req, ResetRefused(r) PROVE  OwnInv'
  BY <1>7 DEF ResetRefused, TypeOK, Local, Cred, FreeSid, FreeLink, Idle, OwnInv, Made
<1>8. ASSUME NEW r \in Req, NEW s \in Sid, ChangeCompare(r, s) PROVE  OwnInv'
  BY <1>8 DEF ChangeCompare, TypeOK, Local, Cred, FreeSid, FreeLink, Idle, OwnInv, Made
<1>9. ASSUME NEW r \in Req, ChangeWrite(r) PROVE  OwnInv'
  BY <1>9 DEF ChangeWrite, TypeOK, Local, Cred, FreeSid, FreeLink, Idle, OwnInv, Made
<1>10. ASSUME NEW r \in Req, NEW s \in Sid, ChangeReplace(r, s) PROVE  OwnInv'
  BY <1>10 DEF ChangeReplace, TypeOK, Local, Cred, FreeSid, FreeLink, Idle, OwnInv, Made
<1>11. ASSUME NEW r \in Req, ChangeSessions(r) PROVE  OwnInv'
  <2>1. "change_links" \in Step /\ Overtake(r, [reqs[r] EXCEPT !.step = "change_links"])
    BY <1>11 DEF ChangeSessions, Step
  <2>2. QED
    BY <1>11, <2>1, ChangeMoves DEF ChangeSessions, TypeOK, Local, NoCreds, OwnInv, Made
<1>12. ASSUME NEW r \in Req, ChangeLinks(r) PROVE  OwnInv'
  BY <1>12 DEF ChangeLinks, TypeOK, Local, Cred, FreeSid, FreeLink, Idle, OwnInv, Made
<1>13. ASSUME NEW r \in Req, ChangePats(r) PROVE  OwnInv'
  <2>1. "ending" \in Step /\ Overtake(r, [reqs[r] EXCEPT !.step = "ending"])
    BY <1>13 DEF ChangePats, Step
  <2>2. QED
    BY <1>13, <2>1, ChangeMoves DEF ChangePats, TypeOK, Local, NoCreds, OwnInv, Made
<1>14. ASSUME NEW r \in Req, NEW s \in Sid, CreatePatLoad(r, s) PROVE  OwnInv'
  BY <1>14 DEF CreatePatLoad, TypeOK, Local, Cred, FreeSid, FreeLink, Idle, OwnInv, Made
<1>15. ASSUME NEW r \in Req, NEW p \in Pat, CreatePatInsert(r, p) PROVE  OwnInv'
  BY <1>15 DEF CreatePatInsert, TypeOK, Local, Cred, FreeSid, FreeLink, Idle, OwnInv, Made
<1>16. ASSUME NEW s \in Sid, EndSession(s) PROVE  OwnInv'
  BY <1>16 DEF EndSession, TypeOK, Local, Cred, FreeSid, FreeLink, Idle, OwnInv, Made
<1>17. ASSUME NEW p \in Pat, RevokePat(p) PROVE  OwnInv'
  BY <1>17 DEF RevokePat, TypeOK, Local, Cred, FreeSid, FreeLink, Idle, OwnInv, Made
<1>18. ASSUME NEW r \in Req, Fail(r) PROVE  OwnInv'
  BY <1>18 DEF Fail, TypeOK, Local, Cred, FreeSid, FreeLink, Idle, OwnInv, Made
<1>19. ASSUME NEW r \in Req, Abort(r) PROVE  OwnInv'
  BY <1>19 DEF Abort, TypeOK, Local, Cred, FreeSid, FreeLink, Idle, OwnInv, Made
<1>20. ASSUME NEW r \in Req, NEW s \in Sid, ProfileLoad(r, s) PROVE  OwnInv'
  BY <1>20 DEF ProfileLoad, TypeOK, Local, Cred, FreeSid, FreeLink, Idle, OwnInv, Made
<1>21. CASE UNCHANGED vars
  BY <1>21 DEF vars, OwnInv, Made
<1>22. QED
  BY <1>1, <1>2, <1>3, <1>4, <1>5, <1>6, <1>7, <1>8, <1>9, <1>10, <1>11, <1>12, <1>13, <1>14, <1>15, <1>16, <1>17, <1>18, <1>19, <1>20, <1>21 DEF Next

\* What was overtaken stays so: only a session or a request that is late
\* makes another under an old version.
LEMMA PassedStep ==
  ASSUME TypeOK, [Next]_vars, NEW t \in Nat, t <= password, Passed(t)
  PROVE  Passed(t)'
<1> USE Constants DEF Passed, SessionsPassed, RequestsPassed, Making, Written
<1>1. ASSUME NEW r \in Req, SignInCompare(r) PROVE  Passed(t)'
  BY <1>1 DEF SignInCompare, TypeOK, Local, Cred, Idle
<1>2. ASSUME NEW r \in Req, NEW s \in Sid, ReplaceSession(r, s) PROVE  Passed(t)'
  BY <1>2 DEF ReplaceSession, TypeOK, Local, Cred, Idle
<1>3. ASSUME NEW r \in Req, EndResponse(r) PROVE  Passed(t)'
  BY <1>3 DEF EndResponse, TypeOK, Local, Cred, Idle
<1>4. ASSUME NEW l \in Link, RequestReset(l) PROVE  Passed(t)'
  BY <1>4 DEF RequestReset, TypeOK, Local, Cred, Idle
<1>5. ASSUME NEW r \in Req, NEW l \in Link, ResetFind(r, l) PROVE  Passed(t)'
  BY <1>5 DEF ResetFind, TypeOK, Local, Cred, Idle
<1>6. ASSUME NEW r \in Req, ResetCommit(r) PROVE  Passed(t)'
  BY <1>6, ResetMoves DEF ResetCommit, TypeOK, Local
<1>7. ASSUME NEW r \in Req, ResetRefused(r) PROVE  Passed(t)'
  BY <1>7 DEF ResetRefused, TypeOK, Local, Cred, Idle
<1>8. ASSUME NEW r \in Req, NEW s \in Sid, ChangeCompare(r, s) PROVE  Passed(t)'
  BY <1>8 DEF ChangeCompare, TypeOK, Local, Cred, Idle
<1>9. ASSUME NEW r \in Req, ChangeWrite(r) PROVE  Passed(t)'
  BY <1>9 DEF ChangeWrite, TypeOK, Local, Cred, Idle
<1>10. ASSUME NEW r \in Req, NEW s \in Sid, ChangeReplace(r, s) PROVE  Passed(t)'
  BY <1>10 DEF ChangeReplace, TypeOK, Local, Cred, Idle
<1>11. ASSUME NEW r \in Req, ChangeSessions(r) PROVE  Passed(t)'
  <2>1. "change_links" \in Step /\ Overtake(r, [reqs[r] EXCEPT !.step = "change_links"])
    BY <1>11 DEF ChangeSessions, Step
  <2>2. QED
    BY <1>11, <2>1, ChangeMoves DEF ChangeSessions, TypeOK, Local, NoCreds
<1>12. ASSUME NEW r \in Req, ChangeLinks(r) PROVE  Passed(t)'
  BY <1>12 DEF ChangeLinks, TypeOK, Local, Cred, Idle
<1>13. ASSUME NEW r \in Req, ChangePats(r) PROVE  Passed(t)'
  <2>1. "ending" \in Step /\ Overtake(r, [reqs[r] EXCEPT !.step = "ending"])
    BY <1>13 DEF ChangePats, Step
  <2>2. QED
    BY <1>13, <2>1, ChangeMoves DEF ChangePats, TypeOK, Local, NoCreds
<1>14. ASSUME NEW r \in Req, NEW s \in Sid, CreatePatLoad(r, s) PROVE  Passed(t)'
  BY <1>14 DEF CreatePatLoad, TypeOK, Local, Cred, Idle
<1>15. ASSUME NEW r \in Req, NEW p \in Pat, CreatePatInsert(r, p) PROVE  Passed(t)'
  BY <1>15 DEF CreatePatInsert, TypeOK, Local, Cred, Idle
<1>16. ASSUME NEW s \in Sid, EndSession(s) PROVE  Passed(t)'
  BY <1>16 DEF EndSession, TypeOK, Local, Cred, Idle
<1>17. ASSUME NEW p \in Pat, RevokePat(p) PROVE  Passed(t)'
  BY <1>17 DEF RevokePat, TypeOK, Local, Cred, Idle
<1>18. ASSUME NEW r \in Req, Fail(r) PROVE  Passed(t)'
  BY <1>18 DEF Fail, TypeOK, Local, Cred, Idle
<1>19. ASSUME NEW r \in Req, Abort(r) PROVE  Passed(t)'
  BY <1>19 DEF Abort, TypeOK, Local, Cred, Idle
<1>20. ASSUME NEW r \in Req, NEW s \in Sid, ProfileLoad(r, s) PROVE  Passed(t)'
  BY <1>20 DEF ProfileLoad, TypeOK, Local, Cred, Idle
<1>21. CASE UNCHANGED vars
  BY <1>21 DEF vars
<1>22. QED
  BY <1>1, <1>2, <1>3, <1>4, <1>5, <1>6, <1>7, <1>8, <1>9, <1>10, <1>11, <1>12, <1>13, <1>14, <1>15, <1>16, <1>17, <1>18, <1>19, <1>20, <1>21 DEF Next

\* Neither does a token come to be under an old version otherwise.
LEMMA PatsStep ==
  ASSUME TypeOK, [Next]_vars, NEW t \in Nat, RequestsPassed(t), PatsPassed(t)
  PROVE  PatsPassed(t)'
<1> USE Constants DEF PatsPassed, RequestsPassed, Making, Written
<1>1. ASSUME NEW r \in Req, SignInCompare(r) PROVE  PatsPassed(t)'
  BY <1>1 DEF SignInCompare, TypeOK, Local, Cred, Idle
<1>2. ASSUME NEW r \in Req, NEW s \in Sid, ReplaceSession(r, s) PROVE  PatsPassed(t)'
  BY <1>2 DEF ReplaceSession, TypeOK, Local, Cred, Idle
<1>3. ASSUME NEW r \in Req, EndResponse(r) PROVE  PatsPassed(t)'
  BY <1>3 DEF EndResponse, TypeOK, Local, Cred, Idle
<1>4. ASSUME NEW l \in Link, RequestReset(l) PROVE  PatsPassed(t)'
  BY <1>4 DEF RequestReset, TypeOK, Local, Cred, Idle
<1>5. ASSUME NEW r \in Req, NEW l \in Link, ResetFind(r, l) PROVE  PatsPassed(t)'
  BY <1>5 DEF ResetFind, TypeOK, Local, Cred, Idle
<1>6. ASSUME NEW r \in Req, ResetCommit(r) PROVE  PatsPassed(t)'
  BY <1>6, ResetMoves DEF ResetCommit, TypeOK, Local
<1>7. ASSUME NEW r \in Req, ResetRefused(r) PROVE  PatsPassed(t)'
  BY <1>7 DEF ResetRefused, TypeOK, Local, Cred, Idle
<1>8. ASSUME NEW r \in Req, NEW s \in Sid, ChangeCompare(r, s) PROVE  PatsPassed(t)'
  BY <1>8 DEF ChangeCompare, TypeOK, Local, Cred, Idle
<1>9. ASSUME NEW r \in Req, ChangeWrite(r) PROVE  PatsPassed(t)'
  BY <1>9 DEF ChangeWrite, TypeOK, Local, Cred, Idle
<1>10. ASSUME NEW r \in Req, NEW s \in Sid, ChangeReplace(r, s) PROVE  PatsPassed(t)'
  BY <1>10 DEF ChangeReplace, TypeOK, Local, Cred, Idle
<1>11. ASSUME NEW r \in Req, ChangeSessions(r) PROVE  PatsPassed(t)'
  <2>1. "change_links" \in Step /\ Overtake(r, [reqs[r] EXCEPT !.step = "change_links"])
    BY <1>11 DEF ChangeSessions, Step
  <2>2. QED
    BY <1>11, <2>1, ChangeMoves DEF ChangeSessions, TypeOK, Local, NoCreds
<1>12. ASSUME NEW r \in Req, ChangeLinks(r) PROVE  PatsPassed(t)'
  BY <1>12 DEF ChangeLinks, TypeOK, Local, Cred, Idle
<1>13. ASSUME NEW r \in Req, ChangePats(r) PROVE  PatsPassed(t)'
  <2>1. "ending" \in Step /\ Overtake(r, [reqs[r] EXCEPT !.step = "ending"])
    BY <1>13 DEF ChangePats, Step
  <2>2. QED
    BY <1>13, <2>1, ChangeMoves DEF ChangePats, TypeOK, Local, NoCreds
<1>14. ASSUME NEW r \in Req, NEW s \in Sid, CreatePatLoad(r, s) PROVE  PatsPassed(t)'
  BY <1>14 DEF CreatePatLoad, TypeOK, Local, Cred, Idle
<1>15. ASSUME NEW r \in Req, NEW p \in Pat, CreatePatInsert(r, p) PROVE  PatsPassed(t)'
  BY <1>15 DEF CreatePatInsert, TypeOK, Local, Cred, Idle
<1>16. ASSUME NEW s \in Sid, EndSession(s) PROVE  PatsPassed(t)'
  BY <1>16 DEF EndSession, TypeOK, Local, Cred, Idle
<1>17. ASSUME NEW p \in Pat, RevokePat(p) PROVE  PatsPassed(t)'
  BY <1>17 DEF RevokePat, TypeOK, Local, Cred, Idle
<1>18. ASSUME NEW r \in Req, Fail(r) PROVE  PatsPassed(t)'
  BY <1>18 DEF Fail, TypeOK, Local, Cred, Idle
<1>19. ASSUME NEW r \in Req, Abort(r) PROVE  PatsPassed(t)'
  BY <1>19 DEF Abort, TypeOK, Local, Cred, Idle
<1>20. ASSUME NEW r \in Req, NEW s \in Sid, ProfileLoad(r, s) PROVE  PatsPassed(t)'
  BY <1>20 DEF ProfileLoad, TypeOK, Local, Cred, Idle
<1>21. CASE UNCHANGED vars
  BY <1>21 DEF vars
<1>22. QED
  BY <1>1, <1>2, <1>3, <1>4, <1>5, <1>6, <1>7, <1>8, <1>9, <1>10, <1>11, <1>12, <1>13, <1>14, <1>15, <1>16, <1>17, <1>18, <1>19, <1>20, <1>21 DEF Next

\* Once a change deleted the other sessions, all that is under a version
\* before its own was overtaken.
LEMMA ChangeOvertakes ==
  ASSUME TypeOK, BoundInv, OwnInv, NEW r \in Req, ChangeSessions(r)
  PROVE  Passed(reqs[r].version)'
<1>1. "change_links" \in Step /\ Overtake(r, [reqs[r] EXCEPT !.step = "change_links"])
  BY DEF ChangeSessions, Step
<1>2. RequestsPassed(reqs[r].version)'
  BY <1>1, ChangeMoves DEF RequestsPassed, ChangeSessions, Making, Written, TypeOK, Local
<1>3. SessionsPassed(reqs[r].version)'
  BY <1>1, ChangeMoves, Constants
     DEF SessionsPassed, ChangeSessions, OwnInv, Made, TypeOK, Local, Cred
<1>4. QED
  BY <1>2, <1>3 DEF Passed

\* A change that deletes no sessions now, and is past it next, is past it.
LEMMA RevokingStep ==
  ASSUME TypeOK, [Next]_vars, NEW q \in Req, reqs'[q].step \in Revoking,
         ~ChangeSessions(q)
  PROVE  reqs[q].step \in Revoking /\ reqs'[q].version = reqs[q].version
<1> DEFINE Goal == reqs[q].step \in Revoking /\ reqs'[q].version = reqs[q].version
<1> USE DEF Revoking
<1>1. ASSUME NEW r \in Req, SignInCompare(r) PROVE  Goal
  BY <1>1 DEF SignInCompare, TypeOK, Local, Idle
<1>2. ASSUME NEW r \in Req, NEW s \in Sid, ReplaceSession(r, s) PROVE  Goal
  BY <1>2 DEF ReplaceSession, TypeOK, Local, Idle
<1>3. ASSUME NEW r \in Req, EndResponse(r) PROVE  Goal
  BY <1>3 DEF EndResponse, TypeOK, Local, Idle
<1>4. ASSUME NEW l \in Link, RequestReset(l) PROVE  Goal
  BY <1>4 DEF RequestReset, TypeOK, Local, Idle
<1>5. ASSUME NEW r \in Req, NEW l \in Link, ResetFind(r, l) PROVE  Goal
  BY <1>5 DEF ResetFind, TypeOK, Local, Idle
<1>6. ASSUME NEW r \in Req, ResetCommit(r) PROVE  Goal
  BY <1>6, ResetMoves
<1>7. ASSUME NEW r \in Req, ResetRefused(r) PROVE  Goal
  BY <1>7 DEF ResetRefused, TypeOK, Local, Idle
<1>8. ASSUME NEW r \in Req, NEW s \in Sid, ChangeCompare(r, s) PROVE  Goal
  BY <1>8 DEF ChangeCompare, TypeOK, Local, Idle
<1>9. ASSUME NEW r \in Req, ChangeWrite(r) PROVE  Goal
  BY <1>9 DEF ChangeWrite, TypeOK, Local, Idle
<1>10. ASSUME NEW r \in Req, NEW s \in Sid, ChangeReplace(r, s) PROVE  Goal
  BY <1>10 DEF ChangeReplace, TypeOK, Local, Idle
<1>11. ASSUME NEW r \in Req, ChangeSessions(r) PROVE  Goal
  <2>1. "change_links" \in Step /\ Overtake(r, [reqs[r] EXCEPT !.step = "change_links"])
    BY <1>11 DEF ChangeSessions, Step
  <2>2. QED
    BY <1>11, <2>1, ChangeMoves DEF ChangeSessions
<1>12. ASSUME NEW r \in Req, ChangeLinks(r) PROVE  Goal
  BY <1>12 DEF ChangeLinks, TypeOK, Local, Idle
<1>13. ASSUME NEW r \in Req, ChangePats(r) PROVE  Goal
  <2>1. "ending" \in Step /\ Overtake(r, [reqs[r] EXCEPT !.step = "ending"])
    BY <1>13 DEF ChangePats, Step
  <2>2. QED
    BY <1>13, <2>1, ChangeMoves DEF ChangePats
<1>14. ASSUME NEW r \in Req, NEW s \in Sid, CreatePatLoad(r, s) PROVE  Goal
  BY <1>14 DEF CreatePatLoad, TypeOK, Local, Idle
<1>15. ASSUME NEW r \in Req, NEW p \in Pat, CreatePatInsert(r, p) PROVE  Goal
  BY <1>15 DEF CreatePatInsert, TypeOK, Local, Idle
<1>16. ASSUME NEW s \in Sid, EndSession(s) PROVE  Goal
  BY <1>16 DEF EndSession, TypeOK, Local, Idle
<1>17. ASSUME NEW p \in Pat, RevokePat(p) PROVE  Goal
  BY <1>17 DEF RevokePat, TypeOK, Local, Idle
<1>18. ASSUME NEW r \in Req, Fail(r) PROVE  Goal
  BY <1>18 DEF Fail, TypeOK, Local, Idle
<1>19. ASSUME NEW r \in Req, Abort(r) PROVE  Goal
  BY <1>19 DEF Abort, TypeOK, Local, Idle
<1>20. ASSUME NEW r \in Req, NEW s \in Sid, ProfileLoad(r, s) PROVE  Goal
  BY <1>20 DEF ProfileLoad, TypeOK, Local, Idle
<1>21. CASE UNCHANGED vars
  BY <1>21 DEF vars
<1>22. QED
  BY <1>1, <1>2, <1>3, <1>4, <1>5, <1>6, <1>7, <1>8, <1>9, <1>10, <1>11, <1>12, <1>13, <1>14, <1>15, <1>16, <1>17, <1>18, <1>19, <1>20, <1>21 DEF Next

LEMMA PassedInvStep == IInv /\ [Next]_vars => PassedInv'
<1> SUFFICES ASSUME IInv, [Next]_vars PROVE PassedInv'
  OBVIOUS
<1> USE DEF IInv
<1>1. ASSUME NEW r \in Req, ResetCommit(r) PROVE PassedInv'
  <2>1. \A t \in Nat : Passed(t)'
    BY <1>1, ResetMoves DEF Passed, SessionsPassed, RequestsPassed, Making, Written
  <2>2. settled' \in Nat /\ \A q \in Req : reqs'[q] \in Local
    BY TypeStep DEF TypeOK
  <2>3. PatsPassed(settled)'
    BY <1>1, ResetMoves DEF PatsPassed
  <2>4. Passed(settled)'
    BY <2>1, <2>2 DEF Passed, SessionsPassed, RequestsPassed
  <2>5. \A q \in Req : Passed(reqs[q].version)'
    BY <2>1, <2>2 DEF Passed, SessionsPassed, RequestsPassed, Local
  <2>6. QED
    BY <2>3, <2>4, <2>5 DEF PassedInv
<1>2. ASSUME \A r \in Req : ~ResetCommit(r) PROVE PassedInv'
  <2>1. settled \in Nat /\ settled <= password
    BY DEF TypeOK
  <2>2. Passed(settled) /\ PatsPassed(settled)
    BY DEF PassedInv
  <2>3. ASSUME NEW t \in Nat, t <= password, Passed(t), PatsPassed(t), settled' = t
        PROVE  Passed(settled)' /\ PatsPassed(settled)'
    <3>1. Passed(t)' /\ PatsPassed(t)'
      BY <2>3, PassedStep, PatsStep DEF Passed
    <3>2. QED
      BY <2>3, <3>1
         DEF Passed, SessionsPassed, RequestsPassed, PatsPassed
  <2>4. ASSUME NEW r \in Req, ChangePats(r) PROVE Passed(settled)' /\ PatsPassed(settled)'
    <3>1. /\ reqs[r].version \in Nat /\ reqs[r].version <= password
          /\ Passed(reqs[r].version)
      BY <2>4 DEF ChangePats, TypeOK, Local, BoundInv, Making, Written, PassedInv, Revoking
    <3>2. settled' = settled \/ settled' = reqs[r].version
      BY <2>4 DEF ChangePats, Greater
    <3>3. settled' \in Nat /\ settled' <= password /\ Passed(settled)'
      <4>1. CASE settled' = settled
        BY <4>1, <2>1, <2>2, PassedStep DEF Passed, SessionsPassed, RequestsPassed
      <4>2. CASE settled' = reqs[r].version
        <5>1. PICK t \in Nat : t = reqs[r].version
          BY <3>1
        <5>2. Passed(t)'
          BY <3>1, <5>1, PassedStep
        <5>3. QED
          BY <3>1, <4>2, <5>1, <5>2, TypeStep
             DEF Passed, SessionsPassed, RequestsPassed, TypeOK
      <4>3. QED
        BY <3>2, <4>1, <4>2
    <3>4. PatsPassed(settled)'
      BY <2>4 DEF ChangePats, NoCreds, PatsPassed
    <3>5. QED
      BY <3>3, <3>4
  <2>5. Passed(settled)' /\ PatsPassed(settled)'
    <3>1. CASE \E r \in Req : ChangePats(r)
      BY <2>4, <3>1
    <3>2. CASE ~\E r \in Req : ChangePats(r)
      <4>1. settled' = settled
        BY <1>2, <3>2 DEF Next, vars, SignInCompare, ProfileLoad,
             ReplaceSession, EndResponse,
             RequestReset, ResetFind, ResetRefused, ChangeCompare, ChangeWrite,
             ChangeReplace, ChangeSessions, ChangeLinks, CreatePatLoad,
             CreatePatInsert, EndSession, RevokePat, Fail, Abort
      <4>2. QED
        BY <2>1, <2>2, <2>3, <4>1
    <3>3. QED
      BY <3>1, <3>2
  <2>6. ASSUME NEW q \in Req, reqs'[q].step \in Revoking PROVE Passed(reqs[q].version)'
    <3>1. CASE ChangeSessions(q)
      BY <3>1, ChangeOvertakes
    <3>2. CASE ~ChangeSessions(q)
      <4>1. reqs[q].step \in Revoking /\ reqs'[q].version = reqs[q].version
        BY <2>6, <3>2, RevokingStep
      <4>2. PICK t \in Nat : t = reqs[q].version
        BY DEF TypeOK, Local
      <4>3. t <= password /\ Passed(t)
        BY <4>1, <4>2 DEF PassedInv, BoundInv, Making, Written, Revoking
      <4>4. Passed(t)'
        BY <4>3, PassedStep
      <4>5. QED
        BY <4>1, <4>2, <4>4 DEF Passed, SessionsPassed, RequestsPassed
    <3>3. QED
      BY <3>1, <3>2
  <2>7. QED
    BY <2>5, <2>6 DEF PassedInv
<1>3. QED
  BY <1>1, <1>2

LEMMA Invariant == Spec => []IInv
<1> USE DEF IInv
<1>1. Init => IInv
  <2> SUFFICES ASSUME Init PROVE IInv
    OBVIOUS
  <2>1. TypeOK
    BY IdleLocal DEF Init, TypeOK, NoCreds
  <2>2. \A r \in Req : reqs[r].step = "idle"
    BY DEF Init, Idle
  <2>3. LinksInv /\ BoundInv
    BY <2>2 DEF Init, LinksInv, BoundInv, NoCreds, Making, Written
  <2>4. OwnInv
    BY <2>2 DEF OwnInv, Made
  <2>5. PassedInv
    BY <2>2 DEF Init, PassedInv, Passed, SessionsPassed, RequestsPassed,
                PatsPassed, NoCreds, Making, Written, Revoking
  <2>6. QED
    BY <2>1, <2>3, <2>4, <2>5
<1>2. IInv /\ [Next]_vars => IInv'
  BY TypeStep, LinksStep, BoundStep, OwnStep, PassedInvStep
<1>3. QED
  BY <1>1, <1>2, PTL DEF Spec

-----------------------------------------------------------------------------
(* The theorems                                                            *)

\* The rows, the requests and the history keep their types.
THEOREM TypeCorrect == Spec => []TypeOK
  BY Invariant, PTL DEF IInv

\* Only a request that was in flight while the account's credentials were
\* revoked leaves one under an older password, after a reset or a completed
\* change of the password, for any number of requests of each kind.
THEOREM RecoveryEndsTheOld == Spec => []SurvivorsWereInFlight
<1>1. IInv => SurvivorsWereInFlight
  BY DEF IInv, PassedInv, Passed, SessionsPassed, PatsPassed, SurvivorsWereInFlight
<1>2. QED
  BY <1>1, Invariant, PTL

\* No reset takes effect through a link that an earlier recovery or change of
\* the password killed, or through a used one.
THEOREM RecoveryCannotBeUndone == Spec => RecoveryIsFinal
<1>1. ASSUME IInv, [Next]_vars, NEW r \in Req, reqs[r].step = "reset_commit",
             reqs'[r].step = "idle", password' # password
      PROVE  reqs[r].issued = sealed
  <2>1. PICK q \in Req : ResetCommit(q) \/ ChangeWrite(q)
    BY <1>1 DEF Next, vars, SignInCompare, ProfileLoad,
             ReplaceSession, EndResponse,
         RequestReset, ResetFind, ResetRefused, ChangeCompare, ChangeReplace,
         ChangeSessions, ChangeLinks, ChangePats, CreatePatLoad,
         CreatePatInsert, EndSession, RevokePat, Fail, Abort
  <2>2. ~ChangeWrite(q)
    BY <1>1 DEF ChangeWrite, IInv, TypeOK, Local
  <2>3. q = r
    BY <1>1, <2>1, <2>2, ResetMoves DEF IInv
  <2>4. QED
    BY <1>1, <2>1, <2>2, <2>3 DEF ResetCommit, IInv, LinksInv
<1>2. IInv /\ [Next]_vars =>
        \A r \in Req :
          reqs[r].step = "reset_commit" /\ reqs'[r].step = "idle" /\ password' # password
            => reqs[r].issued = sealed
  BY <1>1
<1>3. QED
  BY <1>2, Invariant, PTL DEF Spec, RecoveryIsFinal
=============================================================================
