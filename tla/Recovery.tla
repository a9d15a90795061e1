------------------------------ MODULE Recovery ------------------------------
(***************************************************************************)
(* One account being recovered: its password, and what was minted under    *)
(* the passwords it had before.                                            *)
(*                                                                         *)
(* A password is known by its version, the number of times it was written. *)
(* A session or a personal access token is "under" the version its maker   *)
(* proved; "late" says that its maker was in flight while a statement that *)
(* revokes sessions or tokens ran.  A reset link is a row that one         *)
(* conditional update consumes.                                            *)
(*                                                                         *)
(* One action is one statement of the database, or one transaction, with   *)
(* the local steps of the request that issued it.                          *)
(***************************************************************************)
EXTENDS Naturals

CONSTANTS
  Sid,          \* rows of sessions; the id of a row nobody refers to is reused
  Pat,          \* rows of personal_access_tokens
  Link,         \* rows of password_reset_tokens
  Req,          \* requests in flight
  NoRow,        \* no such row; for a token, revoked, and for a link, used
  None,         \* no session or link held
  MaxVersion    \* bound of the number of passwords written

Cred == [under : Nat, late : BOOLEAN]

Step == {"idle", "replace", "reset_commit", "create_pat", "change_write",
         "change_replace", "change_sessions", "change_links", "change_pats",
         "ending"}

(* What the handler of a request holds: the session it came with or made,  *)
(* the version it proved or wrote, and its reset link with the number of   *)
(* the sealing it was issued after.                                        *)
Local == [step : Step, sid : Sid \cup {None}, version : Nat, late : BOOLEAN,
          link : Link \cup {None}, issued : Nat]

ASSUME RecoveryAssumption ==
  /\ NoRow \notin Nat \cup Cred
  /\ None \notin Sid \cup Link
  /\ MaxVersion \in Nat

VARIABLES
  password,   \* users.password_hash: its version
  sessions,   \* [Sid -> Cred \cup {NoRow}]
  pats,       \* [Pat -> Cred \cup {NoRow}]
  links,      \* [Link -> Nat \cup {NoRow}]: the sealing it was issued after
  reqs,       \* [Req -> Local]
  settled,    \* history: the last version whose revocations all ran
  sealed      \* history: how many times all links were killed

vars == <<password, sessions, pats, links, reqs, settled, sealed>>

-----------------------------------------------------------------------------

Idle == [step |-> "idle", sid |-> None, version |-> 0, late |-> FALSE,
         link |-> None, issued |-> 0]

Greater(a, b) == IF a >= b THEN a ELSE b

FreeSid(s) == sessions[s] = NoRow /\ \A r \in Req : reqs[r].sid # s

FreeLink(l) == links[l] = NoRow /\ \A r \in Req : reqs[r].link # l

NoCreds(S) == [c \in S |-> NoRow]

\* A revoking statement runs: every request but r was in flight, and r moves on.
Overtake(r, next) ==
  reqs' = [q \in Req |-> IF q = r THEN next
                         ELSE IF reqs[q].step = "idle" THEN reqs[q]
                         ELSE [reqs[q] EXCEPT !.late = TRUE]]

Init ==
  /\ password = 0
  /\ sessions = NoCreds(Sid)
  /\ pats = NoCreds(Pat)
  /\ links = [l \in Link |-> NoRow]
  /\ reqs = [r \in Req |-> Idle]
  /\ settled = 0
  /\ sealed = 0

-----------------------------------------------------------------------------
(* Signing in, and writing the profile                                     *)

\* sign_in_post(): the user is read and the password compared with its hash.
SignInCompare(r) ==
  /\ reqs[r].step = "idle"
  /\ reqs' = [reqs EXCEPT ![r].step = "replace", ![r].version = password]
  /\ UNCHANGED <<password, sessions, pats, links, settled, sealed>>

\* profile_post() with no password: the session is loaded, and the profile
\* written.
ProfileLoad(r, s) ==
  /\ reqs[r].step = "idle"
  /\ sessions[s] # NoRow
  /\ reqs' = [reqs EXCEPT ![r].step = "replace", ![r].sid = s,
                          ![r].version = sessions[s].under,
                          ![r].late = sessions[s].late]
  /\ UNCHANGED <<password, sessions, pats, links, settled, sealed>>

\* replace_session(), at the end of both: the row of the session the request
\* came with is dropped, if it is still there, and that of a new one written.
ReplaceSession(r, s) ==
  /\ reqs[r].step = "replace"
  /\ FreeSid(s)
  /\ sessions' = [c \in Sid |->
       IF c = s THEN [under |-> reqs[r].version, late |-> reqs[r].late]
       ELSE IF c = reqs[r].sid THEN NoRow ELSE sessions[c]]
  /\ reqs' = [reqs EXCEPT ![r].step = "ending", ![r].sid = s]
  /\ UNCHANGED <<password, pats, links, settled, sealed>>

\* The end of a response saves the session the request made once more, and
\* the save inserts the row when it is gone.
EndResponse(r) ==
  /\ reqs[r].step = "ending"
  /\ sessions' = IF sessions[reqs[r].sid] # NoRow THEN sessions
                 ELSE [sessions EXCEPT ![reqs[r].sid] =
                         [under |-> reqs[r].version, late |-> reqs[r].late]]
  /\ reqs' = [reqs EXCEPT ![r] = Idle]
  /\ UNCHANGED <<password, pats, links, settled, sealed>>

-----------------------------------------------------------------------------
(* Resetting the password                                                  *)

\* password_reset_request_post(): a link is mailed to a verified address.
RequestReset(l) ==
  /\ FreeLink(l)
  /\ links' = [links EXCEPT ![l] = sealed]
  /\ UNCHANGED <<password, sessions, pats, reqs, settled, sealed>>

\* password_reset_confirm_post(): the link is read, and found unused.
ResetFind(r, l) ==
  /\ reqs[r].step = "idle"
  /\ links[l] # NoRow
  /\ reqs' = [reqs EXCEPT ![r].step = "reset_commit", ![r].link = l,
                          ![r].issued = links[l]]
  /\ UNCHANGED <<password, sessions, pats, links, settled, sealed>>

\* Mutant of ResetCommit: the result of consuming the link is not looked at.
ResetCommitUnclaimed(r) ==
  /\ reqs[r].step = "reset_commit"
  /\ password < MaxVersion
  /\ password' = password + 1
  /\ links' = [l \in Link |-> NoRow]
  /\ sessions' = NoCreds(Sid)
  /\ pats' = NoCreds(Pat)
  /\ Overtake(r, Idle)
  /\ settled' = password + 1
  /\ sealed' = sealed + 1

\* Its transaction, the link consumed: one write settles everything.
ResetCommit(r) ==
  /\ reqs[r].step = "reset_commit"
  /\ links[reqs[r].link] # NoRow
  /\ password < MaxVersion
  /\ password' = password + 1
  /\ links' = [l \in Link |-> NoRow]
  /\ sessions' = NoCreds(Sid)
  /\ pats' = NoCreds(Pat)
  /\ Overtake(r, Idle)
  /\ settled' = password + 1
  /\ sealed' = sealed + 1

\* The link was consumed or killed since it was read.
ResetRefused(r) ==
  /\ reqs[r].step = "reset_commit"
  /\ links[reqs[r].link] = NoRow
  /\ reqs' = [reqs EXCEPT ![r] = Idle]
  /\ UNCHANGED <<password, sessions, pats, links, settled, sealed>>

-----------------------------------------------------------------------------
(* Changing the password from the profile                                  *)

\* change_password_post(): the user is read and the current password compared.
ChangeCompare(r, s) ==
  /\ reqs[r].step = "idle"
  /\ sessions[s] # NoRow
  /\ reqs' = [reqs EXCEPT ![r].step = "change_write", ![r].sid = s,
                          ![r].late = sessions[s].late]
  /\ UNCHANGED <<password, sessions, pats, links, settled, sealed>>

\* The new hash is written, whatever the password is by now.
ChangeWrite(r) ==
  /\ reqs[r].step = "change_write"
  /\ password < MaxVersion
  /\ password' = password + 1
  /\ reqs' = [reqs EXCEPT ![r].step = "change_replace", ![r].version = password + 1]
  /\ UNCHANGED <<sessions, pats, links, settled, sealed>>

\* complete_password_change(): replace_session drops the session's row and
\* writes that of a new one ...
ChangeReplace(r, s) ==
  /\ reqs[r].step = "change_replace"
  /\ FreeSid(s)
  /\ sessions' = [sessions EXCEPT
                    ![reqs[r].sid] = NoRow,
                    ![s] = [under |-> reqs[r].version, late |-> reqs[r].late]]
  /\ reqs' = [reqs EXCEPT ![r].step = "change_sessions", ![r].sid = s]
  /\ UNCHANGED <<password, pats, links, settled, sealed>>

\* ... the account's other sessions are deleted ...
ChangeSessions(r) ==
  /\ reqs[r].step = "change_sessions"
  /\ sessions' = [s \in Sid |-> IF s = reqs[r].sid THEN sessions[s] ELSE NoRow]
  /\ Overtake(r, [reqs[r] EXCEPT !.step = "change_links"])
  /\ UNCHANGED <<password, pats, links, settled, sealed>>

\* ... revoke_pending_tokens kills its links ...
ChangeLinks(r) ==
  /\ reqs[r].step = "change_links"
  /\ links' = [l \in Link |-> NoRow]
  /\ sealed' = sealed + 1
  /\ reqs' = [reqs EXCEPT ![r].step = "change_pats"]
  /\ UNCHANGED <<password, sessions, pats, settled>>

\* Mutant of ChangePats: the tokens are left alone.
ChangePatsKept(r) ==
  /\ reqs[r].step = "change_pats"
  /\ Overtake(r, [reqs[r] EXCEPT !.step = "ending"])
  /\ settled' = Greater(settled, reqs[r].version)
  /\ UNCHANGED <<password, sessions, pats, links, sealed>>

\* ... and its tokens are revoked.
ChangePats(r) ==
  /\ reqs[r].step = "change_pats"
  /\ pats' = NoCreds(Pat)
  /\ Overtake(r, [reqs[r] EXCEPT !.step = "ending"])
  /\ settled' = Greater(settled, reqs[r].version)
  /\ UNCHANGED <<password, sessions, links, sealed>>

-----------------------------------------------------------------------------
(* Personal access tokens, and the end of single credentials               *)

\* personal_access_tokens_post(): the session is loaded, the owner confirmed.
CreatePatLoad(r, s) ==
  /\ reqs[r].step = "idle"
  /\ sessions[s] # NoRow
  /\ reqs' = [reqs EXCEPT ![r].step = "create_pat", ![r].sid = s,
                          ![r].version = sessions[s].under,
                          ![r].late = sessions[s].late]
  /\ UNCHANGED <<password, sessions, pats, links, settled, sealed>>

\* The token is inserted, whatever became of the session by now.
CreatePatInsert(r, p) ==
  /\ reqs[r].step = "create_pat"
  /\ pats[p] = NoRow
  /\ pats' = [pats EXCEPT ![p] = [under |-> reqs[r].version, late |-> reqs[r].late]]
  /\ reqs' = [reqs EXCEPT ![r] = Idle]
  /\ UNCHANGED <<password, sessions, links, settled, sealed>>

\* A session is signed out of, or revoked from the profile.
EndSession(s) ==
  /\ sessions[s] # NoRow
  /\ sessions' = [sessions EXCEPT ![s] = NoRow]
  /\ UNCHANGED <<password, pats, links, reqs, settled, sealed>>

\* A token is revoked from the profile.
RevokePat(p) ==
  /\ pats[p] # NoRow
  /\ pats' = [pats EXCEPT ![p] = NoRow]
  /\ UNCHANGED <<password, sessions, links, reqs, settled, sealed>>

\* A statement fails, and the error handler ends the response.
Fail(r) ==
  /\ reqs[r].step \in {"change_sessions", "change_links", "change_pats"}
  /\ reqs' = [reqs EXCEPT ![r].step = "ending"]
  /\ UNCHANGED <<password, sessions, pats, links, settled, sealed>>

\* A request is refused, or the process dies under it.
Abort(r) ==
  /\ reqs[r].step # "idle"
  /\ reqs' = [reqs EXCEPT ![r] = Idle]
  /\ UNCHANGED <<password, sessions, pats, links, settled, sealed>>

Next ==
  \/ \E r \in Req : SignInCompare(r)
  \/ \E r \in Req, s \in Sid : ProfileLoad(r, s)
  \/ \E r \in Req, s \in Sid : ReplaceSession(r, s)
  \/ \E r \in Req : EndResponse(r)
  \/ \E l \in Link : RequestReset(l)
  \/ \E r \in Req, l \in Link : ResetFind(r, l)
  \/ \E r \in Req : ResetCommit(r)
  \/ \E r \in Req : ResetRefused(r)
  \/ \E r \in Req, s \in Sid : ChangeCompare(r, s)
  \/ \E r \in Req : ChangeWrite(r)
  \/ \E r \in Req, s \in Sid : ChangeReplace(r, s)
  \/ \E r \in Req : ChangeSessions(r)
  \/ \E r \in Req : ChangeLinks(r)
  \/ \E r \in Req : ChangePats(r)
  \/ \E r \in Req, s \in Sid : CreatePatLoad(r, s)
  \/ \E r \in Req, p \in Pat : CreatePatInsert(r, p)
  \/ \E s \in Sid : EndSession(s)
  \/ \E p \in Pat : RevokePat(p)
  \/ \E r \in Req : Fail(r)
  \/ \E r \in Req : Abort(r)

Spec == Init /\ [][Next]_vars

-----------------------------------------------------------------------------
(* Properties                                                              *)

\* The types of the rows, the requests and the history.
TypeOK ==
  /\ password \in Nat
  /\ sessions \in [Sid -> Cred \cup {NoRow}]
  /\ pats \in [Pat -> Cred \cup {NoRow}]
  /\ links \in [Link -> Nat \cup {NoRow}]
  /\ reqs \in [Req -> Local]
  /\ settled \in 0..password
  /\ sealed \in Nat

\* Whatever a reset or a completed change leaves behind under an older
\* password came from a request that was in flight while it revoked: neither
\* a session nor a token made under the old password otherwise survives it,
\* and none comes back (complete_password_change, password_reset_confirm_post).
SurvivorsWereInFlight ==
  /\ \A s \in Sid : sessions[s] # NoRow /\ sessions[s].under < settled => sessions[s].late
  /\ \A p \in Pat : pats[p] # NoRow /\ pats[p].under < settled => pats[p].late

\* A reset takes effect only through a link issued since the last time all
\* links were killed: a second link someone already holds cannot undo a
\* recovery, and one link is never used twice (password.js:326-327).
RecoveryIsFinal ==
  [][\A r \in Req :
       reqs[r].step = "reset_commit" /\ reqs'[r].step = "idle" /\ password' # password
         => reqs[r].issued = sealed]_vars
=============================================================================
