---------------------------- MODULE SessionStore ----------------------------
(***************************************************************************)
(* The sessions table and the requests that work on copies of its rows.    *)
(*                                                                         *)
(* express-session loads a row into req.session when a request starts and  *)
(* writes the copy back, or touches the row, when the response ends; the   *)
(* handler runs in between, and so do other requests, some of which delete *)
(* the very row.  helpers/SessionStore.js is the store behind it.          *)
(*                                                                         *)
(* One action is one statement of the database with the local steps of     *)
(* the request that issued it.                                             *)
(***************************************************************************)
EXTENDS Naturals

CONSTANTS
  Uid,                \* session ids; a generated id was never used before
  User,               \* accounts
  Anon,               \* the user_id of a session nobody has signed in to
  Req,                \* requests in flight; an ended one is reused
  NoRow, NoCopy,      \* no row in the table; no req.session
  MaxAge,             \* config.cookie.max_age_days, in ticks
  AnonymousMaxAge,    \* ANONYMOUS_MAX_AGE_MS, in ticks
  MaxTime             \* bound of the clock

Owner == User \cup {Anon}

Row == [user : Owner, created_at : Nat, expires_at : Nat]

(* req.session.  "fresh": generated by this request, so it carries no uid  *)
(* of a row; "dirty": the end of the response will save it.  "step" is     *)
(* "replacing" inside replace_session and "sent" once the headers of the   *)
(* response are out and the handler is done with the copy.                 *)
(* "since" and "max_age" are the cookie's: when its expiry was last        *)
(* computed and its originalMaxAge.                                        *)
Copy == [uid : Uid, fresh : BOOLEAN, dirty : BOOLEAN,
         step : {"handling", "replacing", "sent"}, user : Owner,
         created_at : Nat, since : Nat, max_age : Nat]

ASSUME SessionStoreAssumption ==
  /\ Anon \notin User
  /\ NoRow \notin Row \cup Owner
  /\ NoCopy \notin Copy
  /\ MaxAge \in Nat \ {0}
  /\ AnonymousMaxAge \in Nat \ {0}
  /\ MaxTime \in Nat

VARIABLES
  now,        \* the clock
  sessions,   \* the table: [Uid -> Row \cup {NoRow}]
  copies,     \* req.session of every request: [Req -> Copy \cup {NoCopy}]
  minted,     \* the ids generated so far
  delivered,  \* the ids some browser was sent in a cookie
  owner,      \* history: whose session an id was when its row was first written
  revoked,    \* history: ids whose row a revocation deleted
  settled     \* history: those whose own request had ended by then

vars == <<now, sessions, copies, minted, delivered, owner, revoked, settled>>

-----------------------------------------------------------------------------
(* Reading and writing rows                                                *)

Lesser(a, b) == IF a <= b THEN a ELSE b

\* get(): the row is served while neither its expiry nor its deadline passed.
Visible(u) ==
  /\ sessions[u] # NoRow
  /\ sessions[u].expires_at > now
  /\ sessions[u].created_at + MaxAge > now

\* get(): the copy's cookie expires at the deadline, its age is what is left.
LoadedCopy(u) ==
  [uid |-> u, fresh |-> FALSE, dirty |-> FALSE, step |-> "handling",
   user |-> sessions[u].user, created_at |-> sessions[u].created_at,
   since |-> now, max_age |-> (sessions[u].created_at + MaxAge) - now]

\* A session generated in the request has no created_at yet.
FreshCopy(u, x, dirty, step) ==
  [uid |-> u, fresh |-> TRUE, dirty |-> dirty, step |-> step,
   user |-> x, created_at |-> 0, since |-> now, max_age |-> MaxAge]

\* Mutant of RowExpiresAt: the deadline does not cap the cookie's expiry.
RowExpiresAtUncapped(c) ==
  LET sliding == now + MaxAge
  IN  IF c.user # Anon THEN sliding ELSE Lesser(sliding, now + AnonymousMaxAge)

\* row_expires_at(): the least of the cookie's expiry, the deadline, and for
\* an anonymous session a day from now.
RowExpiresAt(c) ==
  LET deadline == (IF c.fresh THEN now ELSE c.created_at) + MaxAge
      capped   == Lesser(c.since + c.max_age, deadline)
  IN  IF c.user # Anon THEN capped ELSE Lesser(capped, now + AnonymousMaxAge)

\* Mutant of SetRow: every save is an upsert (M-01).
SetRowUpserting(c) ==
  IF sessions[c.uid] # NoRow
  THEN [sessions EXCEPT ![c.uid].user = c.user, ![c.uid].expires_at = RowExpiresAt(c)]
  ELSE [sessions EXCEPT ![c.uid] =
          [user |-> c.user, created_at |-> now, expires_at |-> RowExpiresAt(c)]]

\* set(): a copy of a row only updates that row; a fresh one is upserted, and
\* the merge leaves created_at alone.
SetRow(c) ==
  IF sessions[c.uid] # NoRow
  THEN [sessions EXCEPT ![c.uid].user = c.user, ![c.uid].expires_at = RowExpiresAt(c)]
  ELSE IF c.fresh
       THEN [sessions EXCEPT ![c.uid] =
               [user |-> c.user, created_at |-> now, expires_at |-> RowExpiresAt(c)]]
       ELSE sessions

\* Mutant of TouchRow: a touch writes the row it does not find.
TouchRowUpserting(c) ==
  [sessions EXCEPT ![c.uid] =
     [user |-> c.user, created_at |-> c.created_at, expires_at |-> RowExpiresAt(c)]]

\* touch(): an update of the expiry alone.
TouchRow(c) ==
  IF sessions[c.uid] # NoRow
  THEN [sessions EXCEPT ![c.uid].expires_at = RowExpiresAt(c)]
  ELSE sessions

Without(gone) == [u \in Uid |-> IF u \in gone THEN NoRow ELSE sessions[u]]

Stored == {u \in Uid : sessions[u] # NoRow}

RowsOf(x) == {u \in Stored : sessions[u].user = x}

-----------------------------------------------------------------------------
(* History                                                                 *)

\* Some request that generated u is still running.
Open(u) == \E r \in Req : copies[r] # NoCopy /\ copies[r].fresh /\ copies[r].uid = u

RecordOwner(c) ==
  owner' = IF sessions[c.uid] = NoRow /\ c.fresh /\ owner[c.uid] = NoRow
           THEN [owner EXCEPT ![c.uid] = c.user]
           ELSE owner

RecordRevoked(gone) ==
  /\ revoked' = revoked \cup gone
  /\ settled' = settled \cup {u \in gone : ~Open(u)'}

-----------------------------------------------------------------------------
(* Requests                                                                *)

Init ==
  /\ now = 0
  /\ sessions = [u \in Uid |-> NoRow]
  /\ copies = [r \in Req |-> NoCopy]
  /\ minted = {}
  /\ delivered = {}
  /\ owner = [u \in Uid |-> NoRow]
  /\ revoked = {}
  /\ settled = {}

\* The handler of r runs, and is not inside replace_session.
Handling(r) == copies[r] # NoCopy /\ copies[r].step = "handling"

\* A request comes in with the cookie of a session the store still serves.
Load(r, u) ==
  /\ copies[r] = NoCopy
  /\ u \in delivered
  /\ Visible(u)
  /\ copies' = [copies EXCEPT ![r] = LoadedCopy(u)]
  /\ UNCHANGED <<now, sessions, minted, delivered, owner, revoked, settled>>

\* A request comes in without one.  Under /auth the session gets an ip and a
\* CSRF token, so it will be saved; a proxied request leaves it untouched.
Generate(r, u, under_auth) ==
  /\ copies[r] = NoCopy
  /\ u \notin minted
  /\ copies' = [copies EXCEPT ![r] = FreshCopy(u, Anon, under_auth, "handling")]
  /\ minted' = minted \cup {u}
  /\ UNCHANGED <<now, sessions, delivered, owner, revoked, settled>>

\* The handler writes a field of req.session: an error, an OAuth state, ...
Modify(r) ==
  /\ Handling(r)
  /\ ~copies[r].dirty
  /\ copies' = [copies EXCEPT ![r].dirty = TRUE]
  /\ UNCHANGED <<now, sessions, minted, delivered, owner, revoked, settled>>

\* save_session(), by a handler or by the error handler.  A loaded session is
\* then clean; a fresh one still differs from the one the request began with.
Save(r) ==
  /\ Handling(r)
  /\ copies[r].dirty
  /\ sessions' = SetRow(copies[r])
  /\ RecordOwner(copies[r])
  /\ copies' = [copies EXCEPT ![r].dirty = copies[r].fresh]
  /\ UNCHANGED <<now, minted, delivered, revoked, settled>>

\* Mutant of ReplaceSession: signing in keeps the session's id.
ReplaceSessionInPlace(r, u, x) ==
  /\ Handling(r)
  /\ copies' = [copies EXCEPT ![r].user = x, ![r].dirty = TRUE]
  /\ UNCHANGED <<now, sessions, minted, delivered, owner, revoked, settled>>

\* replace_session(): the old row goes, a new id comes, signed in as x ...
ReplaceSession(r, u, x) ==
  /\ Handling(r)
  /\ u \notin minted
  /\ sessions' = Without({copies[r].uid})
  /\ copies' = [copies EXCEPT ![r] = FreshCopy(u, x, TRUE, "replacing")]
  /\ minted' = minted \cup {u}
  /\ RecordRevoked({copies[r].uid} \cap Stored)
  /\ UNCHANGED <<now, delivered, owner>>

\* ... and, after the account's addresses were read, its row is written.
SaveReplaced(r) ==
  /\ copies[r] # NoCopy
  /\ copies[r].step = "replacing"
  /\ sessions' = SetRow(copies[r])
  /\ RecordOwner(copies[r])
  /\ copies' = [copies EXCEPT ![r].step = "handling"]
  /\ UNCHANGED <<now, minted, delivered, revoked, settled>>

\* destroy_session(): sign-out, and the end of a password reset.
DestroySession(r) ==
  /\ Handling(r)
  /\ sessions' = Without({copies[r].uid})
  /\ copies' = [copies EXCEPT ![r] = NoCopy]
  /\ RecordRevoked({copies[r].uid} \cap Stored)
  /\ UNCHANGED <<now, minted, delivered, owner>>

\* The headers go out: the cookie is dated anew, and a session that is new
\* to the browser and will be saved is sent to it.
SendHeaders(r) ==
  /\ Handling(r)
  /\ copies' = [copies EXCEPT ![r].step = "sent", ![r].since = now]
  /\ delivered' = IF copies[r].fresh /\ copies[r].dirty
                  THEN delivered \cup {copies[r].uid} ELSE delivered
  /\ UNCHANGED <<now, sessions, minted, owner, revoked, settled>>

\* The end of the response: a dirty session is saved and a clean one touched;
\* a fresh and clean one is never stored.
EndResponse(r) ==
  /\ copies[r] # NoCopy
  /\ copies[r].step = "sent"
  /\ IF copies[r].dirty
     THEN /\ sessions' = SetRow(copies[r])
          /\ RecordOwner(copies[r])
     ELSE /\ sessions' = IF copies[r].fresh THEN sessions ELSE TouchRow(copies[r])
          /\ UNCHANGED owner
  /\ copies' = [copies EXCEPT ![r] = NoCopy]
  /\ UNCHANGED <<now, minted, delivered, revoked, settled>>

-----------------------------------------------------------------------------
(* Revocations, all of them one delete statement                           *)

Revoke(gone) ==
  /\ gone # {}
  /\ sessions' = Without(gone)
  /\ UNCHANGED <<now, copies, minted, delivered, owner>>
  /\ RecordRevoked(gone)

\* POST /auth/sessions/revoke: another session of the same account.
RevokeOne(r, u) ==
  /\ Handling(r)
  /\ copies[r].user # Anon
  /\ u # copies[r].uid
  /\ u \in RowsOf(copies[r].user)
  /\ Revoke({u})

\* POST /auth/sessions/revoke-all, and the end of a password change.
RevokeOthers(r) ==
  /\ Handling(r)
  /\ copies[r].user # Anon
  /\ Revoke(RowsOf(copies[r].user) \ {copies[r].uid})

\* A password reset, the handover of an account and its removal.
RevokeUser(x) == Revoke(RowsOf(x))

Tick ==
  /\ now < MaxTime
  /\ now' = now + 1
  /\ UNCHANGED <<sessions, copies, minted, delivered, owner, revoked, settled>>

Next ==
  \/ \E r \in Req, u \in Uid : Load(r, u)
  \/ \E r \in Req, u \in Uid, under_auth \in BOOLEAN : Generate(r, u, under_auth)
  \/ \E r \in Req : Modify(r)
  \/ \E r \in Req : Save(r)
  \/ \E r \in Req, u \in Uid, x \in User : ReplaceSession(r, u, x)
  \/ \E r \in Req : SaveReplaced(r)
  \/ \E r \in Req : DestroySession(r)
  \/ \E r \in Req : SendHeaders(r)
  \/ \E r \in Req : EndResponse(r)
  \/ \E r \in Req, u \in Uid : RevokeOne(r, u)
  \/ \E r \in Req : RevokeOthers(r)
  \/ \E x \in User : RevokeUser(x)
  \/ Tick

Spec == Init /\ [][Next]_vars

-----------------------------------------------------------------------------
(* Properties                                                              *)

\* The types of the table, the copies and the history.
TypeOK ==
  /\ now \in Nat
  /\ sessions \in [Uid -> Row \cup {NoRow}]
  /\ copies \in [Req -> Copy \cup {NoCopy}]
  /\ minted \in SUBSET Uid
  /\ delivered \in SUBSET Uid
  /\ owner \in [Uid -> Owner \cup {NoRow}]
  /\ revoked \in SUBSET Uid
  /\ settled \in SUBSET revoked

\* A session whose own request had ended when it was revoked never gets its
\* row back, whatever requests were still holding a copy of it (M-01).
RevokedStaysRevoked == \A u \in settled : sessions[u] = NoRow

\* A session never changes hands: signing in moves to an id that was never
\* handed out, so the id a visitor held before is not the one signed in.
OwnerNeverChanges ==
  \A u \in Uid : sessions[u] # NoRow => sessions[u].user = owner[u]

\* Once the request that made a session has ended, no use of it moves its
\* deadline, nor its expiry past the deadline (AW-29).
UseNeverExtends ==
  [][\A u \in Uid :
       /\ sessions[u] # NoRow /\ sessions[u].user # Anon /\ ~Open(u)
       /\ sessions'[u] # NoRow
       => /\ sessions'[u].created_at = sessions[u].created_at
          /\ \/ sessions'[u].expires_at <= sessions[u].expires_at
             \/ sessions'[u].expires_at <= sessions[u].created_at + MaxAge]_vars

\* The life of an id, as SessionLife tells it.
PhaseOf(u) ==
  IF u \notin minted THEN "unborn" ELSE IF Open(u) THEN "open" ELSE "settled"

Life == INSTANCE SessionLife WITH
          phase  <- [u \in Uid |-> PhaseOf(u)],
          stored <- Stored

\* The store implements SessionLife.
ImplementsLife == Life!Spec
=============================================================================
