----------------------------- MODULE Identities -----------------------------
(***************************************************************************)
(* The accounts and how each can be signed in to: addresses, a provider    *)
(* account, a username.                                                    *)
(*                                                                         *)
(* An address proves nothing while it is pending: it yields to whoever     *)
(* reads the mailbox (release_pending_email), or it hands the account to   *)
(* them (email_verify_open_post).  Accounts are made by a password, a      *)
(* magic link or a provider, and providers are connected and taken off.    *)
(*                                                                         *)
(* "era" counts the times an account was handed over.  A request carries   *)
(* the era of the session it came with, which a handover deletes; "late"   *)
(* says that it, or the way in it made, overlapped a handover.             *)
(*                                                                         *)
(* One action is one statement of the database, or one transaction, with   *)
(* the local steps of the request that issued it.                          *)
(***************************************************************************)
EXTENDS Naturals, FiniteSets

CONSTANTS
  User,      \* ids of users
  Ident,     \* rows of user_identities; an id nobody holds is reused
  Address,   \* normalized addresses
  Sub,       \* accounts at the provider
  Link,      \* rows of email_verify_tokens
  Req,       \* requests in flight
  NoRow,     \* no such row; for a link, used, expired or deleted
  None,      \* nothing held
  AllowUsername,  \* config.flows.password.allow_username
  MaxEra     \* bound of the handovers of an account

Row == [value : Address \cup Sub, user : User, verified : BOOLEAN,
        primary : BOOLEAN, era : Nat, late : BOOLEAN]

LinkRow == [user : User, addr : Address]

Step == {"idle", "release", "release_delete", "sign_up", "token", "add",
         "verify", "handover", "magic", "magic_insert", "oauth", "connect",
         "connect_email", "connect_verify", "assign", "assign_write",
         "disconnect", "remove"}

(* "next": the step after an address was released.  "holder" is the account*)
(* the released address was read on, "proof" whether its mailbox was read. *)
Local == [step : Step, next : Step, user : User \cup {None}, era : Nat,
          addr : Address \cup {None}, sub : Sub \cup {None}, proof : BOOLEAN,
          ident : Ident \cup {None}, holder : User \cup {None},
          link : Link \cup {None}, late : BOOLEAN]

ASSUME IdentitiesAssumption ==
  /\ NoRow \notin Row \cup LinkRow
  /\ None \notin User \cup Ident \cup Address \cup Sub \cup Link
  /\ Address \cap Sub = {}
  /\ AllowUsername \in BOOLEAN
  /\ MaxEra \in Nat

VARIABLES
  users,    \* the accounts there are
  named,    \* those with a username
  idents,   \* [Ident -> Row \cup {NoRow}]
  links,    \* [Link -> LinkRow \cup {NoRow}]
  reqs,     \* [Req -> Local]
  era,      \* history: [User -> Nat]
  failed    \* history: accounts a request failed on before it set the primary

vars == <<users, named, idents, links, reqs, era, failed>>

-----------------------------------------------------------------------------
(* Reading and writing rows                                                *)

Idle == [step |-> "idle", next |-> "idle", user |-> None, era |-> 0,
         addr |-> None, sub |-> None, proof |-> FALSE, ident |-> None,
         holder |-> None, link |-> None, late |-> FALSE]

Rows == {i \in Ident : idents[i] # NoRow}

At(v) == {i \in Rows : idents[i].value = v}

RowsOf(u) == {i \in Rows : idents[i].user = u}

EmailsOf(u) == {i \in RowsOf(u) : idents[i].value \in Address}

\* The rows email_remove_post() and disconnect_post() count.
Ways(u) == Cardinality(RowsOf(u)) + (IF u \in named THEN 1 ELSE 0)

\* has_other_way_in(): a provider, or another confirmed address.
OtherWay(u, a) == \E i \in RowsOf(u) : idents[i].verified /\ idents[i].value # a

FreeIdent(i) == idents[i] = NoRow /\ \A r \in Req : reqs[r].ident # i

FreeLink(l) == links[l] = NoRow /\ \A r \in Req : reqs[r].link # l

InHandover(u) == \E r \in Req : reqs[r].step = "handover" /\ reqs[r].user = u

\* A row that r inserts for u.
NewRow(r, u, v, verified) ==
  [value |-> v, user |-> u, verified |-> verified, primary |-> FALSE,
   era |-> reqs[r].era, late |-> reqs[r].late \/ InHandover(u)]

\* The unique indexes: on the value, the provider and the primary of a user.
Admitted(table) ==
  \A i, j \in Ident :
    i # j /\ table[i] # NoRow /\ table[j] # NoRow =>
      /\ table[i].value # table[j].value
      /\ table[i].user = table[j].user =>
           /\ ~(table[i].value \in Sub /\ table[j].value \in Sub)
           /\ ~(table[i].primary /\ table[j].primary)

\* Address a of u is confirmed, if it is there.
Confirmed(table, u, a, when, late) ==
  [i \in Ident |->
     IF table[i] # NoRow /\ table[i].user = u /\ table[i].value = a /\ ~table[i].verified
     THEN [table[i] EXCEPT !.verified = TRUE, !.era = when, !.late = late]
     ELSE table[i]]

\* assign_primary_email() in a transaction: the oldest verified address (any,
\* ids are not ordered here), unless there is a primary.
Assigned(table, u) ==
  LET emails == {i \in Ident : /\ table[i] # NoRow /\ table[i].user = u
                               /\ table[i].value \in Address /\ table[i].verified}
  IN  IF emails = {} \/ \E i \in emails : table[i].primary THEN {table}
      ELSE {[table EXCEPT ![i].primary = TRUE] : i \in emails}

\* The links of u, to one address or to any, are deleted or used up.
LinksWithout(u, addrs) ==
  [l \in Link |-> IF links[l] # NoRow /\ links[l].user = u /\ links[l].addr \in addrs
                  THEN NoRow ELSE links[l]]

\* r goes on to a step, and lets go of what it read about an address released.
GoesOn(r, step) ==
  IF step = "idle" THEN Idle
  ELSE [reqs[r] EXCEPT !.step = step, !.next = "idle", !.ident = None, !.holder = None]

Moves(r, step) == reqs' = [reqs EXCEPT ![r] = GoesOn(r, step)]

\* A request comes in with a session of u.
SignedIn(u, step) == [Idle EXCEPT !.step = step, !.user = u, !.era = era[u]]

Comes(r, local) == reqs[r].step = "idle" /\ reqs' = [reqs EXCEPT ![r] = local]

Init ==
  /\ users = {}
  /\ named = {}
  /\ idents = [i \in Ident |-> NoRow]
  /\ links = [l \in Link |-> NoRow]
  /\ reqs = [r \in Req |-> Idle]
  /\ era = [u \in User |-> 0]
  /\ failed = {}

-----------------------------------------------------------------------------
(* A pending address yields                                                *)

\* is_stale(), once the confirmation window has passed: no link is open.
Stale(i) ==
  \A l \in Link : links[l] # NoRow =>
    links[l].user # idents[i].user \/ links[l].addr # idents[i].value

\* The pending row of another account, and whether a proof takes it.
Claimed(r) ==
  {i \in At(reqs[r].addr) : idents[i].user # reqs[r].user /\ ~idents[i].verified}

Proven(r, i) == reqs[r].proof /\ OtherWay(idents[i].user, idents[i].value)

\* release_pending_email(): its reads; the address is another's, and yields ...
ReleaseFind(r, i) ==
  /\ reqs[r].step = "release"
  /\ i \in Claimed(r)
  /\ Stale(i) \/ Proven(r, i)
  /\ reqs' = [reqs EXCEPT ![r].step = "release_delete", ![r].ident = i,
                          ![r].holder = idents[i].user]
  /\ UNCHANGED <<users, named, idents, links, era, failed>>

\* ... or there is none, or it stays: its window has not passed yet.
ReleaseNone(r) ==
  /\ reqs[r].step = "release"
  /\ \A i \in Claimed(r) : ~Proven(r, i)
  /\ Moves(r, reqs[r].next)
  /\ UNCHANGED <<users, named, idents, links, era, failed>>

\* Mutant of ReleaseDelete: the row is deleted whatever it is by now.
ReleaseDeleteAny(r) ==
  /\ reqs[r].step = "release_delete"
  /\ idents' = [idents EXCEPT ![reqs[r].ident] = NoRow]
  /\ links' = LinksWithout(reqs[r].holder, {reqs[r].addr})
  /\ Moves(r, reqs[r].next)
  /\ UNCHANGED <<users, named, era, failed>>

\* Its transaction: the row goes if it is still pending, and its links do.
ReleaseDelete(r) ==
  /\ reqs[r].step = "release_delete"
  /\ idents' = [i \in Ident |->
       IF i = reqs[r].ident /\ i \in Rows /\ ~idents[i].verified THEN NoRow ELSE idents[i]]
  /\ links' = LinksWithout(reqs[r].holder, {reqs[r].addr})
  /\ Moves(r, reqs[r].next)
  /\ UNCHANGED <<users, named, era, failed>>

-----------------------------------------------------------------------------
(* Accounts with a password, and their pending address                     *)

\* sign_up_post(): a pending address is asked to yield.
SignUp(r, a) ==
  /\ Comes(r, [Idle EXCEPT !.step = "release", !.next = "sign_up", !.addr = a])
  /\ UNCHANGED <<users, named, idents, links, era, failed>>

\* Its transaction: the account, the address and maybe a username.
SignUpInsert(r, u, i, with_name) ==
  /\ reqs[r].step = "sign_up"
  /\ with_name => AllowUsername
  /\ u \notin users
  /\ FreeIdent(i)
  /\ idents' = [idents EXCEPT ![i] = NewRow(r, u, reqs[r].addr, FALSE)]
  /\ Admitted(idents')
  /\ users' = users \cup {u}
  /\ named' = IF with_name THEN named \cup {u} ELSE named
  /\ reqs' = [reqs EXCEPT ![r].step = "token", ![r].user = u]
  /\ UNCHANGED <<links, era, failed>>

\* email_add_post(): the account has no address.
EmailAdd(r, u, a) ==
  /\ u \in users /\ EmailsOf(u) = {}
  /\ Comes(r, [SignedIn(u, "release") EXCEPT !.next = "add", !.addr = a])
  /\ UNCHANGED <<users, named, idents, links, era, failed>>

\* The address is inserted, pending.
EmailAddInsert(r, i) ==
  /\ reqs[r].step = "add"
  /\ FreeIdent(i)
  /\ idents' = [idents EXCEPT ![i] = NewRow(r, reqs[r].user, reqs[r].addr, FALSE)]
  /\ Admitted(idents')
  /\ Moves(r, "token")
  /\ UNCHANGED <<users, named, links, era, failed>>

\* email_verify_request_post(): another link for the pending address.
Resend(r, u, i) ==
  /\ i \in EmailsOf(u) /\ ~idents[i].verified
  /\ Comes(r, [SignedIn(u, "token") EXCEPT !.addr = idents[i].value])
  /\ UNCHANGED <<users, named, idents, links, era, failed>>

\* create_email_verify_token(): the link is inserted, and mailed.
TokenInsert(r, l) ==
  /\ reqs[r].step = "token"
  /\ FreeLink(l)
  /\ links' = [links EXCEPT ![l] = [user |-> reqs[r].user, addr |-> reqs[r].addr]]
  /\ Moves(r, "idle")
  /\ UNCHANGED <<users, named, idents, era, failed>>

-----------------------------------------------------------------------------
(* The link of a pending address                                           *)

\* email_verify_open_post() in a browser signed in to the account.
VerifyOpen(r, l) ==
  /\ links[l] # NoRow
  /\ Comes(r, [SignedIn(links[l].user, "verify") EXCEPT
                 !.addr = links[l].addr, !.link = l])
  /\ UNCHANGED <<users, named, idents, links, era, failed>>

\* Its transaction: the link consumed, the address confirmed.
VerifyCommit(r) ==
  /\ reqs[r].step = "verify"
  /\ links[reqs[r].link] # NoRow
  /\ links' = [links EXCEPT ![reqs[r].link] = NoRow]
  /\ idents' \in Assigned(
       Confirmed(idents, reqs[r].user, reqs[r].addr, reqs[r].era,
                 reqs[r].late \/ InHandover(reqs[r].user)),
       reqs[r].user)
  /\ Moves(r, "idle")
  /\ UNCHANGED <<users, named, era, failed>>

\* Mutant of HandoverOpen: nobody asks whether the account has another way in.
HandoverOpenAny(r, l) ==
  /\ links[l] # NoRow
  /\ Comes(r, [Idle EXCEPT !.step = "handover", !.user = links[l].user,
                           !.addr = links[l].addr, !.link = l])
  /\ UNCHANGED <<users, named, idents, links, era, failed>>

\* email_verify_open_post() elsewhere: the account has no other way in.
HandoverOpen(r, l) ==
  /\ links[l] # NoRow
  /\ ~OtherWay(links[l].user, links[l].addr)
  /\ Comes(r, [Idle EXCEPT !.step = "handover", !.user = links[l].user,
                           !.addr = links[l].addr, !.link = l])
  /\ UNCHANGED <<users, named, idents, links, era, failed>>

\* Its transaction: the address is confirmed, and sessions, links, tokens and
\* the password of the account go.  Its other requests were in flight.
HandoverCommit(r) ==
  LET u == reqs[r].user
  IN  /\ reqs[r].step = "handover"
      /\ links[reqs[r].link] # NoRow
      /\ era[u] < MaxEra
      /\ era' = [era EXCEPT ![u] = @ + 1]
      /\ idents' \in Assigned(
           [i \in Ident |->
              IF i \in RowsOf(u) /\ idents[i].value = reqs[r].addr
              THEN [idents[i] EXCEPT !.verified = TRUE, !.era = era[u] + 1, !.late = FALSE]
              ELSE idents[i]], u)
      /\ links' = LinksWithout(u, Address)
      /\ reqs' = [q \in Req |-> IF q = r THEN Idle
                                ELSE IF reqs[q].user = u
                                THEN [reqs[q] EXCEPT !.late = TRUE] ELSE reqs[q]]
      /\ UNCHANGED <<users, named, failed>>

\* "Not my account": the account has another way in; the link is consumed.
NotMine(r, l) ==
  /\ links[l] # NoRow
  /\ OtherWay(links[l].user, links[l].addr)
  /\ links' = [links EXCEPT ![l] = NoRow]
  /\ Comes(r, [Idle EXCEPT !.step = "release", !.addr = links[l].addr, !.proof = TRUE])
  /\ UNCHANGED <<users, named, idents, era, failed>>

-----------------------------------------------------------------------------
(* Magic links                                                             *)

\* magic_link_open_post(), magic_link_confirm_post(): the link was consumed.
MagicOpen(r, a) ==
  /\ Comes(r, [Idle EXCEPT !.step = "release", !.next = "magic", !.addr = a,
                           !.proof = TRUE])
  /\ UNCHANGED <<users, named, idents, links, era, failed>>

\* The address is somebody's: a sign-in, or a refusal.
MagicFound(r) ==
  /\ reqs[r].step = "magic"
  /\ At(reqs[r].addr) # {}
  /\ Moves(r, "idle")
  /\ UNCHANGED <<users, named, idents, links, era, failed>>

\* It is nobody's: an account is made ...
MagicSignUp(r, u) ==
  /\ reqs[r].step = "magic"
  /\ At(reqs[r].addr) = {}
  /\ u \notin users
  /\ users' = users \cup {u}
  /\ reqs' = [reqs EXCEPT ![r].step = "magic_insert", ![r].user = u]
  /\ UNCHANGED <<named, idents, links, era, failed>>

\* ... and its address inserted, confirmed.
MagicInsert(r, i) ==
  /\ reqs[r].step = "magic_insert"
  /\ FreeIdent(i)
  /\ idents' = [idents EXCEPT ![i] = NewRow(r, reqs[r].user, reqs[r].addr, TRUE)]
  /\ Admitted(idents')
  /\ Moves(r, "assign")
  /\ UNCHANGED <<users, named, links, era, failed>>

-----------------------------------------------------------------------------
(* Providers                                                               *)

\* callback_get(), to sign in with an account that is nobody's.  "vouches":
\* the provider verified the address it returns.
OAuthLogin(r, g, a, vouches) ==
  /\ At(g) = {}
  /\ Comes(r, [Idle EXCEPT !.step = "release", !.next = "oauth", !.addr = a,
                           !.sub = g, !.proof = vouches])
  /\ UNCHANGED <<users, named, idents, links, era, failed>>

\* Its transaction: an account, the provider, and the address unless it is
\* somebody's, pending if the provider does not vouch for it.
OAuthSignUp(r, u, i, j) ==
  LET vouches == reqs[r].proof
      taken == At(reqs[r].addr) # {}
  IN  /\ reqs[r].step = "oauth"
      /\ u \notin users
      /\ FreeIdent(i) /\ FreeIdent(j) /\ i # j
      /\ idents' = [k \in Ident |->
           IF k = i THEN NewRow(r, u, reqs[r].sub, TRUE)
           ELSE IF k = j /\ ~taken
           THEN [NewRow(r, u, reqs[r].addr, vouches) EXCEPT !.primary = vouches]
           ELSE idents[k]]
      /\ Admitted(idents')
      /\ users' = users \cup {u}
      /\ reqs' = [reqs EXCEPT ![r] =
           IF taken \/ vouches THEN Idle
           ELSE [Idle EXCEPT !.step = "token", !.user = u, !.addr = reqs[r].addr]]
      /\ UNCHANGED <<named, links, era, failed>>

\* callback_get(), to connect: the owner is confirmed, neither the account has
\* a provider nor the provider an account.  a: the address it vouches for.
Connect(r, u, g, a) ==
  /\ u \in users
  /\ At(g) = {}
  /\ \A i \in RowsOf(u) : idents[i].value \notin Sub
  /\ Comes(r, [SignedIn(u, "connect") EXCEPT !.sub = g, !.addr = a])
  /\ UNCHANGED <<users, named, idents, links, era, failed>>

\* The provider is inserted.
ConnectInsert(r, i) ==
  /\ reqs[r].step = "connect"
  /\ FreeIdent(i)
  /\ idents' = [idents EXCEPT ![i] = NewRow(r, reqs[r].user, reqs[r].sub, TRUE)]
  /\ Admitted(idents')
  /\ reqs' = [reqs EXCEPT ![r] =
       IF reqs[r].addr = None THEN Idle
       ELSE [@ EXCEPT !.step = "release", !.next = "connect_email", !.sub = None,
                      !.proof = TRUE]]
  /\ UNCHANGED <<users, named, links, era, failed>>

\* Mutant of ConnectEmail: the index on the address is not there.
ConnectEmailTaken(r, i) ==
  /\ reqs[r].step = "connect_email"
  /\ FreeIdent(i)
  /\ idents' = [idents EXCEPT ![i] = NewRow(r, reqs[r].user, reqs[r].addr, TRUE)]
  /\ Moves(r, "connect_verify")
  /\ UNCHANGED <<users, named, links, era, failed>>

\* The address is inserted, confirmed, unless it is somebody's.
ConnectEmail(r, i) ==
  /\ reqs[r].step = "connect_email"
  /\ IF At(reqs[r].addr) = {}
     THEN /\ FreeIdent(i)
          /\ idents' = [idents EXCEPT ![i] = NewRow(r, reqs[r].user, reqs[r].addr, TRUE)]
     ELSE UNCHANGED idents
  /\ Moves(r, "connect_verify")
  /\ UNCHANGED <<users, named, links, era, failed>>

\* Mutant of ConnectVerify: no primary is assigned.
ConnectVerifyOnly(r) ==
  /\ reqs[r].step = "connect_verify"
  /\ idents' = Confirmed(idents, reqs[r].user, reqs[r].addr, reqs[r].era,
                         reqs[r].late \/ InHandover(reqs[r].user))
  /\ Moves(r, "idle")
  /\ UNCHANGED <<users, named, links, era, failed>>

\* Pending on this very account, it is confirmed.
ConnectVerify(r) ==
  /\ reqs[r].step = "connect_verify"
  /\ idents' = Confirmed(idents, reqs[r].user, reqs[r].addr, reqs[r].era,
                         reqs[r].late \/ InHandover(reqs[r].user))
  /\ Moves(r, "assign")
  /\ UNCHANGED <<users, named, links, era, failed>>

\* assign_primary_email() outside a transaction: an address is read ...
AssignRead(r, i) ==
  /\ reqs[r].step = "assign"
  /\ ~\E j \in RowsOf(reqs[r].user) : idents[j].primary
  /\ i \in EmailsOf(reqs[r].user) /\ idents[i].verified
  /\ reqs' = [reqs EXCEPT ![r].step = "assign_write", ![r].ident = i]
  /\ UNCHANGED <<users, named, idents, links, era, failed>>

\* ... or none: there is a primary, or no verified address ...
AssignNone(r) ==
  /\ reqs[r].step = "assign"
  /\ \/ \E j \in RowsOf(reqs[r].user) : idents[j].primary
     \/ ~\E i \in EmailsOf(reqs[r].user) : idents[i].verified
  /\ Moves(r, "idle")
  /\ UNCHANGED <<users, named, idents, links, era, failed>>

\* ... and it becomes the primary, if its row is still there and the index
\* lets it.
AssignWrite(r) ==
  /\ reqs[r].step = "assign_write"
  /\ idents' = [i \in Ident |-> IF i = reqs[r].ident /\ i \in Rows
                                THEN [idents[i] EXCEPT !.primary = TRUE] ELSE idents[i]]
  /\ Admitted(idents')
  /\ Moves(r, "idle")
  /\ UNCHANGED <<users, named, links, era, failed>>

-----------------------------------------------------------------------------
(* Taking a way in off an account                                          *)

\* disconnect_post(): the provider is not the last row of the account ...
Disconnect(r, u, i) ==
  /\ i \in RowsOf(u) /\ idents[i].value \in Sub
  /\ Ways(u) > 1
  /\ Comes(r, [SignedIn(u, "disconnect") EXCEPT !.ident = i])
  /\ UNCHANGED <<users, named, idents, links, era, failed>>

\* ... and is deleted, the owner confirmed.
DisconnectDelete(r) ==
  /\ reqs[r].step = "disconnect"
  /\ idents' = [idents EXCEPT ![reqs[r].ident] = NoRow]
  /\ Moves(r, "idle")
  /\ UNCHANGED <<users, named, links, era, failed>>

\* email_remove_post(): the address is not the last row of the account ...
Remove(r, u, i) ==
  /\ i \in EmailsOf(u)
  /\ Ways(u) > 1
  /\ Comes(r, [SignedIn(u, "remove") EXCEPT !.ident = i])
  /\ UNCHANGED <<users, named, idents, links, era, failed>>

\* ... and its transaction deletes it with the links of the account.
RemoveCommit(r) ==
  /\ reqs[r].step = "remove"
  /\ idents' \in Assigned([idents EXCEPT ![reqs[r].ident] = NoRow], reqs[r].user)
  /\ links' = LinksWithout(reqs[r].user, Address)
  /\ Moves(r, "idle")
  /\ UNCHANGED <<users, named, era, failed>>

-----------------------------------------------------------------------------
(* Expiry and failures                                                     *)

\* A link expires.
ExpireLink(l) ==
  /\ links[l] # NoRow
  /\ links' = [links EXCEPT ![l] = NoRow]
  /\ UNCHANGED <<users, named, idents, reqs, era, failed>>

\* A request is refused, its transaction rolled back, or the process dies.
Abort(r) ==
  /\ reqs[r].step # "idle"
  /\ Moves(r, "idle")
  /\ failed' = IF reqs[r].step \in {"connect_verify", "assign", "assign_write"}
               THEN failed \cup {reqs[r].user} ELSE failed
  /\ UNCHANGED <<users, named, idents, links, era>>

Next ==
  \/ \E r \in Req, i \in Ident : ReleaseFind(r, i)
  \/ \E r \in Req : ReleaseNone(r)
  \/ \E r \in Req : ReleaseDelete(r)
  \/ \E r \in Req, a \in Address : SignUp(r, a)
  \/ \E r \in Req, u \in User, i \in Ident, b \in BOOLEAN : SignUpInsert(r, u, i, b)
  \/ \E r \in Req, u \in User, a \in Address : EmailAdd(r, u, a)
  \/ \E r \in Req, i \in Ident : EmailAddInsert(r, i)
  \/ \E r \in Req, u \in User, i \in Ident : Resend(r, u, i)
  \/ \E r \in Req, l \in Link : TokenInsert(r, l)
  \/ \E r \in Req, l \in Link : VerifyOpen(r, l)
  \/ \E r \in Req : VerifyCommit(r)
  \/ \E r \in Req, l \in Link : HandoverOpen(r, l)
  \/ \E r \in Req : HandoverCommit(r)
  \/ \E r \in Req, l \in Link : NotMine(r, l)
  \/ \E r \in Req, a \in Address : MagicOpen(r, a)
  \/ \E r \in Req : MagicFound(r)
  \/ \E r \in Req, u \in User : MagicSignUp(r, u)
  \/ \E r \in Req, i \in Ident : MagicInsert(r, i)
  \/ \E r \in Req, g \in Sub, a \in Address, b \in BOOLEAN : OAuthLogin(r, g, a, b)
  \/ \E r \in Req, u \in User, i, j \in Ident : OAuthSignUp(r, u, i, j)
  \/ \E r \in Req, u \in User, g \in Sub, a \in Address \cup {None} : Connect(r, u, g, a)
  \/ \E r \in Req, i \in Ident : ConnectInsert(r, i)
  \/ \E r \in Req, i \in Ident : ConnectEmail(r, i)
  \/ \E r \in Req : ConnectVerify(r)
  \/ \E r \in Req, i \in Ident : AssignRead(r, i)
  \/ \E r \in Req : AssignNone(r)
  \/ \E r \in Req : AssignWrite(r)
  \/ \E r \in Req, u \in User, i \in Ident : Disconnect(r, u, i)
  \/ \E r \in Req : DisconnectDelete(r)
  \/ \E r \in Req, u \in User, i \in Ident : Remove(r, u, i)
  \/ \E r \in Req : RemoveCommit(r)
  \/ \E l \in Link : ExpireLink(l)
  \/ \E r \in Req : Abort(r)

Spec == Init /\ [][Next]_vars

-----------------------------------------------------------------------------
(* Properties                                                              *)

\* The types of the rows, the requests and the history; the rows pass the
\* unique indexes.
TypeOK ==
  /\ users \in SUBSET User
  /\ named \in SUBSET users
  /\ idents \in [Ident -> Row \cup {NoRow}]
  /\ links \in [Link -> LinkRow \cup {NoRow}]
  /\ reqs \in [Req -> Local]
  /\ era \in [User -> Nat]
  /\ failed \in SUBSET users
  /\ Admitted(idents)

\* "A confirmed address never yields" (release_pending_email.js:16): once
\* confirmed it leaves its account only by that account's own removal, however
\* late the release that found it pending.
ConfirmedNeverYields ==
  [][\A i \in Rows :
       idents[i].value \in Address /\ idents[i].verified /\ idents'[i] = NoRow
       => \E r \in Req : /\ reqs[r].step = "remove" /\ reqs'[r].step = "idle"
                         /\ reqs[r].user = idents[i].user]_vars

\* After a handover, a way into the account that is older is one made while
\* the handover was decided or took place: none it had before survives.
OlderWaysWereInFlight ==
  \A i \in Rows : idents[i].verified /\ idents[i].era < era[idents[i].user] => idents[i].late

\* An account with a confirmed address has a primary one, unless a request is
\* about to assign it, or one failed before it could (assign_primary_email).
PrimaryUnlessFailed ==
  \A u \in users \ failed :
    (\E i \in EmailsOf(u) : idents[i].verified) =>
      \/ \E i \in EmailsOf(u) : idents[i].primary
      \/ \E r \in Req : /\ reqs[r].user = u
                        /\ reqs[r].step \in {"connect_verify", "assign", "assign_write"}

\* src/src/routes/email_remove.js:49: "it is your only sign-in method": neither
\* a removal nor a disconnect leaves its account without any.
LastWayIsKept ==
  [][\A r \in Req, u \in User :
       /\ reqs[r].step \in {"disconnect", "remove"} /\ reqs'[r].step = "idle"
       /\ reqs[r].user = u /\ idents' # idents
       => Ways(u)' > 0]_vars

-----------------------------------------------------------------------------
(* Refinement                                                              *)

\* What signs in to an account, and the accounts that are taking some of it
\* off, as Ownership tells them.
Held ==
  {p \in (Address \cup Sub) \X User :
     \E i \in At(p[1]) : idents[i].user = p[2] /\ idents[i].verified}

Leaving ==
  {u \in User : \E r \in Req : reqs[r].user = u /\ reqs[r].step \in {"disconnect", "remove"}}

Owned == INSTANCE Ownership WITH
           Value <- Address \cup Sub, held <- Held, leaving <- Leaving

\* The tables implement Ownership: whatever was read of an address or of a
\* provider's account before, it comes to an account only while no other has
\* it confirmed, and leaves one only by a removal or a disconnect of its own.
ImplementsOwnership == Owned!Spec
=============================================================================
