----------------------------- MODULE EmailLinks -----------------------------
(***************************************************************************)
(* The e-mail addresses of one account, and the links mailed to them: to   *)
(* verify an address, to change it, to reset the password.                 *)
(*                                                                         *)
(* Every step that changes the addresses kills the links still out.  A     *)
(* handler reads in one statement what it acts on in a later one, and any  *)
(* other request may run in between.  "late" marks the requests, and the   *)
(* links they insert, that were in flight while links were killed.         *)
(*                                                                         *)
(* One action is one statement of the database, or one transaction, with   *)
(* the local steps of the request that issued it.                          *)
(***************************************************************************)
EXTENDS Naturals

CONSTANTS
  Ident,       \* rows of user_identities; an id nobody holds is reused
  Address,     \* normalized addresses
  Link,        \* rows of the three token tables
  Req,         \* requests in flight
  NoRow,       \* no such row; for a link, used or deleted
  None,        \* nothing held
  MaxSealed    \* bound of the number of times the links are killed

Email == [addr : Address, verified : BOOLEAN, primary : BOOLEAN]

\* "issued": how many times the links had been killed when it was inserted.
LinkRow == [kind : {"verify", "change", "reset"}, to : Address,
            approved : BOOLEAN, issued : Nat, late : BOOLEAN]

Step == {"idle", "add", "verify_insert", "verify_commit", "reset_insert",
         "reset_commit", "change_insert", "change_ident", "change_commit",
         "remove"}

(* What the handler of a request read: a row and whether it is the primary,*)
(* an address, whether a change needs no approval, a link.                 *)
Local == [step : Step, ident : Ident \cup {None}, primary : BOOLEAN,
          addr : Address \cup {None}, approved : BOOLEAN,
          link : Link \cup {None}, issued : Nat, late : BOOLEAN]

ASSUME EmailLinksAssumption ==
  /\ NoRow \notin Email \cup LinkRow
  /\ None \notin Ident \cup Address \cup Link
  /\ MaxSealed \in Nat

VARIABLES
  emails,   \* the account's addresses: [Ident -> Email \cup {NoRow}]
  links,    \* [Link -> LinkRow \cup {NoRow}]
  reqs,     \* [Req -> Local]
  sealed,   \* history: how many times the links were killed
  changed   \* history: its value after the last change of address

vars == <<emails, links, reqs, sealed, changed>>

-----------------------------------------------------------------------------
(* Reading and writing rows                                                *)

Idle == [step |-> "idle", ident |-> None, primary |-> FALSE, addr |-> None,
         approved |-> FALSE, link |-> None, issued |-> 0, late |-> FALSE]

Rows == {i \in Ident : emails[i] # NoRow}

Held(a) == \E i \in Rows : emails[i].addr = a

Primary == {i \in Rows : emails[i].primary}

FreeIdent(i) == emails[i] = NoRow /\ \A r \in Req : reqs[r].ident # i

FreeLink(l) == links[l] = NoRow /\ \A r \in Req : reqs[r].link # l

\* The unique indexes of user_identities, on the address and the primary.
Admitted(table) ==
  \A i, j \in Ident :
    i # j /\ table[i] # NoRow /\ table[j] # NoRow =>
      /\ table[i].addr # table[j].addr
      /\ ~(table[i].primary /\ table[j].primary)

\* assign_primary_email(): a no-op once a primary is set, else the account's
\* oldest verified address becomes it (any of them, ids are not ordered here).
AssignPrimary(table) ==
  LET verified == {i \in Ident : table[i] # NoRow /\ table[i].verified}
  IN  IF \E i \in Ident : table[i] # NoRow /\ table[i].primary THEN {table}
      ELSE IF verified = {} THEN {table}
      ELSE {[table EXCEPT ![i].primary = TRUE] : i \in verified}

\* revoke_pending_tokens(), in a transaction of r that ends it.
KillLinks(r) ==
  /\ sealed < MaxSealed
  /\ sealed' = sealed + 1
  /\ links' = [l \in Link |-> NoRow]
  /\ reqs' = [q \in Req |-> IF q = r \/ reqs[q].step = "idle" THEN Idle
                            ELSE [reqs[q] EXCEPT !.late = TRUE]]

\* r inserts a link; what it looks at next is not modelled.
InsertLink(r, l, kind, approved) ==
  /\ FreeLink(l)
  /\ links' = [links EXCEPT ![l] =
                 [kind |-> kind, to |-> reqs[r].addr, approved |-> approved,
                  issued |-> sealed, late |-> reqs[r].late]]
  /\ reqs' = [reqs EXCEPT ![r] = Idle]
  /\ UNCHANGED <<emails, sealed, changed>>

\* r reads a link that is still out.
FindLink(r, l, kind, next) ==
  /\ reqs[r].step = "idle"
  /\ links[l] # NoRow
  /\ links[l].kind = kind
  /\ reqs' = [reqs EXCEPT ![r].step = next, ![r].link = l,
                          ![r].addr = links[l].to, ![r].issued = links[l].issued]
  /\ UNCHANGED <<emails, links, sealed, changed>>

\* An account whose one address is confirmed, or pending since its sign-up.
Init ==
  /\ \E i \in Ident, a \in Address, verified \in BOOLEAN :
       emails = [j \in Ident |->
                   IF j = i THEN [addr |-> a, verified |-> verified, primary |-> verified]
                   ELSE NoRow]
  /\ links = [l \in Link |-> NoRow]
  /\ reqs = [r \in Req |-> Idle]
  /\ sealed = 0
  /\ changed = 0

-----------------------------------------------------------------------------
(* Adding and verifying an address                                         *)

\* email_add_post(): the account has no address, and nobody has this one.
AddCheck(r, a) ==
  /\ reqs[r].step = "idle"
  /\ Rows = {}
  /\ reqs' = [reqs EXCEPT ![r].step = "add", ![r].addr = a]
  /\ UNCHANGED <<emails, links, sealed, changed>>

\* The address is inserted, pending.
AddInsert(r, i) ==
  /\ reqs[r].step = "add"
  /\ FreeIdent(i)
  /\ emails' = [emails EXCEPT ![i] =
                  [addr |-> reqs[r].addr, verified |-> FALSE, primary |-> FALSE]]
  /\ Admitted(emails')
  /\ reqs' = [reqs EXCEPT ![r].step = "verify_insert"]
  /\ UNCHANGED <<links, sealed, changed>>

\* email_verify_request_post(): another link for a pending address.
VerifyRequest(r, i) ==
  /\ reqs[r].step = "idle"
  /\ i \in Rows
  /\ ~emails[i].verified
  /\ reqs' = [reqs EXCEPT ![r].step = "verify_insert", ![r].addr = emails[i].addr]
  /\ UNCHANGED <<emails, links, sealed, changed>>

\* create_email_verify_token(), its code hashed in between.
VerifyInsert(r, l) ==
  /\ reqs[r].step = "verify_insert"
  /\ InsertLink(r, l, "verify", FALSE)

\* The link is opened in the account's own browser, or its code typed there.
VerifyFind(r, l) == FindLink(r, l, "verify", "verify_commit")

\* The transaction: the link consumed, the address confirmed if it is still
\* there, and the primary assigned.
VerifyCommit(r) ==
  /\ reqs[r].step = "verify_commit"
  /\ links[reqs[r].link] # NoRow
  /\ links' = [links EXCEPT ![reqs[r].link] = NoRow]
  /\ emails' \in AssignPrimary(
       [i \in Ident |-> IF i \in Rows /\ emails[i].addr = reqs[r].addr
                        THEN [emails[i] EXCEPT !.verified = TRUE] ELSE emails[i]])
  /\ reqs' = [reqs EXCEPT ![r] = Idle]
  /\ UNCHANGED <<sealed, changed>>

-----------------------------------------------------------------------------
(* Resetting the password                                                  *)

\* password_reset_request_post(): a verified address is read ...
ResetRequest(r, i) ==
  /\ reqs[r].step = "idle"
  /\ i \in Rows
  /\ emails[i].verified
  /\ reqs' = [reqs EXCEPT ![r].step = "reset_insert", ![r].addr = emails[i].addr]
  /\ UNCHANGED <<emails, links, sealed, changed>>

\* ... and its link inserted, then mailed there.
ResetInsert(r, l) ==
  /\ reqs[r].step = "reset_insert"
  /\ InsertLink(r, l, "reset", FALSE)

\* password_reset_confirm_post(): the link is read, and found unused.
ResetFind(r, l) == FindLink(r, l, "reset", "reset_commit")

\* Mutant of ResetCommit: the result of consuming the link is not looked at.
ResetCommitUnclaimed(r) ==
  /\ reqs[r].step = "reset_commit"
  /\ KillLinks(r)
  /\ UNCHANGED <<emails, changed>>

\* Its transaction, the link consumed.
ResetCommit(r) ==
  /\ reqs[r].step = "reset_commit"
  /\ links[reqs[r].link] # NoRow
  /\ KillLinks(r)
  /\ UNCHANGED <<emails, changed>>

-----------------------------------------------------------------------------
(* Changing and removing an address                                        *)

\* email_change_request_post(): an address nobody has; a primary, if there is
\* one, is asked for its approval.
ChangeRequest(r, a) ==
  /\ reqs[r].step = "idle"
  /\ Rows # {}
  /\ ~Held(a)
  /\ reqs' = [reqs EXCEPT ![r].step = "change_insert", ![r].addr = a,
                          ![r].approved = (Primary = {})]
  /\ UNCHANGED <<emails, links, sealed, changed>>

\* The link is inserted, and mailed to the primary or to the new address.
ChangeInsert(r, l) ==
  /\ reqs[r].step = "change_insert"
  /\ InsertLink(r, l, "change", reqs[r].approved)

\* email_change_approve_open_post(): the primary approves, once.
Approve(l) ==
  /\ links[l] # NoRow
  /\ links[l].kind = "change"
  /\ ~links[l].approved
  /\ links' = [links EXCEPT ![l].approved = TRUE]
  /\ UNCHANGED <<emails, reqs, sealed, changed>>

\* email_change_confirm_open_post(): an approved link is found unused ...
ChangeFind(r, l) ==
  /\ links[l] # NoRow /\ links[l].approved
  /\ FindLink(r, l, "change", "change_ident")

\* ... then the address to replace is read, the primary first ...
ChangeIdent(r, i) ==
  /\ reqs[r].step = "change_ident"
  /\ i \in IF Primary # {} THEN Primary ELSE Rows
  /\ reqs' = [reqs EXCEPT ![r].step = "change_commit", ![r].ident = i,
                          ![r].primary = emails[i].primary]
  /\ UNCHANGED <<emails, links, sealed, changed>>

\* ... and the transaction replaces it, marking the link used whatever it is
\* by now, and takes over whether it was primary.
ChangeCommit(r, i) ==
  /\ reqs[r].step = "change_commit"
  /\ FreeIdent(i)
  /\ LET table == [emails EXCEPT
                     ![reqs[r].ident] = NoRow,
                     ![i] = [addr |-> reqs[r].addr, verified |-> TRUE,
                             primary |-> reqs[r].primary]]
     IN  Admitted(table) /\ emails' \in AssignPrimary(table)
  /\ KillLinks(r)
  /\ changed' = sealed + 1

\* email_remove_post(): the address is read, the owner confirmed ...
RemoveCheck(r, i) ==
  /\ reqs[r].step = "idle"
  /\ i \in Rows
  /\ reqs' = [reqs EXCEPT ![r].step = "remove", ![r].ident = i]
  /\ UNCHANGED <<emails, links, sealed, changed>>

\* Mutant of RemoveCommit: no other address becomes the primary.
RemoveCommitUnassigned(r) ==
  /\ reqs[r].step = "remove"
  /\ emails' = [emails EXCEPT ![reqs[r].ident] = NoRow]
  /\ KillLinks(r)
  /\ UNCHANGED changed

\* Mutant of RemoveCommit: the links mailed to the address stay.
RemoveCommitOnly(r) ==
  /\ reqs[r].step = "remove"
  /\ emails' \in AssignPrimary([emails EXCEPT ![reqs[r].ident] = NoRow])
  /\ reqs' = [reqs EXCEPT ![r] = Idle]
  /\ UNCHANGED <<links, sealed, changed>>

\* ... and the transaction deletes it.
RemoveCommit(r) ==
  /\ reqs[r].step = "remove"
  /\ emails' \in AssignPrimary([emails EXCEPT ![reqs[r].ident] = NoRow])
  /\ KillLinks(r)
  /\ UNCHANGED changed

\* A request is refused, its transaction rolled back, or the process dies.
Abort(r) ==
  /\ reqs[r].step # "idle"
  /\ reqs' = [reqs EXCEPT ![r] = Idle]
  /\ UNCHANGED <<emails, links, sealed, changed>>

Next ==
  \/ \E r \in Req, a \in Address : AddCheck(r, a)
  \/ \E r \in Req, i \in Ident : AddInsert(r, i)
  \/ \E r \in Req, i \in Ident : VerifyRequest(r, i)
  \/ \E r \in Req, l \in Link : VerifyInsert(r, l)
  \/ \E r \in Req, l \in Link : VerifyFind(r, l)
  \/ \E r \in Req : VerifyCommit(r)
  \/ \E r \in Req, i \in Ident : ResetRequest(r, i)
  \/ \E r \in Req, l \in Link : ResetInsert(r, l)
  \/ \E r \in Req, l \in Link : ResetFind(r, l)
  \/ \E r \in Req : ResetCommit(r)
  \/ \E r \in Req, a \in Address : ChangeRequest(r, a)
  \/ \E r \in Req, l \in Link : ChangeInsert(r, l)
  \/ \E l \in Link : Approve(l)
  \/ \E r \in Req, l \in Link : ChangeFind(r, l)
  \/ \E r \in Req, i \in Ident : ChangeIdent(r, i)
  \/ \E r \in Req, i \in Ident : ChangeCommit(r, i)
  \/ \E r \in Req, i \in Ident : RemoveCheck(r, i)
  \/ \E r \in Req : RemoveCommit(r)
  \/ \E r \in Req : Abort(r)

Spec == Init /\ [][Next]_vars

-----------------------------------------------------------------------------
(* Properties                                                              *)

\* The types of the rows, the requests and the history.
TypeOK ==
  /\ emails \in [Ident -> Email \cup {NoRow}]
  /\ links \in [Link -> LinkRow \cup {NoRow}]
  /\ reqs \in [Req -> Local]
  /\ sealed \in Nat
  /\ changed \in 0..sealed

\* The account has a primary exactly while it has a verified address, and the
\* primary is one (assign_primary_email, "its first verified one").
PrimaryIsVerified ==
  /\ \A i \in Primary : emails[i].verified
  /\ (\E i \in Rows : emails[i].verified) => Primary # {}

\* A reset or verification link is out for an address the account no longer
\* has only if its request was in flight when the address left.
StrayLinksWereInFlight ==
  \A l \in Link : /\ links[l] # NoRow
                  /\ links[l].kind \in {"reset", "verify"}
                  /\ ~Held(links[l].to)
                  => links[l].late

\* Reset and verification links take effect only while they are out: none that
\* was killed, by a recovery, a change or a removal, and none twice.
ConsumedAlive ==
  [][\A r \in Req :
       \/ reqs[r].step = "reset_commit" /\ reqs'[r].step = "idle" /\ sealed' # sealed
       \/ reqs[r].step = "verify_commit" /\ reqs'[r].step = "idle" /\ emails' # emails
       => reqs[r].issued = sealed]_vars

\* src/docs/security.md:131: "a second change link cannot undo the first": one
\* issued before another took effect takes no address off the account.
SecondChangeCannotUndo ==
  [][\A r \in Req :
       /\ reqs[r].step = "change_commit" /\ reqs'[r].step = "idle" /\ sealed' # sealed
       /\ reqs[r].issued < changed
       => \A i \in Rows : \E j \in Ident :
            emails'[j] # NoRow /\ emails'[j].addr = emails[i].addr]_vars
=============================================================================
