------------------------- MODULE SessionStoreProofs -------------------------
(***************************************************************************)
(* What holds of SessionStore for any number of ids, users and requests,   *)
(* any ages and any clock.                                                 *)
(***************************************************************************)
EXTENDS SessionStore, TLAPS

(***************************************************************************)
(* The inductive invariant.  IdsInv: every id in use was generated, and a  *)
(* settled one has neither a row nor a request that could upsert it.       *)
(* OwnerInv: copies, rows and history agree on the owner.  AgeInv: a copy  *)
(* is never younger than the row it was read from, or than a later row of  *)
(* the same id.                                                            *)
(***************************************************************************)
IdsInv ==
  /\ \A r \in Req : copies[r] # NoCopy => copies[r].uid \in minted
  /\ \A u \in Uid : sessions[u] # NoRow => u \in minted
  /\ \A u \in settled : u \in minted /\ sessions[u] = NoRow /\ ~Open(u)

OwnerInv ==
  /\ \A u \in Uid : owner[u] # NoRow => u \in minted
  /\ \A u \in Uid : sessions[u] # NoRow => sessions[u].user = owner[u]
  /\ \A r \in Req : copies[r] # NoCopy /\ owner[copies[r].uid] # NoRow
                      => copies[r].user = owner[copies[r].uid]
  /\ \A r, s \in Req : /\ copies[r] # NoCopy /\ copies[r].fresh
                       /\ copies[s] # NoCopy /\ copies[s].fresh
                       /\ copies[r].uid = copies[s].uid
                       => r = s
  /\ \A r \in Req : copies[r] # NoCopy /\ ~copies[r].fresh
                      => owner[copies[r].uid] # NoRow

AgeInv ==
  /\ \A u \in Uid : sessions[u] # NoRow => sessions[u].created_at <= now
  /\ \A r \in Req : /\ copies[r] # NoCopy /\ ~copies[r].fresh
                    /\ sessions[copies[r].uid] # NoRow
                    => copies[r].created_at <= sessions[copies[r].uid].created_at
  /\ \A r \in Req : copies[r] # NoCopy => copies[r].created_at <= now

IInv == TypeOK /\ IdsInv /\ OwnerInv /\ AgeInv

-----------------------------------------------------------------------------
(* The helpers                                                             *)

\* The expiry a save or a touch writes is a date, and never past the deadline
\* the copy has left.
LEMMA RowExpiry ==
  ASSUME TypeOK, NEW c \in Copy
  PROVE  /\ RowExpiresAt(c) \in Nat
         /\ ~c.fresh => RowExpiresAt(c) <= c.created_at + MaxAge
  BY SessionStoreAssumption DEF TypeOK, Copy, RowExpiresAt, Lesser

\* A save writes the copy's own row and no other: an update of a row that is
\* there, an insert for a fresh copy, nothing for one whose row is gone.
LEMMA SetRowEffect ==
  ASSUME TypeOK, NEW c \in Copy
  PROVE  /\ SetRow(c) \in [Uid -> Row \cup {NoRow}]
         /\ \A u \in Uid : u # c.uid => SetRow(c)[u] = sessions[u]
         /\ sessions[c.uid] # NoRow =>
              /\ SetRow(c)[c.uid] # NoRow
              /\ SetRow(c)[c.uid].user = c.user
              /\ SetRow(c)[c.uid].created_at = sessions[c.uid].created_at
              /\ SetRow(c)[c.uid].expires_at = RowExpiresAt(c)
         /\ sessions[c.uid] = NoRow /\ c.fresh =>
              /\ SetRow(c)[c.uid] # NoRow
              /\ SetRow(c)[c.uid].user = c.user
              /\ SetRow(c)[c.uid].created_at = now
         /\ sessions[c.uid] = NoRow /\ ~c.fresh => SetRow(c)[c.uid] = NoRow
<1> USE SessionStoreAssumption, RowExpiry
<1>1. c.uid \in Uid /\ c.user \in Owner
  BY DEF Copy
<1>2. CASE sessions[c.uid] # NoRow
  <2>1. sessions[c.uid] \in Row
    BY <1>1, <1>2 DEF TypeOK
  <2> DEFINE row == [sessions[c.uid] EXCEPT !.user = c.user, !.expires_at = RowExpiresAt(c)]
  <2>2. row \in Row /\ row.user = c.user /\ row.expires_at = RowExpiresAt(c)
         /\ row.created_at = sessions[c.uid].created_at
    BY <1>1, <2>1 DEF Row
  <2>3. row # NoRow
    BY <2>2
  <2>4. SetRow(c) = [sessions EXCEPT ![c.uid] = row]
    BY <1>1, <1>2, <2>1 DEF SetRow, TypeOK, Row
  <2> HIDE DEF row
  <2>5. QED
    BY <1>1, <1>2, <2>2, <2>3, <2>4 DEF TypeOK
<1>3. CASE sessions[c.uid] = NoRow /\ c.fresh
  <2> DEFINE row == [user |-> c.user, created_at |-> now, expires_at |-> RowExpiresAt(c)]
  <2>1. row \in Row /\ row.user = c.user /\ row.created_at = now
    BY <1>1 DEF Row, TypeOK
  <2>2. row # NoRow
    BY <2>1
  <2>3. SetRow(c) = [sessions EXCEPT ![c.uid] = row]
    BY <1>3 DEF SetRow
  <2> HIDE DEF row
  <2>4. QED
    BY <1>1, <1>3, <2>1, <2>2, <2>3 DEF TypeOK
<1>4. CASE sessions[c.uid] = NoRow /\ ~c.fresh
  BY <1>1, <1>4 DEF SetRow, TypeOK
<1>5. QED
  BY <1>2, <1>3, <1>4 DEF Copy

\* A touch moves the expiry of a row that is there, and nothing else.
LEMMA TouchRowEffect ==
  ASSUME TypeOK, NEW c \in Copy
  PROVE  /\ TouchRow(c) \in [Uid -> Row \cup {NoRow}]
         /\ \A u \in Uid : u # c.uid => TouchRow(c)[u] = sessions[u]
         /\ sessions[c.uid] # NoRow =>
              /\ TouchRow(c)[c.uid] # NoRow
              /\ TouchRow(c)[c.uid].user = sessions[c.uid].user
              /\ TouchRow(c)[c.uid].created_at = sessions[c.uid].created_at
              /\ TouchRow(c)[c.uid].expires_at = RowExpiresAt(c)
         /\ sessions[c.uid] = NoRow => TouchRow(c)[c.uid] = NoRow
<1> USE SessionStoreAssumption, RowExpiry
<1>1. c.uid \in Uid
  BY DEF Copy
<1>2. CASE sessions[c.uid] # NoRow
  <2>1. sessions[c.uid] \in Row
    BY <1>1, <1>2 DEF TypeOK
  <2> DEFINE row == [sessions[c.uid] EXCEPT !.expires_at = RowExpiresAt(c)]
  <2>2. row \in Row /\ row.expires_at = RowExpiresAt(c)
         /\ row.user = sessions[c.uid].user
         /\ row.created_at = sessions[c.uid].created_at
    BY <2>1 DEF Row
  <2>3. row # NoRow
    BY <2>2
  <2>4. TouchRow(c) = [sessions EXCEPT ![c.uid] = row]
    BY <1>2 DEF TouchRow
  <2> HIDE DEF row
  <2>5. QED
    BY <1>1, <1>2, <2>2, <2>3, <2>4 DEF TypeOK
<1>3. CASE sessions[c.uid] = NoRow
  BY <1>1, <1>3 DEF TouchRow, TypeOK
<1>4. QED
  BY <1>2, <1>3

\* Deleting rows leaves the others as they are.
LEMMA WithoutEffect ==
  ASSUME TypeOK, NEW gone
  PROVE  /\ Without(gone) \in [Uid -> Row \cup {NoRow}]
         /\ \A u \in Uid : u \in gone => Without(gone)[u] = NoRow
         /\ \A u \in Uid : u \notin gone => Without(gone)[u] = sessions[u]
  BY DEF Without, TypeOK

\* What a request is handed at its start is a copy.
LEMMA NewCopies ==
  ASSUME TypeOK, NEW u \in Uid
  PROVE  /\ Visible(u) => LoadedCopy(u) \in Copy
         /\ \A x \in Owner, d \in BOOLEAN, step \in {"handling", "replacing"} :
              FreshCopy(u, x, d, step) \in Copy
<1> USE SessionStoreAssumption
<1>1. ASSUME Visible(u) PROVE LoadedCopy(u) \in Copy
  <2>1. sessions[u] \in Row /\ sessions[u].created_at + MaxAge > now
    BY <1>1 DEF Visible, TypeOK
  <2>2. (sessions[u].created_at + MaxAge) - now \in Nat
    BY <2>1 DEF TypeOK, Row
  <2>3. QED
    BY <2>1, <2>2 DEF LoadedCopy, Copy, Row, TypeOK
<1>2. QED
  BY <1>1 DEF FreshCopy, Copy, TypeOK

\* Every row, copy and history value keeps its type.
LEMMA TypeStep == TypeOK /\ [Next]_vars => TypeOK'
<1> SUFFICES ASSUME TypeOK, [Next]_vars PROVE TypeOK'
  OBVIOUS
<1> USE SessionStoreAssumption
<1>1. ASSUME NEW gone \in SUBSET Uid, RecordRevoked(gone)
      PROVE  revoked' \in SUBSET Uid /\ settled' \in SUBSET revoked'
  BY <1>1 DEF RecordRevoked, TypeOK
<1>2. ASSUME NEW c \in Copy, RecordOwner(c)
      PROVE  owner' \in [Uid -> Owner \cup {NoRow}]
  BY <1>2 DEF RecordOwner, TypeOK, Copy
<1>3. ASSUME NEW r \in Req, copies[r] # NoCopy
      PROVE  copies[r] \in Copy /\ copies[r].uid \in Uid
  BY <1>3 DEF TypeOK, Copy
<1>4. ASSUME NEW r \in Req, NEW u \in Uid, Load(r, u) PROVE TypeOK'
  BY <1>4, NewCopies DEF Load, TypeOK
<1>5. ASSUME NEW r \in Req, NEW u \in Uid, NEW d \in BOOLEAN, Generate(r, u, d)
      PROVE  TypeOK'
  <2>1. FreshCopy(u, Anon, d, "handling") \in Copy
    BY NewCopies DEF Owner
  <2>2. QED
    BY <1>5, <2>1 DEF Generate, TypeOK
<1>6. ASSUME NEW r \in Req, Modify(r) PROVE TypeOK'
  <2>1. [copies[r] EXCEPT !.dirty = TRUE] \in Copy
    BY <1>3, <1>6 DEF Modify, Handling, Copy
  <2>2. copies' = [copies EXCEPT ![r] = [copies[r] EXCEPT !.dirty = TRUE]]
    BY <1>6 DEF Modify, TypeOK
  <2>3. QED
    BY <1>6, <2>1, <2>2 DEF Modify, TypeOK
<1>7. ASSUME NEW r \in Req, Save(r) PROVE TypeOK'
  <2>1. copies[r] \in Copy
    BY <1>3, <1>7 DEF Save, Handling
  <2>2. [copies[r] EXCEPT !.dirty = copies[r].fresh] \in Copy
    BY <2>1 DEF Copy
  <2>3. copies' = [copies EXCEPT ![r] = [copies[r] EXCEPT !.dirty = copies[r].fresh]]
    BY <1>7 DEF Save, TypeOK
  <2>4. copies' \in [Req -> Copy \cup {NoCopy}]
    BY <2>2, <2>3 DEF TypeOK
  <2>5. QED
    BY <1>2, <1>7, <2>1, <2>4, SetRowEffect DEF Save, TypeOK
<1>8. ASSUME NEW r \in Req, NEW u \in Uid, NEW x \in User, ReplaceSession(r, u, x)
      PROVE  TypeOK'
  <2>1. FreshCopy(u, x, TRUE, "replacing") \in Copy
    BY NewCopies DEF Owner
  <2>2. copies' \in [Req -> Copy \cup {NoCopy}]
    BY <1>8, <2>1 DEF ReplaceSession, TypeOK
  <2>3. {copies[r].uid} \cap Stored \in SUBSET Uid
    BY DEF Stored
  <2>4. QED
    BY <1>1, <1>8, <2>2, <2>3, WithoutEffect DEF ReplaceSession, TypeOK
<1>9. ASSUME NEW r \in Req, SaveReplaced(r) PROVE TypeOK'
  <2>1. copies[r] \in Copy
    BY <1>3, <1>9 DEF SaveReplaced
  <2>2. [copies[r] EXCEPT !.step = "handling"] \in Copy
    BY <2>1 DEF Copy
  <2>3. copies' = [copies EXCEPT ![r] = [copies[r] EXCEPT !.step = "handling"]]
    BY <1>9 DEF SaveReplaced, TypeOK
  <2>4. copies' \in [Req -> Copy \cup {NoCopy}]
    BY <2>2, <2>3 DEF TypeOK
  <2>5. QED
    BY <1>2, <1>9, <2>1, <2>4, SetRowEffect DEF SaveReplaced, TypeOK
<1>10. ASSUME NEW r \in Req, DestroySession(r) PROVE TypeOK'
  <2>1. {copies[r].uid} \cap Stored \in SUBSET Uid
    BY DEF Stored
  <2>2. QED
    BY <1>1, <1>10, <2>1, WithoutEffect DEF DestroySession, TypeOK
<1>11. ASSUME NEW r \in Req, SendHeaders(r) PROVE TypeOK'
  <2>1. copies[r] \in Copy
    BY <1>3, <1>11 DEF SendHeaders, Handling
  <2>2. [copies[r] EXCEPT !.step = "sent", !.since = now] \in Copy
    BY <2>1 DEF Copy, TypeOK
  <2>3. copies' = [copies EXCEPT ![r] = [copies[r] EXCEPT !.step = "sent", !.since = now]]
    BY <1>11 DEF SendHeaders, TypeOK
  <2>4. copies' \in [Req -> Copy \cup {NoCopy}]
    BY <2>2, <2>3 DEF TypeOK
  <2>5. delivered' \in SUBSET Uid
    BY <1>3, <1>11 DEF SendHeaders, Handling, TypeOK
  <2>6. QED
    BY <1>11, <2>4, <2>5 DEF SendHeaders, TypeOK
<1>12. ASSUME NEW r \in Req, EndResponse(r) PROVE TypeOK'
  <2>1. copies[r] \in Copy
    BY <1>3, <1>12 DEF EndResponse
  <2>2. copies' \in [Req -> Copy \cup {NoCopy}]
    BY <1>12 DEF EndResponse, TypeOK
  <2>3. QED
    BY <1>2, <1>12, <2>1, <2>2, SetRowEffect, TouchRowEffect DEF EndResponse, TypeOK
<1>13. ASSUME NEW gone \in SUBSET Uid, Revoke(gone) PROVE TypeOK'
  BY <1>1, <1>13, WithoutEffect DEF Revoke, TypeOK
<1>14. CASE Tick
  BY <1>14 DEF Tick, TypeOK
<1>15. CASE UNCHANGED vars
  BY <1>15 DEF vars, TypeOK
<1>16. QED
  BY <1>4, <1>5, <1>6, <1>7, <1>8, <1>9, <1>10, <1>11, <1>12, <1>13, <1>14, <1>15
     DEF Next, RevokeOne, RevokeOthers, RevokeUser, RowsOf, Stored

\* Every reachable state is well typed, whatever the clock and the ages are.
THEOREM TypeCorrect == Spec => []TypeOK
<1>1. Init => TypeOK
  BY SessionStoreAssumption DEF Init, TypeOK
<1>2. QED
  BY <1>1, TypeStep, PTL DEF Spec

-----------------------------------------------------------------------------
(* The steps, by what they do to the table and to the copies               *)

\* A request that keeps its copy's id, kind, owner and start keeps the
\* invariant when the table and the history change consistently.  SetCase
\* names what Save, SaveReplaced and EndResponse share.
SetCase(r) ==
  /\ copies[r] # NoCopy
  /\ sessions' = SetRow(copies[r])
  /\ RecordOwner(copies[r])
  /\ \A s \in Req : s # r => copies'[s] = copies[s]
  /\ copies'[r] # NoCopy => /\ copies'[r].uid = copies[r].uid
                            /\ copies'[r].fresh = copies[r].fresh
                            /\ copies'[r].user = copies[r].user
                            /\ copies'[r].created_at = copies[r].created_at
  /\ UNCHANGED <<now, minted, revoked, settled>>

\* A save keeps the invariant: it writes a row only where the request made
\* the id or the row is still there.
LEMMA SetStep ==
  ASSUME IInv, TypeOK', NEW r \in Req, SetCase(r)
  PROVE  IInv'
<1> DEFINE c == copies[r]
<1>1. c \in Copy /\ c.uid \in Uid
  BY DEF IInv, TypeOK, SetCase, Copy
<1>2. /\ \A u \in Uid : u # c.uid => sessions'[u] = sessions[u]
      /\ sessions[c.uid] # NoRow =>
              /\ sessions'[c.uid] # NoRow
              /\ sessions'[c.uid].user = c.user
              /\ sessions'[c.uid].created_at = sessions[c.uid].created_at
      /\ sessions[c.uid] = NoRow /\ c.fresh =>
              /\ sessions'[c.uid] # NoRow
              /\ sessions'[c.uid].user = c.user
              /\ sessions'[c.uid].created_at = now
      /\ sessions[c.uid] = NoRow /\ ~c.fresh => sessions'[c.uid] = NoRow
  BY <1>1, SetRowEffect DEF IInv, SetCase
<1>3. \A u \in Uid : Open(u)' => Open(u)
  BY DEF SetCase, Open
<1>4. IdsInv'
  BY <1>1, <1>2, <1>3 DEF IInv, IdsInv, SetCase, Open, TypeOK
<1>5. \A u \in Uid : owner'[u] = IF u = c.uid /\ sessions[u] = NoRow /\ c.fresh /\ owner[u] = NoRow
                                THEN c.user ELSE owner[u]
  BY <1>1 DEF IInv, TypeOK, SetCase, RecordOwner
<1>6. sessions[c.uid] # NoRow => owner[c.uid] # NoRow /\ c.user = owner[c.uid]
  <2>1. sessions[c.uid] # NoRow => sessions[c.uid].user \in Owner
    BY <1>1 DEF IInv, TypeOK, Row
  <2>2. QED
    BY <1>1, <2>1, SessionStoreAssumption DEF IInv, OwnerInv, SetCase
<1>7. OwnerInv'
  <2>1. \A u \in Uid : owner'[u] # NoRow => u \in minted'
    BY <1>1, <1>5 DEF IInv, OwnerInv, IdsInv, SetCase
  <2>2. \A u \in Uid : sessions'[u] # NoRow => sessions'[u].user = owner'[u]
    BY <1>1, <1>2, <1>5, <1>6 DEF IInv, OwnerInv, SetCase
  <2>3. ASSUME NEW s \in Req, copies'[s] # NoCopy, owner'[copies'[s].uid] # NoRow
        PROVE  copies'[s].user = owner'[copies'[s].uid]
    BY <1>1, <1>5, <2>3 DEF IInv, OwnerInv, SetCase, TypeOK, Copy
  <2>4. ASSUME NEW s \in Req, NEW t \in Req,
               copies'[s] # NoCopy, copies'[s].fresh,
               copies'[t] # NoCopy, copies'[t].fresh, copies'[s].uid = copies'[t].uid
        PROVE  s = t
    BY <2>4 DEF IInv, OwnerInv, SetCase
  <2>5. ASSUME NEW s \in Req, copies'[s] # NoCopy, ~copies'[s].fresh
        PROVE  owner'[copies'[s].uid] # NoRow
    BY <1>1, <1>5, <2>5 DEF IInv, OwnerInv, SetCase, TypeOK, Copy
  <2>6. QED
    BY <2>1, <2>2, <2>3, <2>4, <2>5 DEF OwnerInv
<1>8. AgeInv'
  <2>1. \A u \in Uid : sessions'[u] # NoRow => sessions'[u].created_at <= now'
    BY <1>1, <1>2 DEF IInv, AgeInv, SetCase, TypeOK
  <2>2. \A s \in Req : copies'[s] # NoCopy => copies'[s].created_at <= now'
    BY <1>1 DEF IInv, AgeInv, SetCase
  <2>3. ASSUME NEW s \in Req, copies'[s] # NoCopy, ~copies'[s].fresh,
               sessions'[copies'[s].uid] # NoRow
        PROVE  copies'[s].created_at <= sessions'[copies'[s].uid].created_at
    BY <1>1, <1>2, <2>3 DEF IInv, AgeInv, SetCase, TypeOK, Copy
  <2>4. QED
    BY <2>1, <2>2, <2>3 DEF AgeInv
<1>9. QED
  BY <1>4, <1>7, <1>8 DEF IInv

\* A copy that is as it was for the invariant, or gone.
SameOrGone(s) ==
  \/ copies'[s] = NoCopy
  \/ /\ copies[s] # NoCopy
     /\ copies'[s].uid = copies[s].uid
     /\ copies'[s].fresh = copies[s].fresh
     /\ copies'[s].user = copies[s].user
     /\ copies'[s].created_at = copies[s].created_at

\* What ReplaceSession, DestroySession and the revocations share: rows are
\* deleted, and no copy changes but for the one of r, which goes or becomes
\* that of a session generated in this step.
DeleteCase(gone) ==
  /\ sessions' = Without(gone)
  /\ RecordRevoked(gone \cap Stored)
  /\ minted \subseteq minted'
  /\ \A s \in Req : \/ SameOrGone(s)
                    \/ copies'[s].fresh /\ copies'[s].uid \in minted' \ minted
                       /\ copies'[s].created_at <= now
  /\ \A s, t \in Req :
       /\ copies'[s] # NoCopy /\ copies'[s].uid \in minted' \ minted
       /\ copies'[t] # NoCopy /\ copies'[t].uid \in minted' \ minted
       => s = t
  /\ UNCHANGED <<now, owner>>

\* A delete keeps the invariant.
LEMMA DeleteStep ==
  ASSUME IInv, TypeOK', NEW gone \in SUBSET Uid, DeleteCase(gone)
  PROVE  IInv'
<1>1. /\ \A u \in Uid : u \in gone => sessions'[u] = NoRow
      /\ \A u \in Uid : u \notin gone => sessions'[u] = sessions[u]
  BY WithoutEffect DEF DeleteCase, IInv
<1>2. \A u \in minted : Open(u)' => Open(u)
  BY DEF DeleteCase, SameOrGone, Open
<1>3. IdsInv'
  <2>1. \A s \in Req : copies'[s] # NoCopy => copies'[s].uid \in minted'
    BY DEF IInv, IdsInv, DeleteCase, SameOrGone
  <2>2. \A u \in Uid : sessions'[u] # NoRow => u \in minted'
    BY <1>1 DEF IInv, IdsInv, DeleteCase
  <2>3. ASSUME NEW u \in settled'
        PROVE  u \in minted' /\ sessions'[u] = NoRow /\ ~Open(u)'
    <3>1. CASE u \in settled
      BY <1>1, <1>2, <3>1 DEF IInv, IdsInv, TypeOK, DeleteCase
    <3>2. CASE u \in gone \cap Stored /\ ~Open(u)'
      BY <1>1, <3>2 DEF IInv, IdsInv, DeleteCase, Stored
    <3>3. QED
      BY <2>3, <3>1, <3>2 DEF DeleteCase, RecordRevoked
  <2>4. QED
    BY <2>1, <2>2, <2>3 DEF IdsInv
<1>4. OwnerInv'
  <2>1. \A u \in Uid : owner[u] # NoRow => u \in minted
    BY DEF IInv, OwnerInv
  <2>2. /\ \A u \in Uid : owner'[u] # NoRow => u \in minted'
        /\ \A u \in Uid : sessions'[u] # NoRow => sessions'[u].user = owner'[u]
    BY <1>1 DEF IInv, OwnerInv, DeleteCase
  <2>3. \A s \in Req : copies'[s] # NoCopy => copies'[s].uid \in Uid
    BY DEF TypeOK, Copy
  <2>4. \A s \in Req : copies'[s] # NoCopy /\ owner'[copies'[s].uid] # NoRow
                      => copies'[s].user = owner'[copies'[s].uid]
    BY <2>1, <2>3 DEF IInv, OwnerInv, DeleteCase, SameOrGone
  <2>5. ASSUME NEW s \in Req, NEW t \in Req,
               copies'[s] # NoCopy, copies'[s].fresh,
               copies'[t] # NoCopy, copies'[t].fresh, copies'[s].uid = copies'[t].uid
        PROVE  s = t
    BY <2>5 DEF IInv, OwnerInv, IdsInv, DeleteCase, SameOrGone
  <2>6. \A s \in Req : copies'[s] # NoCopy /\ ~copies'[s].fresh
                      => owner'[copies'[s].uid] # NoRow
    BY DEF IInv, OwnerInv, DeleteCase, SameOrGone
  <2>7. QED
    BY <2>2, <2>4, <2>5, <2>6 DEF OwnerInv
<1>5. AgeInv'
  <2>1. \A u \in Uid : sessions'[u] # NoRow => sessions'[u].created_at <= now'
    BY <1>1 DEF IInv, AgeInv, DeleteCase
  <2>2. \A s \in Req : copies'[s] # NoCopy => copies'[s].created_at <= now'
    BY DEF IInv, AgeInv, DeleteCase, SameOrGone
  <2>3. \A s \in Req : copies'[s] # NoCopy => copies'[s].uid \in Uid
    BY DEF TypeOK, Copy
  <2>4. \A s \in Req : /\ copies'[s] # NoCopy /\ ~copies'[s].fresh
                       /\ sessions'[copies'[s].uid] # NoRow
                       => copies'[s].created_at <= sessions'[copies'[s].uid].created_at
    BY <1>1, <2>3 DEF IInv, AgeInv, DeleteCase, SameOrGone
  <2>5. QED
    BY <2>1, <2>2, <2>4 DEF AgeInv
<1>6. QED
  BY <1>3, <1>4, <1>5 DEF IInv

\* What Load, Modify, SendHeaders, a touch at the end of a response and Tick
\* share: no row appears, goes or changes hands, and a copy is as it was,
\* gone, or a new one of a row that is there.
QuietCase ==
  /\ \A u \in Uid : /\ sessions'[u] = NoRow <=> sessions[u] = NoRow
                    /\ sessions[u] # NoRow =>
                         /\ sessions'[u].user = sessions[u].user
                         /\ sessions'[u].created_at = sessions[u].created_at
  /\ \A s \in Req : \/ SameOrGone(s)
                    \/ /\ ~copies'[s].fresh
                       /\ sessions[copies'[s].uid] # NoRow
                       /\ copies'[s].user = sessions[copies'[s].uid].user
                       /\ copies'[s].created_at = sessions[copies'[s].uid].created_at
  /\ now <= now'
  /\ UNCHANGED <<minted, owner, revoked, settled>>

\* A step that neither writes nor deletes a row keeps the invariant.
LEMMA QuietStep ==
  ASSUME IInv, TypeOK', QuietCase
  PROVE  IInv'
<1>1. \A s \in Req : copies'[s] # NoCopy => copies'[s].uid \in Uid
  BY DEF TypeOK, Copy
<1>2. \A u \in Uid : Open(u)' => Open(u)
  BY <1>1 DEF QuietCase, SameOrGone, Open
<1>3. IdsInv'
  BY <1>1, <1>2 DEF IInv, IdsInv, TypeOK, QuietCase, SameOrGone
<1>4. \A u \in Uid : sessions[u] # NoRow => sessions[u].user \in Owner
  BY DEF IInv, TypeOK, Row
<1>5. OwnerInv'
  <2>1. /\ \A u \in Uid : owner'[u] # NoRow => u \in minted'
        /\ \A u \in Uid : sessions'[u] # NoRow => sessions'[u].user = owner'[u]
    BY DEF IInv, OwnerInv, QuietCase
  <2>2. \A s \in Req : copies'[s] # NoCopy /\ owner'[copies'[s].uid] # NoRow
                      => copies'[s].user = owner'[copies'[s].uid]
    BY <1>1 DEF IInv, OwnerInv, QuietCase, SameOrGone
  <2>3. ASSUME NEW s \in Req, NEW t \in Req,
               copies'[s] # NoCopy, copies'[s].fresh,
               copies'[t] # NoCopy, copies'[t].fresh, copies'[s].uid = copies'[t].uid
        PROVE  s = t
    BY <2>3 DEF IInv, OwnerInv, QuietCase, SameOrGone
  <2>4. \A s \in Req : copies'[s] # NoCopy /\ ~copies'[s].fresh
                      => owner'[copies'[s].uid] # NoRow
    BY <1>1, <1>4, SessionStoreAssumption DEF IInv, OwnerInv, QuietCase, SameOrGone
  <2>5. QED
    BY <2>1, <2>2, <2>3, <2>4 DEF OwnerInv
<1>6. AgeInv'
  <2>1. /\ now \in Nat /\ now' \in Nat
        /\ \A u \in Uid : sessions[u] # NoRow => sessions[u].created_at \in Nat
        /\ \A s \in Req : copies[s] # NoCopy => copies[s].created_at \in Nat
    BY DEF IInv, TypeOK, Row, Copy
  <2>2. \A u \in Uid : sessions'[u] # NoRow => sessions'[u].created_at <= now'
    BY <2>1 DEF IInv, AgeInv, QuietCase
  <2>3. \A s \in Req : copies'[s] # NoCopy => copies'[s].created_at <= now'
    BY <1>1, <2>1 DEF IInv, AgeInv, QuietCase, SameOrGone
  <2>4. \A s \in Req : /\ copies'[s] # NoCopy /\ ~copies'[s].fresh
                       /\ sessions'[copies'[s].uid] # NoRow
                       => copies'[s].created_at <= sessions'[copies'[s].uid].created_at
    BY <1>1, <2>1 DEF IInv, AgeInv, QuietCase, SameOrGone
  <2>5. QED
    BY <2>2, <2>3, <2>4 DEF AgeInv
<1>7. QED
  BY <1>3, <1>5, <1>6 DEF IInv

-----------------------------------------------------------------------------
(* The invariant                                                           *)

\* Each action is one of the three cases.
LEMMA InvStep == IInv /\ [Next]_vars => IInv'
<1> SUFFICES ASSUME IInv, [Next]_vars PROVE IInv'
  OBVIOUS
<1>1. TypeOK'
  BY TypeStep DEF IInv
<1>2. ASSUME NEW r \in Req, copies[r] # NoCopy
      PROVE  copies[r] \in Copy /\ copies[r].uid \in Uid
  BY <1>2 DEF IInv, TypeOK, Copy
<1>3. ASSUME NEW r \in Req, NEW u \in Uid, Load(r, u) PROVE IInv'
  <2>1. /\ sessions[u] # NoRow
        /\ copies' = [copies EXCEPT ![r] = LoadedCopy(u)]
        /\ UNCHANGED <<now, sessions, minted, owner, revoked, settled>>
    BY <1>3 DEF Load, Visible
  <2>2. /\ copies'[r] = LoadedCopy(u)
        /\ \A s \in Req : s # r => copies'[s] = copies[s]
    BY <2>1 DEF IInv, TypeOK
  <2>3. /\ copies'[r].uid = u /\ ~copies'[r].fresh
        /\ copies'[r].user = sessions[u].user
        /\ copies'[r].created_at = sessions[u].created_at
    BY <2>2 DEF LoadedCopy
  <2>4. QuietCase
    BY <2>1, <2>2, <2>3 DEF QuietCase, SameOrGone, IInv, TypeOK
  <2>5. QED
    BY <1>1, <2>4, QuietStep
<1>4. ASSUME NEW r \in Req, NEW u \in Uid, NEW d \in BOOLEAN, Generate(r, u, d)
      PROVE  IInv'
  <2>1. /\ copies'[r] = FreshCopy(u, Anon, d, "handling")
        /\ \A s \in Req : s # r => copies'[s] = copies[s]
    BY <1>4 DEF Generate, IInv, TypeOK
  <2>2. copies'[r].fresh /\ copies'[r].uid = u /\ copies'[r].created_at = 0
    BY <2>1 DEF FreshCopy
  <2>3. u \notin minted /\ minted' = minted \cup {u} /\ copies[r] = NoCopy
         /\ UNCHANGED <<now, sessions, owner, revoked, settled>>
    BY <1>4 DEF Generate
  <2>4. Without({}) = sessions
    BY DEF Without, IInv, TypeOK
  <2>5. RecordRevoked({} \cap Stored)
    BY <2>3 DEF RecordRevoked
  <2>6. \A s \in Req : copies[s] # NoCopy => copies[s].uid # u
    BY <2>3 DEF IInv, IdsInv
  <2>7. DeleteCase({})
    BY <2>1, <2>2, <2>3, <2>4, <2>5, <2>6 DEF DeleteCase, SameOrGone, IInv, TypeOK
  <2>8. QED
    BY <1>1, <2>7, DeleteStep
<1>5. ASSUME NEW r \in Req, Modify(r) \/ SendHeaders(r) PROVE IInv'
  <2>1. copies[r] \in Copy /\ copies[r] # NoCopy
    BY <1>2, <1>5 DEF Modify, SendHeaders, Handling
  <2>2. /\ copies'[r].uid = copies[r].uid /\ copies'[r].fresh = copies[r].fresh
        /\ copies'[r].user = copies[r].user
        /\ copies'[r].created_at = copies[r].created_at
        /\ \A s \in Req : s # r => copies'[s] = copies[s]
    BY <1>5, <2>1 DEF Modify, SendHeaders, IInv, TypeOK, Copy
  <2>3. QuietCase
    BY <1>5, <2>1, <2>2 DEF Modify, SendHeaders, QuietCase, SameOrGone, IInv, TypeOK
  <2>4. QED
    BY <1>1, <2>3, QuietStep
<1>6. ASSUME NEW r \in Req, Save(r) \/ SaveReplaced(r) PROVE IInv'
  <2>1. copies[r] \in Copy /\ copies[r] # NoCopy
    BY <1>2, <1>6 DEF Save, SaveReplaced, Handling
  <2>2. /\ copies'[r].uid = copies[r].uid /\ copies'[r].fresh = copies[r].fresh
        /\ copies'[r].user = copies[r].user
        /\ copies'[r].created_at = copies[r].created_at
        /\ \A s \in Req : s # r => copies'[s] = copies[s]
    BY <1>6, <2>1 DEF Save, SaveReplaced, IInv, TypeOK, Copy
  <2>3. SetCase(r)
    BY <1>6, <2>1, <2>2 DEF Save, SaveReplaced, SetCase
  <2>4. QED
    BY <1>1, <2>3, SetStep
<1>7. ASSUME NEW r \in Req, NEW u \in Uid, NEW x \in User, ReplaceSession(r, u, x)
      PROVE  IInv'
  <2>1. copies[r].uid \in Uid
    BY <1>2, <1>7 DEF ReplaceSession, Handling
  <2>2. /\ copies'[r] = FreshCopy(u, x, TRUE, "replacing")
        /\ \A s \in Req : s # r => copies'[s] = copies[s]
    BY <1>7 DEF ReplaceSession, IInv, TypeOK
  <2>3. copies'[r].fresh /\ copies'[r].uid = u /\ copies'[r].created_at = 0
    BY <2>2 DEF FreshCopy
  <2>4. \A s \in Req : copies[s] # NoCopy => copies[s].uid # u
    BY <1>7 DEF ReplaceSession, IInv, IdsInv
  <2>5. /\ sessions' = Without({copies[r].uid})
        /\ minted' = minted \cup {u} /\ u \notin minted
        /\ RecordRevoked({copies[r].uid} \cap Stored)
        /\ UNCHANGED <<now, owner>>
    BY <1>7 DEF ReplaceSession
  <2>6. \A s \in Req : s # r => SameOrGone(s)
    BY <2>2 DEF SameOrGone
  <2>7. \A s \in Req : copies'[s] # NoCopy /\ copies'[s].uid = u => s = r
    BY <2>2, <2>4
  <2>8. 0 <= now
    BY DEF IInv, TypeOK
  <2>9. \A s, t \in Req :
          /\ copies'[s] # NoCopy /\ copies'[s].uid \in minted' \ minted
          /\ copies'[t] # NoCopy /\ copies'[t].uid \in minted' \ minted
          => s = t
    BY <2>5, <2>7
  <2>10. copies'[r].uid \in minted' \ minted /\ copies'[r].created_at <= now
    BY <2>3, <2>5, <2>8
  <2>11. DeleteCase({copies[r].uid})
    BY <2>3, <2>5, <2>6, <2>9, <2>10 DEF DeleteCase
  <2>12. QED
    BY <1>1, <2>1, <2>11, DeleteStep
<1>8. ASSUME NEW r \in Req, DestroySession(r) PROVE IInv'
  <2>1. copies[r].uid \in Uid
    BY <1>2, <1>8 DEF DestroySession, Handling
  <2>2. DeleteCase({copies[r].uid})
    BY <1>8 DEF DestroySession, DeleteCase, SameOrGone, IInv, TypeOK
  <2>3. QED
    BY <1>1, <2>1, <2>2, DeleteStep
<1>9. ASSUME NEW r \in Req, EndResponse(r) PROVE IInv'
  <2>1. copies[r] \in Copy /\ copies[r] # NoCopy
    BY <1>2, <1>9 DEF EndResponse
  <2>2. /\ copies'[r] = NoCopy
        /\ \A s \in Req : s # r => copies'[s] = copies[s]
    BY <1>9 DEF EndResponse, IInv, TypeOK
  <2>3. CASE copies[r].dirty
    <3>1. SetCase(r)
      BY <1>9, <2>1, <2>2, <2>3 DEF EndResponse, SetCase
    <3>2. QED
      BY <1>1, <3>1, SetStep
  <2>4. CASE ~copies[r].dirty
    <3>1. /\ sessions' = IF copies[r].fresh THEN sessions ELSE TouchRow(copies[r])
          /\ UNCHANGED <<now, owner, minted, revoked, settled>>
      BY <1>9, <2>4 DEF EndResponse
    <3>2. QuietCase
      BY <2>1, <2>2, <3>1, TouchRowEffect DEF QuietCase, SameOrGone, IInv, TypeOK
    <3>3. QED
      BY <1>1, <3>2, QuietStep
  <2>5. QED
    BY <2>3, <2>4
<1>10. ASSUME NEW gone \in SUBSET Stored, Revoke(gone) PROVE IInv'
  <2>1. DeleteCase(gone)
    BY <1>10 DEF Revoke, DeleteCase, SameOrGone
  <2>2. QED
    BY <1>1, <2>1, DeleteStep DEF Stored
<1>11. CASE Tick
  <2>1. QuietCase
    BY <1>11 DEF Tick, QuietCase, SameOrGone, IInv, TypeOK
  <2>2. QED
    BY <1>1, <2>1, QuietStep
<1>12. CASE UNCHANGED vars
  <2>1. QuietCase
    BY <1>12 DEF vars, QuietCase, SameOrGone, IInv, TypeOK
  <2>2. QED
    BY <1>1, <2>1, QuietStep
<1>13. QED
  BY <1>3, <1>4, <1>5, <1>6, <1>7, <1>8, <1>9, <1>10, <1>11, <1>12
     DEF Next, RevokeOne, RevokeOthers, RevokeUser, RowsOf

\* IInv holds in every reachable state.
LEMMA Invariant == Spec => []IInv
<1>1. Init => IInv
  BY SessionStoreAssumption
     DEF Init, IInv, TypeOK, IdsInv, OwnerInv, AgeInv, Open
<1>2. QED
  BY <1>1, InvStep, PTL DEF Spec

\* A session revoked after its own request ended never gets its row back:
\* a late save of a copy is an update, and the row is gone (M-01).
THEOREM RevocationIsFinal == Spec => []RevokedStaysRevoked
<1>1. IInv => RevokedStaysRevoked
  BY DEF IInv, IdsInv, RevokedStaysRevoked
<1>2. QED
  BY <1>1, Invariant, PTL

\* A session belongs to one account, or to nobody, for as long as it exists.
THEOREM OwnerIsFixed == Spec => []OwnerNeverChanges
<1>1. IInv => OwnerNeverChanges
  BY DEF IInv, OwnerInv, OwnerNeverChanges
<1>2. QED
  BY <1>1, Invariant, PTL

-----------------------------------------------------------------------------
(* Steps                                                                   *)

\* What a step may do to the table: write the row of a request's copy, touch
\* it, or delete rows.
LEMMA TableStep ==
  ASSUME IInv, [Next]_vars
  PROVE  \/ \E r \in Req : copies[r] # NoCopy /\ sessions' = SetRow(copies[r])
         \/ \E r \in Req : /\ copies[r] # NoCopy /\ ~copies[r].fresh
                          /\ sessions' = TouchRow(copies[r])
         \/ \E gone \in SUBSET Uid : sessions' = Without(gone)
<1>1. Without({}) = sessions
  BY DEF Without, IInv, TypeOK
<1>2. ASSUME UNCHANGED sessions
      PROVE  \E gone \in SUBSET Uid : sessions' = Without(gone)
  BY <1>1, <1>2
<1>3. ASSUME NEW r \in Req, NEW u \in Uid, Load(r, u) PROVE UNCHANGED sessions
  BY <1>3 DEF Load
<1>4. ASSUME NEW r \in Req, NEW u \in Uid, NEW d \in BOOLEAN, Generate(r, u, d)
      PROVE  UNCHANGED sessions
  BY <1>4 DEF Generate
<1>5. ASSUME NEW r \in Req, Modify(r) \/ SendHeaders(r) PROVE UNCHANGED sessions
  BY <1>5 DEF Modify, SendHeaders
<1>6. ASSUME NEW r \in Req, Save(r) \/ SaveReplaced(r)
      PROVE  copies[r] # NoCopy /\ sessions' = SetRow(copies[r])
  BY <1>6 DEF Save, SaveReplaced, Handling
<1>7. ASSUME NEW r \in Req,
             DestroySession(r) \/ \E u \in Uid, x \in User : ReplaceSession(r, u, x)
      PROVE  \E gone \in SUBSET Uid : sessions' = Without(gone)
  <2>1. copies[r].uid \in Uid
    BY <1>7 DEF DestroySession, ReplaceSession, Handling, IInv, TypeOK, Copy
  <2>2. sessions' = Without({copies[r].uid})
    BY <1>7 DEF DestroySession, ReplaceSession
  <2>3. QED
    BY <2>1, <2>2
<1>8. ASSUME NEW r \in Req, EndResponse(r)
      PROVE  /\ copies[r] # NoCopy
             /\ \/ sessions' = SetRow(copies[r])
                \/ ~copies[r].fresh /\ sessions' = TouchRow(copies[r])
                \/ UNCHANGED sessions
  BY <1>8 DEF EndResponse
<1>9. ASSUME NEW gone \in SUBSET Stored, Revoke(gone)
      PROVE  gone \in SUBSET Uid /\ sessions' = Without(gone)
  BY <1>9 DEF Revoke, Stored
<1>10. CASE Tick \/ UNCHANGED vars
  BY <1>2, <1>10 DEF Tick, vars
<1>11. CASE Next
  <2>1. CASE \E r \in Req : \/ \E u \in Uid : Load(r, u)
                            \/ \E u \in Uid, d \in BOOLEAN : Generate(r, u, d)
                            \/ Modify(r) \/ SendHeaders(r)
    BY <1>2, <1>3, <1>4, <1>5, <2>1
  <2>2. CASE \E r \in Req : Save(r) \/ SaveReplaced(r)
    BY <1>6, <2>2
  <2>3. CASE \E r \in Req : \/ DestroySession(r)
                            \/ \E u \in Uid, x \in User : ReplaceSession(r, u, x)
    BY <1>7, <2>3
  <2>4. CASE \E r \in Req : EndResponse(r)
    BY <1>2, <1>8, <2>4
  <2>5. CASE \/ \E r \in Req : RevokeOthers(r) \/ \E u \in Uid : RevokeOne(r, u)
             \/ \E x \in User : RevokeUser(x)
    <3>1. \E gone \in SUBSET Stored : Revoke(gone)
      BY <2>5 DEF RevokeOne, RevokeOthers, RevokeUser, RowsOf
    <3>2. QED
      BY <1>9, <3>1
  <2>6. QED
    BY <1>10, <1>11, <2>1, <2>2, <2>3, <2>4, <2>5 DEF Next
<1>12. QED
  BY <1>10, <1>11

\* No use of a signed-in session moves its deadline or carries its expiry past
\* it (AW-29): a save or touch of a loaded copy is capped by the copy's own
\* start, which is no later than the row's.
THEOREM UseIsCapped == Spec => UseNeverExtends
<1> DEFINE Step(u) ==
      /\ sessions[u] # NoRow /\ sessions[u].user # Anon /\ ~Open(u)
      /\ sessions'[u] # NoRow
      => /\ sessions'[u].created_at = sessions[u].created_at
         /\ \/ sessions'[u].expires_at <= sessions[u].expires_at
            \/ sessions'[u].expires_at <= sessions[u].created_at + MaxAge
<1>1. ASSUME IInv, [Next]_vars, NEW u \in Uid PROVE Step(u)
  <2> SUFFICES ASSUME sessions[u] # NoRow, ~Open(u), sessions'[u] # NoRow
               PROVE  /\ sessions'[u].created_at = sessions[u].created_at
                      /\ \/ sessions'[u].expires_at <= sessions[u].expires_at
                         \/ sessions'[u].expires_at <= sessions[u].created_at + MaxAge
    OBVIOUS
  <2> USE SessionStoreAssumption
  <2>1. /\ sessions[u].created_at \in Nat /\ sessions[u].expires_at \in Nat
    BY <1>1 DEF IInv, TypeOK, Row
  <2>2. ASSUME NEW r \in Req, copies[r] # NoCopy, copies[r].uid = u
        PROVE  /\ copies[r] \in Copy
               /\ ~copies[r].fresh
               /\ RowExpiresAt(copies[r]) \in Nat
               /\ RowExpiresAt(copies[r]) <= sessions[u].created_at + MaxAge
    <3>1. copies[r] \in Copy
      BY <1>1, <2>2 DEF IInv, TypeOK
    <3>2. ~copies[r].fresh
      BY <2>2 DEF Open
    <3>3. copies[r].created_at \in Nat /\ copies[r].created_at <= sessions[u].created_at
      BY <1>1, <2>2, <3>1, <3>2 DEF IInv, AgeInv, Copy
    <3>4. RowExpiresAt(copies[r]) \in Nat
           /\ RowExpiresAt(copies[r]) <= copies[r].created_at + MaxAge
      BY <1>1, <3>1, <3>2, RowExpiry DEF IInv
    <3>5. QED
      BY <2>1, <3>1, <3>2, <3>3, <3>4
  <2>3. ASSUME NEW r \in Req, copies[r] # NoCopy, sessions' = SetRow(copies[r])
        PROVE  /\ sessions'[u].created_at = sessions[u].created_at
               /\ \/ sessions'[u].expires_at <= sessions[u].expires_at
                  \/ sessions'[u].expires_at <= sessions[u].created_at + MaxAge
    <3>1. copies[r] \in Copy
      BY <1>1, <2>3 DEF IInv, TypeOK
    <3>2. CASE copies[r].uid = u
      BY <1>1, <2>2, <2>3, <3>1, <3>2, SetRowEffect DEF IInv
    <3>3. CASE copies[r].uid # u
      BY <1>1, <2>1, <2>3, <3>1, <3>3, SetRowEffect DEF IInv
    <3>4. QED
      BY <3>2, <3>3
  <2>4. ASSUME NEW r \in Req, copies[r] # NoCopy, sessions' = TouchRow(copies[r])
        PROVE  /\ sessions'[u].created_at = sessions[u].created_at
               /\ \/ sessions'[u].expires_at <= sessions[u].expires_at
                  \/ sessions'[u].expires_at <= sessions[u].created_at + MaxAge
    <3>1. copies[r] \in Copy
      BY <1>1, <2>4 DEF IInv, TypeOK
    <3>2. CASE copies[r].uid = u
      BY <1>1, <2>2, <2>4, <3>1, <3>2, TouchRowEffect DEF IInv
    <3>3. CASE copies[r].uid # u
      BY <1>1, <2>1, <2>4, <3>1, <3>3, TouchRowEffect DEF IInv
    <3>4. QED
      BY <3>2, <3>3
  <2>5. ASSUME NEW gone \in SUBSET Uid, sessions' = Without(gone)
        PROVE  sessions'[u] = sessions[u]
    BY <1>1, <2>5, WithoutEffect DEF IInv
  <2>6. QED
    BY <1>1, <2>1, <2>3, <2>4, <2>5, TableStep
<1>2. IInv /\ [Next]_vars => [\A u \in Uid : Step(u)]_vars
  BY <1>1
<1>3. QED
  BY <1>2, Invariant, PTL DEF Spec, UseNeverExtends

-----------------------------------------------------------------------------
(* Refinement                                                              *)

\* Ids are opened when generated and never again, and settle for good.
LEMMA PhaseStep ==
  ASSUME IInv, [Next]_vars, NEW u \in Uid
  PROVE  /\ u \in minted => u \in minted'
         /\ u \in minted /\ ~Open(u) => ~Open(u)'
         /\ u \in minted' \ minted => Open(u)'
         /\ Open(u) => u \in minted
<1>1. Open(u) => u \in minted
  BY DEF IInv, IdsInv, Open
<1>2. ASSUME NEW r \in Req,
             \/ \E v \in Uid : Load(r, v)
             \/ Modify(r) \/ Save(r) \/ SaveReplaced(r)
             \/ DestroySession(r) \/ SendHeaders(r) \/ EndResponse(r)
      PROVE  /\ minted' = minted
             /\ \A s \in Req : s # r => copies'[s] = copies[s]
             /\ \/ copies'[r] = NoCopy
                \/ ~copies'[r].fresh
                \/ /\ copies[r] # NoCopy /\ copies'[r].fresh = copies[r].fresh
                   /\ copies'[r].uid = copies[r].uid
  <2>1. CASE \E v \in Uid : Load(r, v)
    BY <2>1 DEF Load, LoadedCopy, IInv, TypeOK
  <2>2. CASE Modify(r) \/ Save(r) \/ SaveReplaced(r) \/ SendHeaders(r)
    <3>1. copies[r] \in Copy /\ copies[r] # NoCopy
      BY <2>2 DEF Modify, Save, SaveReplaced, SendHeaders, Handling, IInv, TypeOK
    <3>2. QED
      BY <2>2, <3>1 DEF Modify, Save, SaveReplaced, SendHeaders, IInv, TypeOK, Copy
  <2>3. CASE DestroySession(r) \/ EndResponse(r)
    BY <2>3 DEF DestroySession, EndResponse, IInv, TypeOK
  <2>4. QED
    BY <1>2, <2>1, <2>2, <2>3
<1>3. ASSUME NEW r \in Req, NEW v \in Uid,
             \/ \E d \in BOOLEAN : Generate(r, v, d)
             \/ \E x \in User : ReplaceSession(r, v, x)
      PROVE  /\ v \notin minted /\ minted' = minted \cup {v}
             /\ \A s \in Req : s # r => copies'[s] = copies[s]
             /\ copies'[r] # NoCopy /\ copies'[r].fresh /\ copies'[r].uid = v
  <2>1. \A x \in Owner, d \in BOOLEAN, step \in {"handling", "replacing"} :
          /\ FreshCopy(v, x, d, step) \in Copy
          /\ FreshCopy(v, x, d, step).fresh /\ FreshCopy(v, x, d, step).uid = v
    BY NewCopies DEF IInv, FreshCopy
  <2>2. PICK x \in Owner, d \in BOOLEAN, step \in {"handling", "replacing"} :
          copies' = [copies EXCEPT ![r] = FreshCopy(v, x, d, step)]
    BY <1>3 DEF Generate, ReplaceSession, Owner
  <2>3. /\ copies'[r] = FreshCopy(v, x, d, step)
        /\ \A s \in Req : s # r => copies'[s] = copies[s]
    BY <2>2 DEF IInv, TypeOK
  <2>4. copies'[r] # NoCopy /\ copies'[r].fresh /\ copies'[r].uid = v
    BY <2>1, <2>3, SessionStoreAssumption
  <2>5. QED
    BY <1>3, <2>3, <2>4 DEF Generate, ReplaceSession
<1>4. CASE \E r \in Req : \/ \E v \in Uid : Load(r, v)
                          \/ Modify(r) \/ Save(r) \/ SaveReplaced(r)
                          \/ DestroySession(r) \/ SendHeaders(r) \/ EndResponse(r)
  BY <1>1, <1>2, <1>4 DEF Open
<1>5. CASE \E r \in Req, v \in Uid : \/ \E d \in BOOLEAN : Generate(r, v, d)
                                     \/ \E x \in User : ReplaceSession(r, v, x)
  BY <1>1, <1>3, <1>5 DEF Open
<1>6. CASE UNCHANGED <<copies, minted>>
  BY <1>1, <1>6 DEF Open
<1>7. QED
  BY <1>4, <1>5, <1>6 DEF Next, vars, RevokeOne, RevokeOthers, RevokeUser, Revoke, Tick

\* The store refines SessionLife: ids go one way from unborn to settled, and a
\* row appears only while the request that generated its id runs.
THEOREM Refinement == Spec => ImplementsLife
<1>1. Init => Life!Init
  BY DEF Init, Life!Init, PhaseOf, Stored
<1>2. ASSUME IInv, [Next]_vars
      PROVE  [Life!Next]_<<[u \in Uid |-> PhaseOf(u)], Stored>>
  <2>1. \A u \in Stored' \ Stored : PhaseOf(u) = "open"
    <3> SUFFICES ASSUME NEW u \in Uid, sessions[u] = NoRow, sessions'[u] # NoRow
                 PROVE  PhaseOf(u) = "open"
      BY DEF Stored
    <3>1. ASSUME NEW r \in Req, copies[r] # NoCopy, sessions' = SetRow(copies[r])
          PROVE  Open(u)
      <4>1. copies[r] \in Copy
        BY <1>2, <3>1 DEF IInv, TypeOK
      <4>2. copies[r].uid = u /\ copies[r].fresh
        BY <1>2, <3>1, <4>1, SetRowEffect DEF IInv
      <4>3. QED
        BY <3>1, <4>2 DEF Open
    <3>2. ASSUME NEW r \in Req, copies[r] # NoCopy
          PROVE  sessions' # TouchRow(copies[r])
      <4>1. copies[r] \in Copy
        BY <1>2, <3>2 DEF IInv, TypeOK
      <4>2. QED
        BY <1>2, <4>1, TouchRowEffect DEF IInv
    <3>3. ASSUME NEW gone \in SUBSET Uid PROVE sessions' # Without(gone)
      BY <1>2, WithoutEffect DEF IInv
    <3>4. Open(u)
      BY <1>2, <3>1, <3>2, <3>3, TableStep
    <3>5. QED
      BY <1>2, <3>4, PhaseStep DEF PhaseOf
  <2>2. \A u \in Uid : \/ PhaseOf(u)' = PhaseOf(u)
                       \/ PhaseOf(u) = "unborn" /\ PhaseOf(u)' = "open"
                       \/ PhaseOf(u) = "open" /\ PhaseOf(u)' = "settled"
    BY <1>2, PhaseStep DEF PhaseOf
  <2>3. \A u \in Uid : PhaseOf(u)' \in {"unborn", "open", "settled"}
    BY DEF PhaseOf
  <2>4. Life!Next
    BY <2>1, <2>2, <2>3 DEF Life!Next, Life!Moves, Life!Phase, Stored
  <2>5. QED
    BY <2>4
<1>3. QED
  BY <1>1, <1>2, Invariant, PTL DEF Spec, ImplementsLife, Life!Spec
=============================================================================
