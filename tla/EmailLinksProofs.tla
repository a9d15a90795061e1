-------------------------- MODULE EmailLinksProofs --------------------------
(***************************************************************************)
(* What holds of EmailLinks for any rows, addresses, links and requests.   *)
(***************************************************************************)
EXTENDS EmailLinks, TLAPS

-----------------------------------------------------------------------------
(* The inductive invariant                                                 *)

Tables == [Ident -> Email \cup {NoRow}]

(* PrimaryIsVerified, of any table of addresses.                           *)
PrimaryOf(table) ==
  /\ \A i \in Ident : table[i] # NoRow /\ table[i].primary => table[i].verified
  /\ (\E i \in Ident : table[i] # NoRow /\ table[i].verified)
       => \E i \in Ident : table[i] # NoRow /\ table[i].primary

RowsInv == Admitted(emails) /\ PrimaryOf(emails)

(* What a handler reads it holds until it ends.                            *)
Holds(local) ==
  /\ local.step \notin {"idle", "remove"} => local.addr \in Address
  /\ local.step \in {"verify_commit", "reset_commit"} => local.link \in Link
  /\ local.step \in {"change_commit", "remove"} => local.ident \in Ident

HeldInv == \A r \in Req : Holds(reqs[r])

(* The links that are out were issued since all links were last killed; a  *)
(* handler that holds one knows when it was issued.                        *)
LinksInv ==
  /\ \A l \in Link : links[l] # NoRow => links[l].issued = sealed
  /\ \A r \in Req : /\ reqs[r].step \in {"verify_commit", "reset_commit"}
                    /\ links[reqs[r].link] # NoRow
                    => reqs[r].issued = sealed

(* StrayLinksWereInFlight, and the same of the requests that insert one.   *)
StrayInv ==
  /\ StrayLinksWereInFlight
  /\ \A r \in Req : /\ reqs[r].step \in {"verify_insert", "reset_insert"}
                    /\ ~Held(reqs[r].addr)
                    => reqs[r].late

IInv == TypeOK /\ RowsInv /\ HeldInv /\ LinksInv /\ StrayInv

-----------------------------------------------------------------------------
(* The tables of addresses                                                 *)

LEMMA Constants ==
  /\ NoRow \notin Email /\ NoRow \notin LinkRow
  /\ None \notin Ident /\ None \notin Address /\ None \notin Link
  BY EmailLinksAssumption

\* assign_primary_email() changes no address, and leaves a verified primary
\* wherever there is a verified address.
LEMMA Assigned ==
  ASSUME NEW table \in Tables, Admitted(table),
         \A i \in Ident : table[i] # NoRow /\ table[i].primary => table[i].verified,
         NEW out, out \in AssignPrimary(table)
  PROVE  /\ out \in Tables
         /\ Admitted(out)
         /\ PrimaryOf(out)
         /\ \A i \in Ident : /\ out[i] # NoRow <=> table[i] # NoRow
                             /\ out[i] # NoRow => out[i].addr = table[i].addr
<1> DEFINE verified == {i \in Ident : table[i] # NoRow /\ table[i].verified}
<1>1. CASE \E i \in Ident : table[i] # NoRow /\ table[i].primary
  <2>1. out = table
    BY <1>1 DEF AssignPrimary
  <2> QED BY <1>1, <2>1 DEF PrimaryOf
<1>2. CASE /\ ~\E i \in Ident : table[i] # NoRow /\ table[i].primary
           /\ verified = {}
  <2>1. out = table
    BY <1>2 DEF AssignPrimary
  <2> QED BY <1>2, <2>1 DEF PrimaryOf
<1>3. CASE /\ ~\E i \in Ident : table[i] # NoRow /\ table[i].primary
           /\ verified # {}
  <2>1. PICK i \in verified : out = [table EXCEPT ![i].primary = TRUE]
    BY <1>3 DEF AssignPrimary
  <2>2. table[i] \in Email /\ table[i].verified /\ i \in Ident
    BY <2>1 DEF Tables
  <2>3. /\ out[i] \in Email /\ out[i].primary /\ out[i].verified
        /\ out[i].addr = table[i].addr
        /\ \A j \in Ident : j # i => out[j] = table[j]
    BY <2>1, <2>2 DEF Tables, Email
  <2>4. out \in Tables
    BY <2>1, <2>2, <2>3 DEF Tables
  <2>5. \A j \in Ident : /\ out[j] # NoRow <=> table[j] # NoRow
                         /\ out[j] # NoRow => out[j].addr = table[j].addr
    BY <2>2, <2>3, Constants
  <2>6. \A j \in Ident : out[j] # NoRow /\ out[j].primary => j = i
    BY <1>3, <2>3
  <2>7. Admitted(out)
    BY <2>5, <2>6 DEF Admitted
  <2>8. PrimaryOf(out)
    BY <2>2, <2>3, <2>6, Constants DEF PrimaryOf
  <2> QED BY <2>4, <2>5, <2>7, <2>8
<1> QED BY <1>1, <1>2, <1>3

LEMMA PrimaryInv == RowsInv => PrimaryIsVerified
  BY DEF RowsInv, PrimaryOf, PrimaryIsVerified, Primary, Rows

\* The steps that change the addresses, each with the table it starts from.
LEMMA VerifyRows ==
  ASSUME IInv, NEW r \in Req, VerifyCommit(r)
  PROVE  /\ emails' \in Tables /\ RowsInv'
         /\ \A i \in Ident : /\ emails'[i] # NoRow <=> emails[i] # NoRow
                             /\ emails'[i] # NoRow => emails'[i].addr = emails[i].addr
<1> DEFINE table == [i \in Ident |-> IF i \in Rows /\ emails[i].addr = reqs[r].addr
                        THEN [emails[i] EXCEPT !.verified = TRUE] ELSE emails[i]]
<1>1. emails \in Tables /\ Admitted(emails) /\ PrimaryOf(emails)
  BY DEF IInv, TypeOK, RowsInv, Tables
<1>2. \A i \in Ident : /\ table[i] \in Email \cup {NoRow}
                       /\ table[i] # NoRow <=> emails[i] # NoRow
                       /\ table[i] # NoRow => /\ table[i].addr = emails[i].addr
                                              /\ table[i].primary = emails[i].primary
                                              /\ emails[i].verified => table[i].verified
  <2> SUFFICES ASSUME NEW i \in Ident
               PROVE  /\ table[i] \in Email \cup {NoRow}
                      /\ table[i] # NoRow <=> emails[i] # NoRow
                      /\ table[i] # NoRow => /\ table[i].addr = emails[i].addr
                                             /\ table[i].primary = emails[i].primary
                                             /\ emails[i].verified => table[i].verified
    OBVIOUS
  <2>1. emails[i] \in Email \cup {NoRow}
    BY <1>1 DEF Tables
  <2>2. CASE i \in Rows /\ emails[i].addr = reqs[r].addr
    BY <2>1, <2>2, Constants DEF Rows, Email
  <2>3. CASE ~(i \in Rows /\ emails[i].addr = reqs[r].addr)
    BY <2>1, <2>3
  <2> QED BY <2>2, <2>3
<1>3. table \in Tables
  BY <1>2 DEF Tables
<1>4. emails' \in AssignPrimary(table)
  BY DEF VerifyCommit
<1> HIDE DEF table
<1>5. Admitted(table)
  BY <1>1, <1>2 DEF Admitted
<1>6. \A i \in Ident : table[i] # NoRow /\ table[i].primary => table[i].verified
  BY <1>1, <1>2 DEF PrimaryOf
<1> QED BY <1>2, <1>3, <1>4, <1>5, <1>6, Assigned DEF RowsInv

LEMMA ChangeRows ==
  ASSUME IInv, NEW r \in Req, NEW i \in Ident, ChangeCommit(r, i)
  PROVE  emails' \in Tables /\ RowsInv'
<1> DEFINE new == [addr |-> reqs[r].addr, verified |-> TRUE, primary |-> reqs[r].primary]
           table == [emails EXCEPT ![reqs[r].ident] = NoRow, ![i] = new]
<1>1. emails \in Tables /\ PrimaryOf(emails)
  BY DEF IInv, TypeOK, RowsInv, Tables
<1>2. new \in Email
  BY DEF ChangeCommit, IInv, TypeOK, HeldInv, Holds, Local, Email
<1>3. table \in Tables
  BY <1>1, <1>2 DEF Tables
<1>4. \A j \in Ident : table[j] # NoRow /\ table[j].primary => table[j].verified
  BY <1>1 DEF PrimaryOf, Tables
<1>5. Admitted(table) /\ emails' \in AssignPrimary(table)
  BY DEF ChangeCommit
<1> HIDE DEF table
<1> QED BY <1>3, <1>4, <1>5, Assigned DEF RowsInv

LEMMA RemoveRows ==
  ASSUME IInv, NEW r \in Req, RemoveCommit(r)
  PROVE  emails' \in Tables /\ RowsInv'
<1> DEFINE table == [emails EXCEPT ![reqs[r].ident] = NoRow]
<1>1. emails \in Tables /\ Admitted(emails) /\ PrimaryOf(emails)
  BY DEF IInv, TypeOK, RowsInv, Tables
<1>2. table \in Tables
  BY <1>1 DEF Tables
<1>3. \A j \in Ident : table[j] # NoRow => table[j] = emails[j] /\ emails[j] # NoRow
  BY <1>1 DEF Tables
<1>4. Admitted(table) /\ \A j \in Ident : table[j] # NoRow /\ table[j].primary => table[j].verified
  BY <1>1, <1>3 DEF Admitted, PrimaryOf
<1>5. emails' \in AssignPrimary(table)
  BY DEF RemoveCommit
<1> HIDE DEF table
<1> QED BY <1>2, <1>4, <1>5, Assigned DEF RowsInv

LEMMA AddRows ==
  ASSUME IInv, NEW r \in Req, NEW i \in Ident, AddInsert(r, i)
  PROVE  /\ emails' \in Tables /\ RowsInv'
         /\ emails'[i] # NoRow /\ emails'[i].addr = reqs[r].addr
         /\ \A j \in Ident : emails[j] # NoRow => emails'[j] = emails[j]
<1> DEFINE new == [addr |-> reqs[r].addr, verified |-> FALSE, primary |-> FALSE]
<1>1. emails \in Tables /\ PrimaryOf(emails)
  BY DEF IInv, TypeOK, RowsInv, Tables
<1>2. new \in Email
  BY DEF AddInsert, IInv, HeldInv, Holds, Email
<1>3. emails' = [emails EXCEPT ![i] = new] /\ emails[i] = NoRow /\ Admitted(emails)'
  BY DEF AddInsert, FreeIdent, Admitted
<1>4. emails' \in Tables /\ emails'[i] = new /\ emails'[i] # NoRow
      /\ \A j \in Ident : j # i => emails'[j] = emails[j]
  BY <1>1, <1>2, <1>3, Constants DEF Tables
<1>5. PrimaryOf(emails')
  BY <1>1, <1>3, <1>4 DEF PrimaryOf
<1> QED BY <1>3, <1>4, <1>5 DEF RowsInv

\* The rows of the addresses stay as the unique indexes and
\* assign_primary_email() leave them.
LEMMA RowsStep == IInv /\ [Next]_vars => emails' \in Tables /\ RowsInv'
<1> SUFFICES ASSUME IInv, [Next]_vars PROVE emails' \in Tables /\ RowsInv'
  OBVIOUS
<1>1. ASSUME UNCHANGED emails PROVE emails' \in Tables /\ RowsInv'
  BY <1>1 DEF IInv, TypeOK, Tables, RowsInv, Admitted, PrimaryOf
<1>2. ASSUME NEW r \in Req, NEW l \in Link, NEW kind, NEW value,
             InsertLink(r, l, kind, value) \/ FindLink(r, l, kind, value)
      PROVE  UNCHANGED emails
  BY <1>2 DEF InsertLink, FindLink
<1>3. ASSUME NEW r \in Req, VerifyCommit(r) PROVE emails' \in Tables /\ RowsInv'
  BY <1>3, VerifyRows
<1>4. ASSUME NEW r \in Req, RemoveCommit(r) PROVE emails' \in Tables /\ RowsInv'
  BY <1>4, RemoveRows
<1>5. ASSUME NEW r \in Req, NEW i \in Ident, ChangeCommit(r, i)
      PROVE  emails' \in Tables /\ RowsInv'
  BY <1>5, ChangeRows
<1>6. ASSUME NEW r \in Req, NEW i \in Ident, AddInsert(r, i)
      PROVE  emails' \in Tables /\ RowsInv'
  BY <1>6, AddRows
<1>7. ASSUME NEW r \in Req, NEW l \in Link,
             \/ VerifyInsert(r, l) \/ VerifyFind(r, l) \/ ResetInsert(r, l)
             \/ ResetFind(r, l) \/ ChangeInsert(r, l) \/ ChangeFind(r, l)
      PROVE  UNCHANGED emails
  BY <1>7, <1>2 DEF VerifyInsert, VerifyFind, ResetInsert, ResetFind, ChangeInsert,
                    ChangeFind
<1>8. ASSUME NEW r \in Req, NEW a \in Address, AddCheck(r, a) \/ ChangeRequest(r, a)
      PROVE  UNCHANGED emails
  BY <1>8 DEF AddCheck, ChangeRequest
<1>9. ASSUME NEW r \in Req, NEW i \in Ident,
             \/ VerifyRequest(r, i) \/ ResetRequest(r, i)
             \/ ChangeIdent(r, i) \/ RemoveCheck(r, i)
      PROVE  UNCHANGED emails
  BY <1>9 DEF VerifyRequest, ResetRequest, ChangeIdent, RemoveCheck
<1>10. ASSUME NEW r \in Req, ResetCommit(r) \/ Abort(r) PROVE UNCHANGED emails
  BY <1>10 DEF ResetCommit, Abort
<1>11. ASSUME NEW l \in Link, Approve(l) PROVE UNCHANGED emails
  BY <1>11 DEF Approve
<1>12. CASE UNCHANGED vars
  BY <1>12, <1>1 DEF vars
<1> QED
  BY <1>1, <1>3, <1>4, <1>5, <1>6, <1>7, <1>8, <1>9, <1>10, <1>11, <1>12 DEF Next

-----------------------------------------------------------------------------
(* Types                                                                   *)

\* Nothing leaves its type, and a handler holds what its next step needs.
LEMMA TypeStep == IInv /\ [Next]_vars => TypeOK' /\ HeldInv'
<1> SUFFICES ASSUME IInv, [Next]_vars PROVE TypeOK' /\ HeldInv'
  OBVIOUS
<1>0. /\ emails \in Tables /\ links \in [Link -> LinkRow \cup {NoRow}]
      /\ reqs \in [Req -> Local] /\ sealed \in Nat /\ changed \in 0..sealed
      /\ \A q \in Req : reqs[q] \in Local /\ Holds(reqs[q])
      /\ emails' \in Tables
  BY RowsStep DEF IInv, TypeOK, Tables, HeldInv
<1> USE Constants
<1>a. Idle \in Local /\ Holds(Idle)
  BY DEF Idle, Local, Step, Holds
<1>b. ASSUME links' \in [Link -> LinkRow \cup {NoRow}], reqs' \in [Req -> Local],
             \A q \in Req : Holds(reqs'[q]), UNCHANGED <<sealed, changed>>
      PROVE  TypeOK' /\ HeldInv'
  BY <1>0, <1>b DEF TypeOK, Tables, HeldInv
<1>c. ASSUME NEW r \in Req, NEW local \in Local, Holds(local),
             reqs' = [reqs EXCEPT ![r] = local], UNCHANGED <<links, sealed, changed>>
      PROVE  TypeOK' /\ HeldInv'
  <2>1. reqs' \in [Req -> Local] /\ \A q \in Req : Holds(reqs'[q])
    BY <1>0, <1>c
  <2> QED BY <1>0, <1>b, <1>c, <2>1
<1>1. ASSUME NEW r \in Req, NEW l \in Link, NEW kind \in {"verify", "change", "reset"},
             NEW approved \in BOOLEAN, InsertLink(r, l, kind, approved),
             reqs[r].addr \in Address
      PROVE  TypeOK' /\ HeldInv'
  <2>1. [kind |-> kind, to |-> reqs[r].addr, approved |-> approved,
         issued |-> sealed, late |-> reqs[r].late] \in LinkRow
    BY <1>0, <1>1 DEF LinkRow, Local
  <2>2. links' \in [Link -> LinkRow \cup {NoRow}]
    BY <1>0, <1>1, <2>1 DEF InsertLink
  <2>3. reqs' \in [Req -> Local] /\ \A q \in Req : Holds(reqs'[q])
    BY <1>0, <1>1, <1>a DEF InsertLink
  <2> QED BY <1>1, <1>b, <2>2, <2>3 DEF InsertLink
<1>2. ASSUME NEW r \in Req, NEW l \in Link, NEW kind,
             NEW next \in {"verify_commit", "reset_commit", "change_ident"},
             FindLink(r, l, kind, next)
      PROVE  TypeOK' /\ HeldInv'
  <2> DEFINE local == [reqs[r] EXCEPT !.step = next, !.link = l,
                                      !.addr = links[l].to, !.issued = links[l].issued]
  <2>1. links[l].to \in Address /\ links[l].issued \in Nat
    BY <1>0, <1>2 DEF FindLink, LinkRow
  <2>2. local \in Local /\ Holds(local)
    BY <1>0, <2>1 DEF Local, Step, Holds
  <2>3. reqs' = [reqs EXCEPT ![r] = local] /\ UNCHANGED <<links, sealed, changed>>
    BY <1>0, <1>2 DEF FindLink
  <2> HIDE DEF local
  <2> QED BY <1>c, <2>2, <2>3
<1>3. ASSUME NEW r \in Req, KillLinks(r), changed' \in {changed, sealed + 1}
      PROVE  TypeOK' /\ HeldInv'
  <2>1. \A q \in Req : /\ [reqs[q] EXCEPT !.late = TRUE] \in Local
                        /\ Holds([reqs[q] EXCEPT !.late = TRUE])
    BY <1>0 DEF Local, Holds
  <2>2. reqs' \in [Req -> Local] /\ \A q \in Req : Holds(reqs'[q])
    BY <1>3, <1>a, <2>1 DEF KillLinks
  <2>3. links' \in [Link -> LinkRow \cup {NoRow}]
    BY <1>3 DEF KillLinks
  <2>4. sealed' \in Nat /\ changed' \in 0..sealed'
    <3>1. sealed' = sealed + 1
      BY <1>3 DEF KillLinks
    <3> QED BY <1>0, <1>3, <3>1
  <2> QED BY <1>0, <2>2, <2>3, <2>4 DEF TypeOK, Tables, HeldInv
<1>4. ASSUME NEW r \in Req, NEW a \in Address, AddCheck(r, a) PROVE TypeOK' /\ HeldInv'
  <2> DEFINE local == [reqs[r] EXCEPT !.step = "add", !.addr = a]
  <2>1. local \in Local /\ Holds(local)
    BY <1>0 DEF Local, Step, Holds
  <2>2. reqs' = [reqs EXCEPT ![r] = local] /\ UNCHANGED <<links, sealed, changed>>
    BY <1>0, <1>4 DEF AddCheck
  <2> HIDE DEF local
  <2> QED BY <1>c, <2>1, <2>2
<1>5. ASSUME NEW r \in Req, NEW i \in Ident, AddInsert(r, i) PROVE TypeOK' /\ HeldInv'
  <2> DEFINE local == [reqs[r] EXCEPT !.step = "verify_insert"]
  <2>1. local \in Local /\ Holds(local)
    BY <1>0, <1>5 DEF AddInsert, Local, Step, Holds
  <2>2. reqs' = [reqs EXCEPT ![r] = local] /\ UNCHANGED <<links, sealed, changed>>
    BY <1>0, <1>5 DEF AddInsert
  <2> HIDE DEF local
  <2> QED BY <1>c, <2>1, <2>2
<1>6. ASSUME NEW r \in Req, NEW i \in Rows, NEW step \in {"verify_insert", "reset_insert"},
             reqs' = [reqs EXCEPT ![r].step = step, ![r].addr = emails[i].addr],
             UNCHANGED <<links, sealed, changed>>
      PROVE  TypeOK' /\ HeldInv'
  <2> DEFINE local == [reqs[r] EXCEPT !.step = step, !.addr = emails[i].addr]
  <2>1. emails[i].addr \in Address
    BY <1>0, <1>6 DEF Rows, Tables, Email
  <2>2. local \in Local /\ Holds(local)
    BY <1>0, <2>1 DEF Local, Step, Holds
  <2>3. reqs' = [reqs EXCEPT ![r] = local]
    BY <1>0, <1>6
  <2> HIDE DEF local
  <2> QED BY <1>6, <1>c, <2>2, <2>3
<1>7. ASSUME NEW r \in Req, NEW i \in Ident, VerifyRequest(r, i) \/ ResetRequest(r, i)
      PROVE  TypeOK' /\ HeldInv'
  BY <1>6, <1>7 DEF VerifyRequest, ResetRequest
<1>8. ASSUME NEW r \in Req, NEW l \in Link,
             VerifyInsert(r, l) \/ ResetInsert(r, l) \/ ChangeInsert(r, l)
      PROVE  TypeOK' /\ HeldInv'
  <2>1. reqs[r].addr \in Address /\ reqs[r].approved \in BOOLEAN
    BY <1>0, <1>8 DEF VerifyInsert, ResetInsert, ChangeInsert, Holds, Local
  <2> QED BY <1>1, <1>8, <2>1 DEF VerifyInsert, ResetInsert, ChangeInsert
<1>9. ASSUME NEW r \in Req, NEW l \in Link,
             VerifyFind(r, l) \/ ResetFind(r, l) \/ ChangeFind(r, l)
      PROVE  TypeOK' /\ HeldInv'
  BY <1>2, <1>9 DEF VerifyFind, ResetFind, ChangeFind
<1>10. ASSUME NEW r \in Req, VerifyCommit(r) PROVE TypeOK' /\ HeldInv'
  <2>1. reqs' \in [Req -> Local] /\ \A q \in Req : Holds(reqs'[q])
    BY <1>0, <1>10, <1>a DEF VerifyCommit
  <2>2. links' \in [Link -> LinkRow \cup {NoRow}] /\ UNCHANGED <<sealed, changed>>
    BY <1>0, <1>10 DEF VerifyCommit
  <2> QED BY <1>b, <2>1, <2>2
<1>11. ASSUME NEW r \in Req,
              ResetCommit(r) \/ RemoveCommit(r) \/ \E i \in Ident : ChangeCommit(r, i)
       PROVE  TypeOK' /\ HeldInv'
  BY <1>3, <1>11 DEF ResetCommit, RemoveCommit, ChangeCommit
<1>12. ASSUME NEW r \in Req, NEW a \in Address, ChangeRequest(r, a) PROVE TypeOK' /\ HeldInv'
  <2> DEFINE local == [reqs[r] EXCEPT !.step = "change_insert", !.addr = a,
                                      !.approved = (Primary = {})]
  <2>1. local \in Local /\ Holds(local)
    BY <1>0 DEF Local, Step, Holds
  <2>2. reqs' = [reqs EXCEPT ![r] = local] /\ UNCHANGED <<links, sealed, changed>>
    BY <1>0, <1>12 DEF ChangeRequest
  <2> HIDE DEF local
  <2> QED BY <1>c, <2>1, <2>2
<1>13. ASSUME NEW l \in Link, Approve(l) PROVE TypeOK' /\ HeldInv'
  <2>1. links' \in [Link -> LinkRow \cup {NoRow}]
    BY <1>0, <1>13 DEF Approve, LinkRow
  <2> QED BY <1>0, <1>13, <1>b, <2>1 DEF Approve
<1>14. ASSUME NEW r \in Req, NEW i \in Ident, ChangeIdent(r, i) PROVE TypeOK' /\ HeldInv'
  <2> DEFINE local == [reqs[r] EXCEPT !.step = "change_commit", !.ident = i,
                                      !.primary = emails[i].primary]
  <2>1. emails[i].primary \in BOOLEAN
    BY <1>0, <1>14 DEF ChangeIdent, Primary, Rows, Tables, Email
  <2>2. local \in Local /\ Holds(local)
    BY <1>0, <1>14, <2>1 DEF ChangeIdent, Local, Step, Holds
  <2>3. reqs' = [reqs EXCEPT ![r] = local] /\ UNCHANGED <<links, sealed, changed>>
    BY <1>0, <1>14 DEF ChangeIdent
  <2> HIDE DEF local
  <2> QED BY <1>c, <2>2, <2>3
<1>15. ASSUME NEW r \in Req, NEW i \in Ident, RemoveCheck(r, i) PROVE TypeOK' /\ HeldInv'
  <2> DEFINE local == [reqs[r] EXCEPT !.step = "remove", !.ident = i]
  <2>1. local \in Local /\ Holds(local)
    BY <1>0 DEF Local, Step, Holds
  <2>2. reqs' = [reqs EXCEPT ![r] = local] /\ UNCHANGED <<links, sealed, changed>>
    BY <1>0, <1>15 DEF RemoveCheck
  <2> HIDE DEF local
  <2> QED BY <1>c, <2>1, <2>2
<1>16. ASSUME NEW r \in Req, Abort(r) PROVE TypeOK' /\ HeldInv'
  BY <1>16, <1>a, <1>c DEF Abort
<1>17. CASE UNCHANGED vars
  BY <1>0, <1>17, <1>b DEF vars
<1> QED
  BY <1>4, <1>5, <1>7, <1>8, <1>9, <1>10, <1>11, <1>12, <1>13, <1>14, <1>15, <1>16, <1>17
  DEF Next

-----------------------------------------------------------------------------
(* The links                                                               *)

\* Killing the links leaves none, and marks whoever is in flight.
LEMMA Killed ==
  ASSUME IInv, [Next]_vars, NEW r \in Req, KillLinks(r)
  PROVE  LinksInv' /\ StrayInv'
<1>0. /\ HeldInv' /\ reqs' \in [Req -> Local] /\ reqs \in [Req -> Local]
  BY TypeStep DEF IInv, TypeOK
<1>1. \A l \in Link : links'[l] = NoRow
  BY DEF KillLinks
<1>2. \A q \in Req : reqs'[q].step \in {"verify_commit", "reset_commit"}
                        => reqs'[q].link \in Link
  BY <1>0 DEF HeldInv, Holds
<1>3. \A q \in Req : reqs'[q].step # "idle" => reqs'[q].late
  BY <1>0 DEF KillLinks, Idle, Local
<1>4. LinksInv'
  BY <1>1, <1>2 DEF LinksInv
<1>5. StrayLinksWereInFlight'
  BY <1>1 DEF StrayLinksWereInFlight
<1> QED BY <1>3, <1>4, <1>5 DEF StrayInv

\* What is out stays as young as the last time the links were killed.
LEMMA LinksStep == IInv /\ [Next]_vars => LinksInv'
<1> SUFFICES ASSUME IInv, [Next]_vars PROVE LinksInv'
  OBVIOUS
<1>0. /\ links \in [Link -> LinkRow \cup {NoRow}] /\ reqs \in [Req -> Local] /\ LinksInv
      /\ \A q \in Req : reqs[q].step \in {"verify_commit", "reset_commit"} => reqs[q].link \in Link
  BY DEF IInv, TypeOK, HeldInv, Holds
<1>a. ASSUME NEW r \in Req, UNCHANGED <<links, sealed>>,
             reqs'[r].step \notin {"verify_commit", "reset_commit"},
             \A q \in Req \ {r} : reqs'[q] = reqs[q]
      PROVE  LinksInv'
  BY <1>0, <1>a DEF LinksInv
<1>1. ASSUME NEW r \in Req, NEW l \in Link, NEW kind, NEW approved,
             InsertLink(r, l, kind, approved)
      PROVE  LinksInv'
  <2>1. /\ links'[l].issued = sealed /\ sealed' = sealed
        /\ \A m \in Link : m # l => links'[m] = links[m]
    BY <1>0, <1>1 DEF InsertLink
  <2>2. reqs'[r].step = "idle" /\ \A q \in Req : q # r => reqs'[q] = reqs[q] /\ reqs[q].link # l
    BY <1>0, <1>1 DEF InsertLink, FreeLink, Idle
  <2> QED BY <1>0, <2>1, <2>2 DEF LinksInv
<1>2. ASSUME NEW r \in Req, NEW l \in Link, NEW kind, NEW next, FindLink(r, l, kind, next)
      PROVE  LinksInv'
  <2>1. /\ reqs'[r].issued = links[l].issued /\ reqs'[r].link = l
        /\ \A q \in Req : q # r => reqs'[q] = reqs[q]
    BY <1>0, <1>2 DEF FindLink, Local
  <2>2. UNCHANGED <<links, sealed>> /\ links[l].issued = sealed
    BY <1>0, <1>2 DEF FindLink, LinksInv
  <2> QED BY <1>0, <2>1, <2>2 DEF LinksInv
<1>3. ASSUME NEW r \in Req, VerifyCommit(r) PROVE LinksInv'
  <2>1. sealed' = sealed /\ \A l \in Link : links'[l] # NoRow => links'[l] = links[l]
    BY <1>0, <1>3 DEF VerifyCommit
  <2>2. reqs'[r].step = "idle" /\ \A q \in Req : q # r => reqs'[q] = reqs[q]
    BY <1>0, <1>3 DEF VerifyCommit, Idle
  <2> QED BY <1>0, <2>1, <2>2 DEF LinksInv
<1>4. ASSUME NEW l \in Link, Approve(l) PROVE LinksInv'
  <2>1. /\ UNCHANGED <<reqs, sealed>>
        /\ \A m \in Link : /\ links'[m] # NoRow => links[m] # NoRow
                            /\ links'[m].issued = links[m].issued
    BY <1>0, <1>4 DEF Approve, LinkRow
  <2> QED BY <1>0, <2>1 DEF LinksInv
<1>5. ASSUME NEW r \in Req, NEW i \in Ident,
             \/ AddInsert(r, i) \/ VerifyRequest(r, i) \/ ResetRequest(r, i)
             \/ ChangeIdent(r, i) \/ RemoveCheck(r, i)
      PROVE  LinksInv'
  <2>1. /\ UNCHANGED <<links, sealed>> /\ \A q \in Req \ {r} : reqs'[q] = reqs[q]
        /\ reqs'[r].step \notin {"verify_commit", "reset_commit"}
    BY <1>0, <1>5 DEF AddInsert, VerifyRequest, ResetRequest, ChangeIdent, RemoveCheck, Local
  <2> QED BY <1>a, <2>1
<1>6. ASSUME NEW r \in Req, NEW a \in Address, AddCheck(r, a) \/ ChangeRequest(r, a)
      PROVE  LinksInv'
  <2>1. /\ UNCHANGED <<links, sealed>> /\ \A q \in Req \ {r} : reqs'[q] = reqs[q]
        /\ reqs'[r].step \notin {"verify_commit", "reset_commit"}
    BY <1>0, <1>6 DEF AddCheck, ChangeRequest, Local
  <2> QED BY <1>a, <2>1
<1>7. ASSUME NEW r \in Req, Abort(r) PROVE LinksInv'
  <2>1. /\ UNCHANGED <<links, sealed>> /\ \A q \in Req \ {r} : reqs'[q] = reqs[q]
        /\ reqs'[r].step \notin {"verify_commit", "reset_commit"}
    BY <1>0, <1>7 DEF Abort, Idle
  <2> QED BY <1>a, <2>1
<1>8. ASSUME NEW r \in Req,
             ResetCommit(r) \/ RemoveCommit(r) \/ \E i \in Ident : ChangeCommit(r, i)
      PROVE  LinksInv'
  BY <1>8, Killed DEF ResetCommit, RemoveCommit, ChangeCommit
<1>9. ASSUME NEW r \in Req, NEW l \in Link,
             VerifyInsert(r, l) \/ ResetInsert(r, l) \/ ChangeInsert(r, l)
      PROVE  LinksInv'
  BY <1>1, <1>9 DEF VerifyInsert, ResetInsert, ChangeInsert
<1>10. ASSUME NEW r \in Req, NEW l \in Link,
             VerifyFind(r, l) \/ ResetFind(r, l) \/ ChangeFind(r, l)
      PROVE  LinksInv'
  BY <1>2, <1>10 DEF VerifyFind, ResetFind, ChangeFind
<1>11. CASE UNCHANGED vars
  BY <1>0, <1>11 DEF vars, LinksInv
<1> QED
  BY <1>3, <1>4, <1>5, <1>6, <1>7, <1>8, <1>9, <1>10, <1>11 DEF Next

\* A link whose address left was in flight when it left.
LEMMA StrayStep == IInv /\ [Next]_vars => StrayInv'
<1> SUFFICES ASSUME IInv, [Next]_vars PROVE StrayInv'
  OBVIOUS
<1>0. /\ links \in [Link -> LinkRow \cup {NoRow}] /\ reqs \in [Req -> Local]
      /\ emails \in Tables /\ StrayInv
  BY DEF IInv, TypeOK, Tables
<1> DEFINE Inserting == {"verify_insert", "reset_insert"}
<1>a. ASSUME \A a \in Address : Held(a) => Held(a)',
             \A l \in Link : links'[l] # NoRow =>
               /\ links[l] # NoRow /\ links'[l].kind = links[l].kind
               /\ links'[l].to = links[l].to /\ links'[l].late = links[l].late,
             \A q \in Req : reqs'[q].step \in Inserting =>
               reqs'[q] = reqs[q] \/ Held(reqs[q].addr)'
      PROVE  StrayInv'
  <2>1. \A l \in Link : links[l] # NoRow => links[l].to \in Address
    BY <1>0 DEF LinkRow
  <2>2. \A q \in Req : reqs[q].step \in Inserting => reqs[q].addr \in Address
    BY DEF IInv, HeldInv, Holds
  <2>3. StrayLinksWereInFlight'
    BY <1>0, <1>a, <2>1 DEF StrayInv, StrayLinksWereInFlight
  <2> QED BY <1>0, <1>a, <2>2, <2>3 DEF StrayInv
<1>b. ASSUME NEW r \in Req, UNCHANGED <<emails, links>>, reqs'[r].step \notin Inserting,
             \A q \in Req \ {r} : reqs'[q] = reqs[q]
      PROVE  StrayInv'
  <2>1. \A a \in Address : Held(a) => Held(a)'
    BY <1>b DEF Held, Rows
  <2> QED BY <1>a, <1>b, <2>1
<1>1. ASSUME NEW r \in Req, NEW l \in Link, NEW kind, NEW approved,
             InsertLink(r, l, kind, approved),
             kind \in {"verify", "reset"} => reqs[r].step \in Inserting
      PROVE  StrayInv'
  <2>1. /\ links'[l].kind = kind /\ links'[l].to = reqs[r].addr /\ links'[l].late = reqs[r].late
        /\ \A m \in Link : m # l => links'[m] = links[m]
    BY <1>0, <1>1 DEF InsertLink
  <2>2. reqs'[r].step = "idle" /\ \A q \in Req : q # r => reqs'[q] = reqs[q]
    BY <1>0, <1>1 DEF InsertLink, Idle
  <2>3. \A a : Held(a)' <=> Held(a)
    BY <1>1 DEF InsertLink, Held, Rows
  <2>4. StrayLinksWereInFlight'
    BY <1>0, <1>1, <2>1, <2>3 DEF StrayInv, StrayLinksWereInFlight
  <2> QED BY <1>0, <2>2, <2>3, <2>4 DEF StrayInv
<1>2. ASSUME NEW r \in Req, NEW l \in Link, NEW kind,
             NEW next \in {"verify_commit", "reset_commit", "change_ident"},
             FindLink(r, l, kind, next)
      PROVE  StrayInv'
  <2>1. /\ reqs'[r].step \notin Inserting /\ UNCHANGED <<emails, links>>
        /\ \A q \in Req \ {r} : reqs'[q] = reqs[q]
    BY <1>0, <1>2 DEF FindLink, Local
  <2> QED BY <1>b, <2>1
<1>3. ASSUME NEW r \in Req, VerifyCommit(r) PROVE StrayInv'
  <2>1. \A a \in Address : Held(a) => Held(a)'
    BY <1>3, VerifyRows DEF Held, Rows
  <2>2. \A l \in Link : links'[l] # NoRow => links'[l] = links[l]
    BY <1>0, <1>3 DEF VerifyCommit
  <2>3. reqs'[r].step = "idle" /\ \A q \in Req : q # r => reqs'[q] = reqs[q]
    BY <1>0, <1>3 DEF VerifyCommit, Idle
  <2> QED BY <1>a, <2>1, <2>2, <2>3
<1>4. ASSUME NEW r \in Req, NEW i \in Ident, AddInsert(r, i) PROVE StrayInv'
  <2>1. /\ emails'[i] # NoRow /\ emails'[i].addr = reqs[r].addr
        /\ \A j \in Ident : emails[j] # NoRow => emails'[j] = emails[j]
    BY <1>4, AddRows
  <2>2. \A a \in Address : Held(a) => Held(a)'
    BY <2>1 DEF Held, Rows
  <2>3. /\ links' = links /\ \A q \in Req : q # r => reqs'[q] = reqs[q]
        /\ reqs'[r].addr = reqs[r].addr
    BY <1>0, <1>4 DEF AddInsert, Local
  <2>4. Held(reqs[r].addr)'
    BY <2>1, <2>3 DEF Held, Rows
  <2> QED BY <1>a, <2>2, <2>3, <2>4
<1>5. ASSUME NEW r \in Req, NEW i \in Ident, VerifyRequest(r, i) \/ ResetRequest(r, i)
      PROVE  StrayInv'
  <2>1. /\ UNCHANGED <<emails, links>> /\ \A q \in Req : q # r => reqs'[q] = reqs[q]
        /\ i \in Rows /\ reqs'[r].addr = emails[i].addr
    BY <1>0, <1>5 DEF VerifyRequest, ResetRequest, Local
  <2>2. Held(reqs[r].addr)' /\ \A a \in Address : Held(a) => Held(a)'
    BY <2>1 DEF Held, Rows
  <2> QED BY <1>a, <2>1, <2>2
<1>6. ASSUME NEW r \in Req, NEW i \in Ident, ChangeIdent(r, i) \/ RemoveCheck(r, i)
      PROVE  StrayInv'
  <2>1. /\ UNCHANGED <<emails, links>> /\ \A q \in Req \ {r} : reqs'[q] = reqs[q]
        /\ reqs'[r].step \notin Inserting
    BY <1>0, <1>6 DEF ChangeIdent, RemoveCheck, Local
  <2> QED BY <1>b, <2>1
<1>7. ASSUME NEW r \in Req, NEW a \in Address, AddCheck(r, a) \/ ChangeRequest(r, a)
      PROVE  StrayInv'
  <2>1. /\ UNCHANGED <<emails, links>> /\ \A q \in Req \ {r} : reqs'[q] = reqs[q]
        /\ reqs'[r].step \notin Inserting
    BY <1>0, <1>7 DEF AddCheck, ChangeRequest, Local
  <2> QED BY <1>b, <2>1
<1>8. ASSUME NEW r \in Req, Abort(r) PROVE StrayInv'
  <2>1. /\ UNCHANGED <<emails, links>> /\ \A q \in Req \ {r} : reqs'[q] = reqs[q]
        /\ reqs'[r].step \notin Inserting
    BY <1>0, <1>8 DEF Abort, Idle
  <2> QED BY <1>b, <2>1
<1>9. ASSUME NEW r \in Req,
             ResetCommit(r) \/ RemoveCommit(r) \/ \E i \in Ident : ChangeCommit(r, i)
      PROVE  StrayInv'
  BY <1>9, Killed DEF ResetCommit, RemoveCommit, ChangeCommit
<1>10. ASSUME NEW r \in Req, NEW l \in Link,
              VerifyInsert(r, l) \/ ResetInsert(r, l) \/ ChangeInsert(r, l)
       PROVE  StrayInv'
  BY <1>1, <1>10 DEF VerifyInsert, ResetInsert, ChangeInsert
<1>11. ASSUME NEW r \in Req, NEW l \in Link,
              VerifyFind(r, l) \/ ResetFind(r, l) \/ ChangeFind(r, l)
       PROVE  StrayInv'
  BY <1>2, <1>11 DEF VerifyFind, ResetFind, ChangeFind
<1>12. ASSUME NEW l \in Link, Approve(l) PROVE StrayInv'
  <2>1. \A m \in Link : links'[m] # NoRow =>
          /\ links[m] # NoRow /\ links'[m].kind = links[m].kind
          /\ links'[m].to = links[m].to /\ links'[m].late = links[m].late
    BY <1>0, <1>12 DEF Approve, LinkRow
  <2>2. reqs' = reqs /\ \A a \in Address : Held(a) => Held(a)'
    BY <1>12 DEF Approve, Held, Rows
  <2> QED BY <1>a, <2>1, <2>2
<1>13. CASE UNCHANGED vars
  <2>1. \A a \in Address : Held(a) => Held(a)'
    BY <1>13 DEF vars, Held, Rows
  <2> QED BY <1>13, <1>a, <2>1 DEF vars
<1> QED
  BY <1>3, <1>4, <1>5, <1>6, <1>7, <1>8, <1>9, <1>10, <1>11, <1>12, <1>13 DEF Next

-----------------------------------------------------------------------------
(* The theorems                                                            *)

LEMMA Start == Init => IInv
<1> SUFFICES ASSUME Init PROVE IInv
  OBVIOUS
<1>1. PICK i \in Ident, a \in Address, verified \in BOOLEAN :
        emails = [j \in Ident |->
                    IF j = i THEN [addr |-> a, verified |-> verified, primary |-> verified]
                    ELSE NoRow]
  BY DEF Init
<1>2. emails \in Tables
  BY <1>1 DEF Tables, Email
<1>3. RowsInv
  BY <1>1, Constants DEF RowsInv, Admitted, PrimaryOf, Email
<1>4. links = [l \in Link |-> NoRow] /\ reqs = [r \in Req |-> Idle] /\ sealed = 0 /\ changed = 0
  BY DEF Init
<1>5. TypeOK
  BY <1>2, <1>4 DEF TypeOK, Tables, Idle, Local, Step
<1>6. HeldInv /\ LinksInv /\ StrayInv
  BY <1>4 DEF HeldInv, Holds, LinksInv, StrayInv, StrayLinksWereInFlight, Idle
<1> QED BY <1>3, <1>5, <1>6 DEF IInv

LEMMA Invariance == Spec => []IInv
<1>1. IInv /\ [Next]_vars => IInv'
  BY TypeStep, RowsStep, LinksStep, StrayStep DEF IInv
<1> QED BY Start, <1>1, PTL DEF Spec

\* The addresses, the links, the requests and the history keep their types.
THEOREM TypeCorrect == Spec => []TypeOK
<1>1. IInv => TypeOK
  BY DEF IInv
<1> QED BY Invariance, <1>1, PTL

\* Whatever handlers read before addresses came and went, the primary address
\* is a verified one, and there is one while any is verified.
THEOREM PrimaryStaysVerified == Spec => []PrimaryIsVerified
<1>1. IInv => PrimaryIsVerified
  BY PrimaryInv DEF IInv
<1> QED BY Invariance, <1>1, PTL

\* A reset or verification link is out for an address that left only if its
\* request was in flight when the address left.
THEOREM StrayLinksAreRare == Spec => []StrayLinksWereInFlight
<1>1. IInv => StrayLinksWereInFlight
  BY DEF IInv, StrayInv
<1> QED BY Invariance, <1>1, PTL

\* Only the step that commits the request r takes it out of a transaction of
\* its own and kills the links, or changes the addresses, at once.
LEMMA CommitIsOwn ==
  ASSUME TypeOK, [Next]_vars, NEW r \in Req, reqs'[r].step = "idle"
  PROVE  /\ reqs[r].step = "reset_commit" /\ sealed' # sealed => ResetCommit(r)
         /\ reqs[r].step = "verify_commit" /\ emails' # emails => VerifyCommit(r)
<1>0. reqs \in [Req -> Local]
  BY DEF TypeOK
<1>1. ASSUME NEW q \in Req, q # r, KillLinks(q), reqs[r].step # "idle" PROVE FALSE
  <2>1. reqs'[r] = [reqs[r] EXCEPT !.late = TRUE]
    BY <1>1 DEF KillLinks
  <2>2. reqs'[r].step = reqs[r].step
    BY <1>0, <2>1 DEF Local
  <2> QED BY <1>1, <2>2
<1>2. ASSUME NEW q \in Req, q # r, VerifyCommit(q) PROVE reqs'[r] = reqs[r]
  BY <1>0, <1>2 DEF VerifyCommit
<1>3. ASSUME NEW q \in Req, ResetCommit(q) \/ RemoveCommit(q) \/ \E i \in Ident : ChangeCommit(q, i)
      PROVE  /\ KillLinks(q)
             /\ ResetCommit(q) \/ reqs[q].step \in {"remove", "change_commit"}
  BY <1>3 DEF ResetCommit, RemoveCommit, ChangeCommit
<1>4. ASSUME NEW q \in Req,
             ResetCommit(q) \/ RemoveCommit(q) \/ \E i \in Ident : ChangeCommit(q, i)
      PROVE  /\ reqs[r].step = "reset_commit" => ResetCommit(r)
             /\ reqs[r].step = "verify_commit" => FALSE
  BY <1>1, <1>3, <1>4 DEF ResetCommit
<1>5. ASSUME NEW q \in Req, VerifyCommit(q)
      PROVE  sealed' = sealed /\ (reqs[r].step = "verify_commit" => VerifyCommit(r))
  BY <1>2, <1>5 DEF VerifyCommit
<1>6. ASSUME NEW q \in Req, NEW i \in Ident, AddInsert(q, i)
      PROVE  sealed' = sealed /\ reqs[r].step # "verify_commit"
  BY <1>0, <1>6 DEF AddInsert, Local
<1>7. ASSUME NEW q \in Req, NEW i \in Ident,
             \/ VerifyRequest(q, i) \/ ResetRequest(q, i)
             \/ ChangeIdent(q, i) \/ RemoveCheck(q, i)
      PROVE  UNCHANGED <<emails, sealed>>
  BY <1>7 DEF VerifyRequest, ResetRequest, ChangeIdent, RemoveCheck
<1>8. ASSUME NEW q \in Req, NEW a \in Address, AddCheck(q, a) \/ ChangeRequest(q, a)
      PROVE  UNCHANGED <<emails, sealed>>
  BY <1>8 DEF AddCheck, ChangeRequest
<1>9. ASSUME NEW q \in Req, NEW l \in Link,
             \/ VerifyInsert(q, l) \/ ResetInsert(q, l) \/ ChangeInsert(q, l)
             \/ VerifyFind(q, l) \/ ResetFind(q, l) \/ ChangeFind(q, l)
      PROVE  UNCHANGED <<emails, sealed>>
  BY <1>9 DEF VerifyInsert, ResetInsert, ChangeInsert, InsertLink,
              VerifyFind, ResetFind, ChangeFind, FindLink
<1>10. ASSUME (\E l \in Link : Approve(l)) \/ \E q \in Req : Abort(q)
       PROVE  UNCHANGED <<emails, sealed>>
  BY <1>10 DEF Approve, Abort
<1>11. CASE UNCHANGED vars
  BY <1>11 DEF vars
<1> QED
  BY <1>4, <1>5, <1>6, <1>7, <1>8, <1>9, <1>10, <1>11 DEF Next

\* A reset or verification link takes effect only while it is out, and once.
THEOREM LinksEndOnce == Spec => ConsumedAlive
<1>1. IInv /\ [Next]_vars =>
        [\A r \in Req :
           \/ reqs[r].step = "reset_commit" /\ reqs'[r].step = "idle" /\ sealed' # sealed
           \/ reqs[r].step = "verify_commit" /\ reqs'[r].step = "idle" /\ emails' # emails
           => reqs[r].issued = sealed]_vars
  <2> SUFFICES ASSUME IInv, [Next]_vars, NEW r \in Req,
                      \/ /\ reqs[r].step = "reset_commit" /\ reqs'[r].step = "idle"
                         /\ sealed' # sealed
                      \/ /\ reqs[r].step = "verify_commit" /\ reqs'[r].step = "idle"
                         /\ emails' # emails
               PROVE  reqs[r].issued = sealed
    OBVIOUS
  <2>1. TypeOK /\ LinksInv
    BY DEF IInv
  <2>2. ResetCommit(r) \/ VerifyCommit(r)
    BY <2>1, CommitIsOwn
  <2> QED BY <2>1, <2>2 DEF LinksInv, ResetCommit, VerifyCommit
<1> QED BY Invariance, <1>1, PTL DEF Spec, ConsumedAlive
=============================================================================
