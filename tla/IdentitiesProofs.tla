-------------------------- MODULE IdentitiesProofs --------------------------
(***************************************************************************)
(* What holds of Identities for any accounts, addresses, providers and     *)
(* requests: a confirmed address never yields, a handover leaves no older  *)
(* way in, and a confirmed address makes a primary one.                    *)
(***************************************************************************)
EXTENDS Identities, TLAPS

-----------------------------------------------------------------------------
(* The inductive invariant                                                 *)

\* A row is of an account there is, the primary one is a confirmed address,
\* and a way in older than the last handover was made during one.
RowOK(row, us, eras) ==
  row # NoRow =>
    /\ row.user \in us
    /\ row.primary => row.value \in Address /\ row.verified
    /\ row.verified /\ row.era < eras[row.user] => row.late

RowsInv == \A i \in Ident : RowOK(idents[i], users, era)

LinksInv == \A l \in Link : links[l] # NoRow => links[l].user \in users

\* No account was handed over before it was made.
FreshInv == \A u \in User \ users : era[u] = 0

\* The step a request is on its way to.
Releasing == {"release", "release_delete"}
Due(q) == IF q.step \in Releasing THEN q.next ELSE q.step

SignedSteps == {"token", "add", "verify", "handover", "magic_insert", "connect",
                "connect_email", "connect_verify", "assign", "assign_write",
                "disconnect", "remove"}
AddressedSteps == {"sign_up", "token", "add", "verify", "handover", "magic", "magic_insert",
                   "oauth", "connect_email"}

\* What a request knows at a step.
ReqOK(q, us) ==
  /\ Due(q) \in SignedSteps => q.user \in us
  /\ Due(q) \in AddressedSteps \/ q.step \in Releasing => q.addr \in Address
  /\ q.step \in Releasing =>
       q.next \in {"idle", "sign_up", "add", "magic", "oauth", "connect_email"}
  /\ Due(q) \in {"oauth", "connect"} => q.sub \in Sub
  /\ q.step \in {"assign_write", "disconnect", "remove"} => q.ident \in Ident
  /\ q.step \in {"verify", "handover"} => q.link \in Link

\* A request of a session that a handover ended knows that it is late.
EraOK(q, eras) ==
  q.user \in User /\ q.step \notin {"idle", "handover"} =>
    (q.era < eras[q.user] => q.late)

\* The row a request holds is gone, or still what it was read as.
HeldOK(q, table) ==
  /\ q.step = "assign_write" /\ table[q.ident] # NoRow =>
       /\ table[q.ident].user = q.user
       /\ table[q.ident].value \in Address
       /\ table[q.ident].verified
  /\ q.step = "disconnect" /\ table[q.ident] # NoRow =>
       table[q.ident].user = q.user /\ table[q.ident].value \in Sub
  /\ q.step = "remove" /\ table[q.ident] # NoRow => table[q.ident].user = q.user

\* While the link of a handover is out, the account has no other way in but
\* those made since it was opened.
HandOK(q, table, out) ==
  q.step = "handover" /\ out[q.link] # NoRow =>
    /\ out[q.link].user = q.user
    /\ \A i \in Ident :
         table[i] # NoRow /\ table[i].user = q.user /\ table[i].verified
           /\ table[i].value # q.addr => table[i].late

Good(q, us, eras, table, out) ==
  ReqOK(q, us) /\ EraOK(q, eras) /\ HeldOK(q, table) /\ HandOK(q, table, out)

ReqsInv == \A r \in Req : Good(reqs[r], users, era, idents, links)

\* A confirmed address of an account, and its primary one; and whether a
\* request is about to give the account one, of a row that is there.
VerifiedOf(row, u) == row # NoRow /\ row.user = u /\ row.value \in Address /\ row.verified
PrimaryOf(row, u) == row # NoRow /\ row.user = u /\ row.value \in Address /\ row.primary
Assigning(q, table, u) ==
  /\ q.user = u
  /\ \/ q.step \in {"connect_verify", "assign"}
     \/ q.step = "assign_write" /\ table[q.ident] # NoRow

HasPrimary(table, local, u) ==
  (\E i \in Ident : VerifiedOf(table[i], u)) =>
    \/ \E i \in Ident : PrimaryOf(table[i], u)
    \/ \E r \in Req : Assigning(local[r], table, u)

PrimaryInv == \A u \in users \ failed : HasPrimary(idents, reqs, u)

IInv == TypeOK /\ RowsInv /\ LinksInv /\ FreshInv /\ ReqsInv /\ PrimaryInv

Tables == [Ident -> Row \cup {NoRow}]

LEMMA Constants ==
  /\ NoRow \notin Row /\ NoRow \notin LinkRow
  /\ None \notin User /\ None \notin Ident /\ None \notin Address
  /\ None \notin Sub /\ None \notin Link
  /\ \A v : ~(v \in Address /\ v \in Sub)
BY IdentitiesAssumption

-----------------------------------------------------------------------------
(* The operators on tables                                                 *)

\* The indexes hold of a table that keeps some of the rows, whatever else of
\* them it changes, if it makes none the primary one.
LEMMA AdmittedKept ==
  ASSUME NEW table, NEW out, Admitted(table),
         \A i \in Ident : out[i] # NoRow =>
           /\ table[i] # NoRow /\ out[i].value = table[i].value /\ out[i].user = table[i].user
           /\ out[i].primary => table[i].primary
  PROVE  Admitted(out)
BY DEF Admitted

\* What a row stays when an address of its account becomes the primary one.
Same(row, row2) ==
  /\ row2.value = row.value /\ row2.user = row.user /\ row2.verified = row.verified
  /\ row2.era = row.era /\ row2.late = row.late
  /\ row.primary => row2.primary

\* assign_primary_email() leaves its account a primary address if it has a
\* confirmed one, and changes nothing else.
LEMMA AssignedRows ==
  ASSUME NEW table \in Tables, Admitted(table), NEW u \in User,
         \A i \in Ident : table[i] # NoRow /\ table[i].primary =>
                           table[i].value \in Address /\ table[i].verified,
         NEW out \in Assigned(table, u)
  PROVE  /\ out \in Tables /\ Admitted(out)
         /\ \A i \in Ident :
              /\ out[i] # NoRow <=> table[i] # NoRow
              /\ out[i] # NoRow =>
                   /\ Same(table[i], out[i])
                   /\ out[i].primary => out[i].value \in Address /\ out[i].verified
                   /\ out[i].user # u => out[i] = table[i]
         /\ (\E i \in Ident : VerifiedOf(out[i], u)) => \E i \in Ident : PrimaryOf(out[i], u)
<1> DEFINE emails == {i \in Ident : /\ table[i] # NoRow /\ table[i].user = u
                                    /\ table[i].value \in Address /\ table[i].verified}
<1>1. CASE emails = {} \/ \E i \in emails : table[i].primary
  <2>1. out = table
    BY <1>1 DEF Assigned
  <2>2. (\E i \in Ident : VerifiedOf(out[i], u)) => \E i \in Ident : PrimaryOf(out[i], u)
    BY <1>1, <2>1 DEF VerifiedOf, PrimaryOf
  <2> QED BY <2>1, <2>2 DEF Same
<1>2. CASE ~(emails = {} \/ \E i \in emails : table[i].primary)
  <2>1. PICK i \in emails : out = [table EXCEPT ![i].primary = TRUE]
    BY <1>2 DEF Assigned
  <2>2. i \in Ident /\ table[i] \in Row /\ table[i].value \in Address /\ table[i].verified
        /\ table[i].user = u
    BY <2>1 DEF Tables
  <2>3. out[i] = [table[i] EXCEPT !.primary = TRUE] /\ \A j \in Ident : j # i => out[j] = table[j]
    BY <2>1, <2>2 DEF Tables
  <2>4. out[i] \in Row /\ Same(table[i], out[i]) /\ out[i].primary
    BY <2>2, <2>3 DEF Row, Same
  <2>5. out \in Tables
    BY <2>1, <2>3, <2>4 DEF Tables
  <2>6. \A j \in Ident : out[j] # NoRow <=> table[j] # NoRow
    BY <2>2, <2>3, <2>4, Constants
  <2>7. \A j \in Ident : out[j] # NoRow =>
          /\ Same(table[j], out[j])
          /\ out[j].primary => out[j].value \in Address /\ out[j].verified
          /\ out[j].user # u => out[j] = table[j]
    BY <2>2, <2>3, <2>4, <2>6 DEF Same
  <2>8. \A j \in Ident : out[j] # NoRow /\ out[j].user = u /\ out[j].primary => j = i
    BY <1>2, <2>3
  <2>9. Admitted(out)
    BY <2>3, <2>6, <2>7, <2>8, <2>2 DEF Admitted, Same
  <2>10. PrimaryOf(out[i], u)
    BY <2>2, <2>4, <2>6, Constants DEF PrimaryOf, Same
  <2> QED BY <2>2, <2>5, <2>6, <2>7, <2>9, <2>10
<1> QED BY <1>1, <1>2

\* A confirmation changes no row but the pending one of the address.
LEMMA ConfirmedRows ==
  ASSUME NEW table \in Tables, NEW u \in User, NEW a, NEW when \in Nat, NEW late \in BOOLEAN
  PROVE  /\ Confirmed(table, u, a, when, late) \in Tables
         /\ \A i \in Ident : LET row == Confirmed(table, u, a, when, late)[i] IN
              \/ row = table[i]
              \/ /\ table[i] # NoRow /\ row # NoRow
                 /\ table[i].user = u /\ row.user = u
                 /\ row.value = table[i].value /\ row.primary = table[i].primary
                 /\ ~table[i].verified /\ row.verified
                 /\ row.era = when /\ row.late = late
<1> DEFINE out == Confirmed(table, u, a, when, late)
<1>1. ASSUME NEW i \in Ident
      PROVE  /\ out[i] \in Row \cup {NoRow}
             /\ \/ out[i] = table[i]
                \/ /\ table[i] # NoRow /\ out[i] # NoRow
                   /\ table[i].user = u /\ out[i].user = u
                   /\ out[i].value = table[i].value /\ out[i].primary = table[i].primary
                   /\ ~table[i].verified /\ out[i].verified
                   /\ out[i].era = when /\ out[i].late = late
  <2>1. table[i] \in Row \cup {NoRow}
    BY <1>1 DEF Tables
  <2>2. CASE table[i] # NoRow /\ table[i].user = u /\ table[i].value = a /\ ~table[i].verified
    <3>1. out[i] = [table[i] EXCEPT !.verified = TRUE, !.era = when, !.late = late]
      BY <2>2 DEF Confirmed
    <3> HIDE DEF out
    <3> QED BY <2>1, <2>2, <3>1, Constants DEF Row
  <2>3. CASE ~(table[i] # NoRow /\ table[i].user = u /\ table[i].value = a /\ ~table[i].verified)
    <3>1. out[i] = table[i]
      BY <2>3 DEF Confirmed
    <3> HIDE DEF out
    <3> QED BY <2>1, <3>1
  <2> QED BY <2>2, <2>3
<1>2. out \in Tables
  BY <1>1 DEF Tables, Confirmed
<1> QED BY <1>1, <1>2

-----------------------------------------------------------------------------
(* What a request knows                                                    *)

LEMMA IdleGood ==
  Idle \in Local /\ \A us, eras, table, out : Good(Idle, us, eras, table, out)
<1>1. Idle \in Local
  BY DEF Idle, Local, Step
<1>2. /\ Idle.step = "idle" /\ Due(Idle) = "idle"
  BY DEF Idle, Due, Releasing
<1> QED
  BY <1>1, <1>2 DEF Good, ReqOK, EraOK, HeldOK, HandOK, Releasing, SignedSteps, AddressedSteps

\* A request that goes on to a step keeps what that step needs.
LEMMA GoesOnGood ==
  ASSUME NEW r \in Req, reqs[r] \in Local, NEW us, NEW eras, NEW table, NEW out,
         NEW step \in {"idle", "sign_up", "add", "magic", "oauth", "connect_email",
                       "token", "assign", "connect_verify"},
         step \in SignedSteps => reqs[r].user \in us,
         step \in AddressedSteps => reqs[r].addr \in Address,
         step = "oauth" => reqs[r].sub \in Sub,
         reqs[r].step \notin {"idle", "handover"}, EraOK(reqs[r], eras)
  PROVE  /\ GoesOn(r, step) \in Local
         /\ Good(GoesOn(r, step), us, eras, table, out)
<1>1. CASE step = "idle"
  BY <1>1, IdleGood DEF GoesOn
<1>2. CASE step # "idle"
  <2> DEFINE q == GoesOn(r, step)
  <2>1. q = [reqs[r] EXCEPT !.step = step, !.next = "idle", !.ident = None, !.holder = None]
    BY <1>2 DEF GoesOn
  <2> HIDE DEF q
  <2>2. /\ q \in Local /\ q.step = step /\ q.user = reqs[r].user /\ q.addr = reqs[r].addr
        /\ q.sub = reqs[r].sub /\ q.era = reqs[r].era /\ q.late = reqs[r].late
    BY <2>1 DEF Local, Step
  <2>3. Due(q) = step
    BY <2>2 DEF Due, Releasing
  <2>4. ReqOK(q, us)
    BY <2>2, <2>3 DEF ReqOK, Releasing
  <2>5. EraOK(q, eras) /\ HeldOK(q, table) /\ HandOK(q, table, out)
    BY <2>2 DEF EraOK, HeldOK, HandOK
  <2> QED BY <2>2, <2>4, <2>5 DEF Good, q
<1> QED BY <1>1, <1>2

-----------------------------------------------------------------------------
(* What a step leaves of the rest                                          *)

\* A row stays as far as others rely on it, goes, or was nobody's; and while
\* a handover of its account is out, it becomes no way in that is not late.
RowMoves(i) ==
  \/ idents'[i] \in {idents[i], NoRow}
  \/ /\ idents'[i] # NoRow
     /\ idents'[i].verified /\ ~idents'[i].late =>
          \/ ~InHandover(idents'[i].user)
          \/ idents[i] # NoRow /\ idents[i].verified /\ ~idents[i].late
     /\ \/ /\ idents[i] # NoRow
           /\ idents'[i].user = idents[i].user /\ idents'[i].value = idents[i].value
           /\ idents[i].verified => idents'[i].verified
        \/ idents[i] = NoRow /\ \A q \in Req : reqs[q].ident # i

\* A link stays, goes, or was nobody's.
LinkMoves(l) ==
  \/ links'[l] \in {links[l], NoRow}
  \/ links[l] = NoRow /\ links'[l].user \in users' /\ \A q \in Req : reqs[q].link # l

\* What a request knows stays true when others take such a step.
LEMMA OthersGood ==
  ASSUME IInv, NEW q \in Req, users \subseteq users',
         \A i \in Ident : RowMoves(i), \A l \in Link : LinkMoves(l)
  PROVE  Good(reqs[q], users', era, idents', links')
<1>1. Good(reqs[q], users, era, idents, links) /\ reqs[q] \in Local
  BY DEF IInv, ReqsInv, TypeOK
<1>2. ReqOK(reqs[q], users')
  BY <1>1 DEF Good, ReqOK
<1>3. HeldOK(reqs[q], idents')
  <2> SUFFICES ASSUME reqs[q].step \in {"assign_write", "disconnect", "remove"},
                      idents'[reqs[q].ident] # NoRow
               PROVE  /\ idents[reqs[q].ident] # NoRow
                      /\ idents'[reqs[q].ident].user = idents[reqs[q].ident].user
                      /\ idents'[reqs[q].ident].value = idents[reqs[q].ident].value
                      /\ idents[reqs[q].ident].verified => idents'[reqs[q].ident].verified
    BY <1>1 DEF Good, HeldOK
  <2>1. reqs[q].ident \in Ident
    BY <1>1 DEF Good, ReqOK
  <2> QED BY <2>1 DEF RowMoves
<1>4. HandOK(reqs[q], idents', links')
  <2> SUFFICES ASSUME reqs[q].step = "handover", links'[reqs[q].link] # NoRow
               PROVE  /\ links'[reqs[q].link].user = reqs[q].user
                      /\ \A i \in Ident :
                           idents'[i] # NoRow /\ idents'[i].user = reqs[q].user
                             /\ idents'[i].verified /\ idents'[i].value # reqs[q].addr
                             => idents'[i].late
    BY DEF HandOK
  <2>1. reqs[q].link \in Link
    BY <1>1 DEF Good, ReqOK
  <2>2. links'[reqs[q].link] = links[reqs[q].link]
    BY <2>1 DEF LinkMoves
  <2>3. /\ links[reqs[q].link].user = reqs[q].user
        /\ \A i \in Ident :
             idents[i] # NoRow /\ idents[i].user = reqs[q].user /\ idents[i].verified
               /\ idents[i].value # reqs[q].addr => idents[i].late
    BY <1>1, <2>2 DEF Good, HandOK
  <2>4. InHandover(reqs[q].user)
    BY DEF InHandover
  <2>5. ASSUME NEW i \in Ident, idents'[i] # NoRow, idents'[i].user = reqs[q].user,
               idents'[i].verified, idents'[i].value # reqs[q].addr, ~idents'[i].late
        PROVE  FALSE
    <3>1. RowMoves(i)
      OBVIOUS
    <3>2. CASE idents'[i] = idents[i]
      BY <2>3, <2>5, <3>2
    <3>3. CASE idents'[i] # idents[i]
      BY <2>3, <2>4, <2>5, <3>1, <3>3 DEF RowMoves
    <3> QED BY <3>2, <3>3
  <2> QED BY <2>2, <2>3, <2>5
<1> QED BY <1>1, <1>2, <1>3, <1>4 DEF Good

\* Nothing a step does takes from an account what makes its addresses fine.
RowsLeft(u) ==
  \A i \in Ident : /\ VerifiedOf(idents'[i], u) => VerifiedOf(idents[i], u)
                   /\ VerifiedOf(idents[i], u) => idents'[i] # NoRow
                   /\ PrimaryOf(idents[i], u) => PrimaryOf(idents'[i], u)

Undisturbed(u) ==
  /\ RowsLeft(u)
  /\ \A q \in Req : \/ reqs'[q] = reqs[q]
                    \/ ~Assigning(reqs[q], idents, u)
                    \/ Assigning(reqs'[q], idents', u)

LEMMA PrimaryStep ==
  ASSUME IInv, users \subseteq users', failed \subseteq failed',
         \A u \in users' \ failed' : HasPrimary(idents', reqs', u) \/ Undisturbed(u)
  PROVE  PrimaryInv'
<1> SUFFICES ASSUME NEW u \in users' \ failed', Undisturbed(u), NEW i \in Ident,
                    VerifiedOf(idents'[i], u)
             PROVE  \/ \E j \in Ident : PrimaryOf(idents'[j], u)
                    \/ \E r \in Req : Assigning(reqs'[r], idents', u)
  BY DEF PrimaryInv, HasPrimary
<1>1. VerifiedOf(idents[i], u) /\ u \in users \ failed
  BY DEF Undisturbed, RowsLeft, VerifiedOf, IInv, RowsInv, RowOK
<1>2. HasPrimary(idents, reqs, u)
  BY <1>1 DEF IInv, PrimaryInv
<1>3. CASE \E j \in Ident : PrimaryOf(idents[j], u)
  BY <1>3 DEF Undisturbed, RowsLeft
<1>4. CASE \E r \in Req : Assigning(reqs[r], idents, u)
  <2>1. PICK r \in Req : Assigning(reqs[r], idents, u)
    BY <1>4
  <2>2. CASE reqs'[r] = reqs[r]
    <3>1. Good(reqs[r], users, era, idents, links)
      BY DEF IInv, ReqsInv
    <3>2. reqs[r].step = "assign_write" =>
            reqs[r].ident \in Ident /\ VerifiedOf(idents[reqs[r].ident], u)
      BY <2>1, <3>1 DEF Assigning, Good, ReqOK, HeldOK, VerifiedOf
    <3>3. reqs[r].step = "assign_write" => idents'[reqs[r].ident] # NoRow
      BY <3>2 DEF Undisturbed, RowsLeft
    <3> QED BY <2>1, <2>2, <3>3 DEF Assigning
  <2> QED BY <2>1, <2>2 DEF Undisturbed
<1> QED BY <1>1, <1>2, <1>3, <1>4 DEF HasPrimary

\* A step of one request, or of none, that hands no account over.
LEMMA OthersStep ==
  ASSUME IInv,
         users \subseteq users', users' \subseteq User, named' \subseteq users',
         failed \subseteq failed', failed' \subseteq users', era' = era,
         idents' \in Tables, Admitted(idents'),
         \A i \in Ident : RowMoves(i) /\ RowOK(idents'[i], users', era),
         links' \in [Link -> LinkRow \cup {NoRow}], \A l \in Link : LinkMoves(l),
         reqs' \in [Req -> Local],
         \A q \in Req : \/ reqs'[q] = reqs[q]
                        \/ Good(reqs'[q], users', era, idents', links'),
         \A u \in users' \ failed' : HasPrimary(idents', reqs', u) \/ Undisturbed(u)
  PROVE  IInv'
<1>1. TypeOK'
  BY DEF IInv, TypeOK, Tables, Admitted
<1>2. RowsInv'
  BY DEF RowsInv, RowOK
<1>3. LinksInv'
  BY DEF LinksInv, LinkMoves, IInv
<1>4. FreshInv'
  BY DEF FreshInv, IInv
<1>5. ReqsInv'
  <2>1. \A q \in Req : Good(reqs'[q], users', era', idents', links')
    BY OthersGood
  <2> QED BY <2>1 DEF ReqsInv, Good, ReqOK, EraOK, HeldOK, HandOK
<1>6. PrimaryInv'
  BY PrimaryStep
<1> QED BY <1>1, <1>2, <1>3, <1>4, <1>5, <1>6 DEF IInv

-----------------------------------------------------------------------------
(* The steps that only read                                                *)

LEMMA Known ==
  ASSUME IInv, NEW r \in Req
  PROVE  /\ reqs[r] \in Local /\ reqs \in [Req -> Local]
         /\ Good(reqs[r], users, era, idents, links)
         /\ ReqOK(reqs[r], users) /\ EraOK(reqs[r], era)
         /\ idents \in Tables /\ Admitted(idents) /\ era \in [User -> Nat]
         /\ links \in [Link -> LinkRow \cup {NoRow}]
         /\ users \subseteq User /\ named \subseteq users /\ failed \subseteq users
         /\ \A i \in Ident : RowOK(idents[i], users, era)
         /\ \A l \in Link : links[l] # NoRow =>
              links[l] \in LinkRow /\ links[l].user \in users /\ links[l].addr \in Address
         /\ \A i \in Ident : idents[i] # NoRow => idents[i] \in Row /\ idents[i].user \in users
BY DEF IInv, TypeOK, RowsInv, LinksInv, ReqsInv, Good, Tables, RowOK, LinkRow

LEMMA ReadStep ==
  ASSUME IInv, NEW r \in Req, NEW n \in Local, reqs' = [reqs EXCEPT ![r] = n],
         UNCHANGED <<users, named, idents, links, era>>,
         failed \subseteq failed', failed' \subseteq users,
         Good(n, users, era, idents, links),
         \A u \in users \ failed' :
           Assigning(reqs[r], idents, u) => Assigning(n, idents, u) \/ HasPrimary(idents', reqs', u)
  PROVE  IInv'
<1> USE Known
<1>1. reqs' \in [Req -> Local] /\ reqs'[r] = n /\ \A q \in Req : q # r => reqs'[q] = reqs[q]
  OBVIOUS
<1>2. \A i \in Ident : RowMoves(i) /\ RowOK(idents'[i], users', era)
  BY DEF RowMoves
<1>3. \A l \in Link : LinkMoves(l)
  BY DEF LinkMoves
<1>4. \A q \in Req : reqs'[q] = reqs[q] \/ Good(reqs'[q], users', era, idents', links')
  BY <1>1
<1>5. ASSUME NEW u \in users' \ failed' PROVE HasPrimary(idents', reqs', u) \/ Undisturbed(u)
  <2>1. \A i \in Ident : VerifiedOf(idents[i], u) => idents[i] # NoRow
    BY DEF VerifiedOf
  <2> QED BY <1>1, <1>5, <2>1 DEF Undisturbed, RowsLeft
<1> QED BY <1>1, <1>2, <1>3, <1>4, <1>5, OthersStep

\* A request that comes in.
LEMMA ComesStep ==
  ASSUME IInv, NEW r \in Req, NEW n, Comes(r, n),
         UNCHANGED <<users, named, idents, links, era, failed>>,
         n \in Local, Good(n, users, era, idents, links)
  PROVE  IInv'
<1>1. reqs' = [reqs EXCEPT ![r] = n] /\ reqs[r].step = "idle"
  BY DEF Comes
<1>2. \A u : ~Assigning(reqs[r], idents, u)
  BY <1>1 DEF Assigning
<1> QED BY <1>1, <1>2, ReadStep, Known

\* A request that goes on to what was due, or ends.
LEMMA MovesStep ==
  ASSUME IInv, NEW r \in Req, NEW step, Moves(r, step),
         UNCHANGED <<users, named, idents, links, era, failed>>,
         \/ reqs[r].step = "release" /\ step = reqs[r].next
         \/ reqs[r].step = "magic" /\ step = "idle"
  PROVE  IInv'
<1> DEFINE n == GoesOn(r, step)
<1>1. reqs' = [reqs EXCEPT ![r] = n]
  BY DEF Moves
<1>2. \A u : ~Assigning(reqs[r], idents, u)
  BY DEF Assigning
<1>3. ReqOK(reqs[r], users) /\ EraOK(reqs[r], era) /\ reqs[r] \in Local
  BY Known
<1>4. n \in Local /\ Good(n, users, era, idents, links)
  BY <1>3, GoesOnGood DEF ReqOK, Due, Releasing, SignedSteps, AddressedSteps
<1> HIDE DEF n
<1> QED BY <1>1, <1>2, <1>4, ReadStep, Known

LEMMA ReleaseFindStep ==
  ASSUME IInv, NEW r \in Req, NEW i \in Ident, ReleaseFind(r, i) PROVE IInv'
<1> DEFINE n == [reqs[r] EXCEPT !.step = "release_delete", !.ident = i,
                                !.holder = idents[i].user]
<1>1. reqs[r] \in Local /\ ReqOK(reqs[r], users) /\ EraOK(reqs[r], era)
  BY Known
<1>2. reqs[r].step = "release" /\ idents[i].user \in User
  BY Known DEF ReleaseFind, Claimed, At, Rows
<1>3. reqs' = [reqs EXCEPT ![r] = n]
  BY Known DEF ReleaseFind
<1>4. /\ n \in Local /\ n.step = "release_delete" /\ n.next = reqs[r].next
      /\ n.user = reqs[r].user /\ n.addr = reqs[r].addr /\ n.sub = reqs[r].sub
      /\ n.era = reqs[r].era /\ n.late = reqs[r].late
  BY <1>1, <1>2 DEF Local, Step
<1> HIDE DEF n
<1>5. Due(n) = Due(reqs[r])
  BY <1>2, <1>4 DEF Due, Releasing
<1>6. Good(n, users, era, idents, links)
  BY <1>1, <1>2, <1>4, <1>5 DEF Good, ReqOK, EraOK, HeldOK, HandOK, Releasing
<1>7. \A u : ~Assigning(reqs[r], idents, u)
  BY <1>2 DEF Assigning
<1> QED BY <1>3, <1>4, <1>6, <1>7, ReadStep, Known DEF ReleaseFind

LEMMA ReleaseNoneStep ==
  ASSUME IInv, NEW r \in Req, ReleaseNone(r) PROVE IInv'
BY MovesStep DEF ReleaseNone

LEMMA MagicFoundStep ==
  ASSUME IInv, NEW r \in Req, MagicFound(r) PROVE IInv'
BY MovesStep DEF MagicFound

LEMMA SignUpStep ==
  ASSUME IInv, NEW r \in Req, NEW a \in Address, SignUp(r, a) PROVE IInv'
<1> DEFINE i == Idle
           n == [i EXCEPT !.step = "release", !.next = "sign_up", !.addr = a]
<1>1. i \in Local
  BY IdleGood
<1> HIDE DEF i
<1>2. /\ n \in Local /\ n.step = "release" /\ n.next = "sign_up" /\ n.addr = a
      /\ n.user = i.user
  BY <1>1 DEF Local, Step
<1>3. Comes(r, n)
  BY DEF SignUp, i
<1> HIDE DEF n
<1>4. Due(n) = "sign_up" /\ n.user = None
  BY <1>2 DEF Due, Releasing, i, Idle
<1>5. Good(n, users, era, idents, links)
  BY <1>2, <1>4, Constants DEF Good, ReqOK, EraOK, HeldOK, HandOK, Releasing, SignedSteps
<1> QED BY <1>2, <1>3, <1>5, ComesStep DEF SignUp

LEMMA MagicOpenStep ==
  ASSUME IInv, NEW r \in Req, NEW a \in Address, MagicOpen(r, a) PROVE IInv'
<1> DEFINE i == Idle
           n == [i EXCEPT !.step = "release", !.next = "magic", !.addr = a, !.proof = TRUE]
<1>1. i \in Local
  BY IdleGood
<1> HIDE DEF i
<1>2. /\ n \in Local /\ n.step = "release" /\ n.next = "magic" /\ n.addr = a
      /\ n.user = i.user
  BY <1>1 DEF Local, Step
<1>3. Comes(r, n)
  BY DEF MagicOpen, i
<1> HIDE DEF n
<1>4. Due(n) = "magic" /\ n.user = None
  BY <1>2 DEF Due, Releasing, i, Idle
<1>5. Good(n, users, era, idents, links)
  BY <1>2, <1>4, Constants DEF Good, ReqOK, EraOK, HeldOK, HandOK, Releasing, SignedSteps
<1> QED BY <1>2, <1>3, <1>5, ComesStep DEF MagicOpen

LEMMA OAuthLoginStep ==
  ASSUME IInv, NEW r \in Req, NEW g \in Sub, NEW a \in Address, NEW vouches \in BOOLEAN,
         OAuthLogin(r, g, a, vouches)
  PROVE  IInv'
<1> DEFINE i == Idle
           n == [i EXCEPT !.step = "release", !.next = "oauth", !.addr = a, !.sub = g,
                          !.proof = vouches]
<1>1. i \in Local
  BY IdleGood
<1> HIDE DEF i
<1>2. /\ n \in Local /\ n.step = "release" /\ n.next = "oauth" /\ n.addr = a
      /\ n.sub = g /\ n.user = i.user
  BY <1>1 DEF Local, Step
<1>3. Comes(r, n)
  BY DEF OAuthLogin, i
<1> HIDE DEF n
<1>4. Due(n) = "oauth" /\ n.user = None
  BY <1>2 DEF Due, Releasing, i, Idle
<1>5. Good(n, users, era, idents, links)
  BY <1>2, <1>4, Constants DEF Good, ReqOK, EraOK, HeldOK, HandOK, Releasing, SignedSteps
<1> QED BY <1>2, <1>3, <1>5, ComesStep DEF OAuthLogin

LEMMA HandoverOpenStep ==
  ASSUME IInv, NEW r \in Req, NEW l \in Link, HandoverOpen(r, l) PROVE IInv'
<1> DEFINE i == Idle
           u == links[l].user
           a == links[l].addr
           n == [i EXCEPT !.step = "handover", !.user = u, !.addr = a, !.link = l]
<1>1. i \in Local
  BY IdleGood
<1>2. u \in users /\ u \in User /\ a \in Address
  BY Known DEF HandoverOpen
<1>3. Comes(r, n)
  BY DEF HandoverOpen
<1>4. \A j \in Ident : idents[j] # NoRow /\ idents[j].user = u /\ idents[j].verified
                       => idents[j].value = a
  BY DEF HandoverOpen, OtherWay, RowsOf, Rows
<1> HIDE DEF i
<1>5. /\ n \in Local /\ n.step = "handover" /\ n.addr = a /\ n.user = u /\ n.link = l
  <2> HIDE DEF u, a
  <2> QED BY <1>1, <1>2 DEF Local, Step
<1> HIDE DEF n
<1>6. Due(n) = "handover"
  BY <1>5 DEF Due, Releasing
<1>7. ReqOK(n, users) /\ EraOK(n, era) /\ HeldOK(n, idents)
  BY <1>2, <1>5, <1>6 DEF ReqOK, EraOK, HeldOK, Releasing
<1>8. HandOK(n, idents, links)
  BY <1>4, <1>5 DEF HandOK
<1> QED BY <1>3, <1>5, <1>7, <1>8, ComesStep DEF Good, HandoverOpen

\* A request that comes with a session knows its account, as it is by then.
LEMMA SignedInLocal ==
  ASSUME IInv, NEW u \in users, NEW step \in Step
  PROVE  /\ SignedIn(u, step) \in Local
         /\ SignedIn(u, step).user = u /\ SignedIn(u, step).step = step
         /\ SignedIn(u, step).era = era[u]
<1> DEFINE i == Idle
<1>1. i \in Local
  BY IdleGood
<1>2. u \in User /\ era[u] \in Nat
  <2>1. users \subseteq User /\ era \in [User -> Nat]
    BY DEF IInv, TypeOK
  <2> QED BY <2>1
<1>3. SignedIn(u, step) = [i EXCEPT !.step = step, !.user = u, !.era = era[u]]
  BY DEF SignedIn
<1> HIDE DEF i
<1> QED BY <1>1, <1>2, <1>3 DEF Local

LEMMA SignedInGood ==
  ASSUME IInv, NEW u \in users, NEW n \in Local, n.user = u, n.era = era[u],
         n.step # "handover", ReqOK(n, users), HeldOK(n, idents)
  PROVE  Good(n, users, era, idents, links)
<1>1. u \in User /\ era[u] \in Nat
  <2>1. users \subseteq User /\ era \in [User -> Nat]
    BY DEF IInv, TypeOK
  <2> QED BY <2>1
<1>2. EraOK(n, era)
  BY <1>1 DEF EraOK
<1> QED BY <1>2 DEF Good, HandOK

LEMMA EmailAddStep ==
  ASSUME IInv, NEW r \in Req, NEW u \in User, NEW a \in Address, EmailAdd(r, u, a)
  PROVE  IInv'
<1> DEFINE i == SignedIn(u, "release")
           n == [i EXCEPT !.next = "add", !.addr = a]
<1>1. u \in users /\ Comes(r, n)
  BY DEF EmailAdd
<1>2. i \in Local /\ i.user = u /\ i.step = "release" /\ i.era = era[u]
  BY <1>1, SignedInLocal DEF Step
<1> HIDE DEF i
<1>3. /\ n \in Local /\ n.step = "release" /\ n.next = "add" /\ n.addr = a
      /\ n.user = u /\ n.era = era[u]
  BY <1>2 DEF Local, Step
<1> HIDE DEF n
<1>4. Due(n) = "add"
  BY <1>3 DEF Due, Releasing
<1>5. ReqOK(n, users) /\ HeldOK(n, idents)
  BY <1>1, <1>3, <1>4 DEF ReqOK, HeldOK, Releasing
<1> QED BY <1>1, <1>3, <1>5, SignedInGood, ComesStep DEF EmailAdd

LEMMA ResendStep ==
  ASSUME IInv, NEW r \in Req, NEW u \in User, NEW k \in Ident, Resend(r, u, k)
  PROVE  IInv'
<1> DEFINE i == SignedIn(u, "token")
           a == idents[k].value
           n == [i EXCEPT !.addr = a]
<1>1. u \in users /\ a \in Address /\ Comes(r, n)
  BY Known DEF Resend, EmailsOf, RowsOf, Rows
<1>2. i \in Local /\ i.user = u /\ i.step = "token" /\ i.era = era[u]
  BY <1>1, SignedInLocal DEF Step
<1> HIDE DEF i, a
<1>3. n \in Local /\ n.step = "token" /\ n.addr = a /\ n.user = u /\ n.era = era[u]
  BY <1>1, <1>2 DEF Local, Step
<1> HIDE DEF n
<1>4. Due(n) = "token"
  BY <1>3 DEF Due, Releasing
<1>5. ReqOK(n, users) /\ HeldOK(n, idents)
  BY <1>1, <1>3, <1>4 DEF ReqOK, HeldOK, Releasing
<1> QED BY <1>1, <1>3, <1>5, SignedInGood, ComesStep DEF Resend

LEMMA VerifyOpenStep ==
  ASSUME IInv, NEW r \in Req, NEW l \in Link, VerifyOpen(r, l) PROVE IInv'
<1> DEFINE u == links[l].user
           a == links[l].addr
           i == SignedIn(u, "verify")
           n == [i EXCEPT !.addr = a, !.link = l]
<1>1. u \in users /\ a \in Address /\ Comes(r, n)
  BY Known DEF VerifyOpen
<1>2. i \in Local /\ i.user = u /\ i.step = "verify" /\ i.era = era[u]
  <2> HIDE DEF u
  <2> QED BY <1>1, SignedInLocal DEF Step
<1> HIDE DEF i, a, u
<1>3. n \in Local /\ n.step = "verify" /\ n.addr = a /\ n.user = u /\ n.era = era[u] /\ n.link = l
  BY <1>1, <1>2 DEF Local, Step
<1> HIDE DEF n
<1>4. Due(n) = "verify"
  BY <1>3 DEF Due, Releasing
<1>5. ReqOK(n, users) /\ HeldOK(n, idents)
  BY <1>1, <1>3, <1>4 DEF ReqOK, HeldOK, Releasing
<1> QED BY <1>1, <1>3, <1>5, SignedInGood, ComesStep DEF VerifyOpen

LEMMA ConnectStep ==
  ASSUME IInv, NEW r \in Req, NEW u \in User, NEW g \in Sub, NEW a \in Address \cup {None},
         Connect(r, u, g, a)
  PROVE  IInv'
<1> DEFINE i == SignedIn(u, "connect")
           n == [i EXCEPT !.sub = g, !.addr = a]
<1>1. u \in users /\ Comes(r, n)
  BY DEF Connect
<1>2. i \in Local /\ i.user = u /\ i.step = "connect" /\ i.era = era[u]
  BY <1>1, SignedInLocal DEF Step
<1> HIDE DEF i
<1>3. n \in Local /\ n.step = "connect" /\ n.sub = g /\ n.user = u /\ n.era = era[u]
  BY <1>2 DEF Local, Step
<1> HIDE DEF n
<1>4. Due(n) = "connect"
  BY <1>3 DEF Due, Releasing
<1>5. ReqOK(n, users) /\ HeldOK(n, idents)
  BY <1>1, <1>3, <1>4 DEF ReqOK, HeldOK, Releasing, AddressedSteps
<1> QED BY <1>1, <1>3, <1>5, SignedInGood, ComesStep DEF Connect

LEMMA DisconnectStep ==
  ASSUME IInv, NEW r \in Req, NEW u \in User, NEW k \in Ident, Disconnect(r, u, k)
  PROVE  IInv'
<1> DEFINE i == SignedIn(u, "disconnect")
           n == [i EXCEPT !.ident = k]
<1>1. u \in users /\ idents[k].value \in Sub /\ idents[k].user = u /\ Comes(r, n)
  BY Known DEF Disconnect, RowsOf, Rows
<1>2. i \in Local /\ i.user = u /\ i.step = "disconnect" /\ i.era = era[u]
  BY <1>1, SignedInLocal DEF Step
<1> HIDE DEF i
<1>3. n \in Local /\ n.step = "disconnect" /\ n.ident = k /\ n.user = u /\ n.era = era[u]
  BY <1>2 DEF Local, Step
<1> HIDE DEF n
<1>4. Due(n) = "disconnect"
  BY <1>3 DEF Due, Releasing
<1>5. ReqOK(n, users) /\ HeldOK(n, idents)
  BY <1>1, <1>3, <1>4 DEF ReqOK, HeldOK, Releasing, AddressedSteps
<1> QED BY <1>1, <1>3, <1>5, SignedInGood, ComesStep DEF Disconnect

LEMMA RemoveStep ==
  ASSUME IInv, NEW r \in Req, NEW u \in User, NEW k \in Ident, Remove(r, u, k)
  PROVE  IInv'
<1> DEFINE i == SignedIn(u, "remove")
           n == [i EXCEPT !.ident = k]
<1>1. u \in users /\ idents[k].user = u /\ Comes(r, n)
  BY Known DEF Remove, EmailsOf, RowsOf, Rows
<1>2. i \in Local /\ i.user = u /\ i.step = "remove" /\ i.era = era[u]
  BY <1>1, SignedInLocal DEF Step
<1> HIDE DEF i
<1>3. n \in Local /\ n.step = "remove" /\ n.ident = k /\ n.user = u /\ n.era = era[u]
  BY <1>2 DEF Local, Step
<1> HIDE DEF n
<1>4. Due(n) = "remove"
  BY <1>3 DEF Due, Releasing
<1>5. ReqOK(n, users) /\ HeldOK(n, idents)
  BY <1>1, <1>3, <1>4 DEF ReqOK, HeldOK, Releasing, AddressedSteps
<1> QED BY <1>1, <1>3, <1>5, SignedInGood, ComesStep DEF Remove

LEMMA AssignReadStep ==
  ASSUME IInv, NEW r \in Req, NEW k \in Ident, AssignRead(r, k) PROVE IInv'
<1> DEFINE n == [reqs[r] EXCEPT !.step = "assign_write", !.ident = k]
<1>1. reqs[r] \in Local /\ ReqOK(reqs[r], users) /\ EraOK(reqs[r], era)
  BY Known
<1>2. /\ reqs[r].step = "assign" /\ idents[k] # NoRow /\ idents[k].user = reqs[r].user
      /\ idents[k].value \in Address /\ idents[k].verified
  BY DEF AssignRead, EmailsOf, RowsOf, Rows
<1>3. reqs' = [reqs EXCEPT ![r] = n]
  BY Known DEF AssignRead
<1>4. /\ n \in Local /\ n.step = "assign_write" /\ n.ident = k
      /\ n.user = reqs[r].user /\ n.era = reqs[r].era /\ n.late = reqs[r].late
  BY <1>1 DEF Local, Step
<1> HIDE DEF n
<1>5. Due(n) = "assign_write" /\ Due(reqs[r]) = "assign"
  BY <1>2, <1>4 DEF Due, Releasing
<1>6. ReqOK(n, users)
  BY <1>1, <1>4, <1>5 DEF ReqOK, Releasing, SignedSteps, AddressedSteps
<1>7. EraOK(n, era) /\ HeldOK(n, idents) /\ HandOK(n, idents, links)
  BY <1>1, <1>2, <1>4 DEF EraOK, HeldOK, HandOK
<1>8. \A u : Assigning(reqs[r], idents, u) => Assigning(n, idents, u)
  BY <1>2, <1>4 DEF Assigning
<1> QED BY <1>3, <1>4, <1>6, <1>7, <1>8, ReadStep, Known DEF AssignRead, Good

LEMMA AssignNoneStep ==
  ASSUME IInv, NEW r \in Req, AssignNone(r) PROVE IInv'
<1>1. reqs' = [reqs EXCEPT ![r] = Idle]
  BY DEF AssignNone, Moves, GoesOn
<1>2. ASSUME NEW u \in users \ failed', Assigning(reqs[r], idents, u)
      PROVE  HasPrimary(idents', reqs', u)
  <2>1. reqs[r].user = u /\ idents' = idents
    BY <1>2 DEF Assigning, AssignNone
  <2>2. CASE \E j \in RowsOf(reqs[r].user) : idents[j].primary
    <3>1. PICK j \in RowsOf(reqs[r].user) : idents[j].primary
      BY <2>2
    <3>2. j \in Ident /\ PrimaryOf(idents[j], u)
      BY <2>1, <3>1, Known DEF RowsOf, Rows, PrimaryOf, RowOK
    <3> QED BY <2>1, <3>2 DEF HasPrimary
  <2>3. CASE ~\E i \in EmailsOf(reqs[r].user) : idents[i].verified
    <3>1. ~\E i \in Ident : VerifiedOf(idents[i], u)
      BY <2>1, <2>3 DEF EmailsOf, RowsOf, Rows, VerifiedOf
    <3> QED BY <2>1, <3>1 DEF HasPrimary
  <2> QED BY <2>2, <2>3 DEF AssignNone
<1> QED BY <1>1, <1>2, IdleGood, ReadStep, Known DEF AssignNone

LEMMA AbortStep ==
  ASSUME IInv, NEW r \in Req, Abort(r) PROVE IInv'
<1>1. reqs' = [reqs EXCEPT ![r] = Idle]
  BY DEF Abort, Moves, GoesOn
<1>2. \/ Due(reqs[r]) \in SignedSteps /\ failed' = failed \cup {reqs[r].user}
      \/ reqs[r].step \notin {"connect_verify", "assign", "assign_write"} /\ failed' = failed
  BY DEF Abort, Due, SignedSteps, Releasing
<1>3. failed \subseteq failed' /\ failed' \subseteq users
  BY <1>2, Known DEF ReqOK
<1>4. \A u \in users \ failed' : ~Assigning(reqs[r], idents, u)
  BY <1>2 DEF Assigning
<1> QED BY <1>1, <1>3, <1>4, IdleGood, ReadStep DEF Abort

-----------------------------------------------------------------------------
(* The steps that insert rows                                              *)

\* A request inserts a row of an account.
LEMMA InsertRow ==
  ASSUME IInv, NEW r \in Req, NEW u \in User, NEW i \in Ident, NEW v \in Address \cup Sub,
         NEW b \in BOOLEAN, users \subseteq users', u \in users', FreeIdent(i),
         b /\ reqs[r].era < era[u] => reqs[r].late,
         idents' = [idents EXCEPT ![i] = NewRow(r, u, v, b)]
  PROVE  /\ idents' \in Tables
         /\ \A k \in Ident : RowMoves(k) /\ RowOK(idents'[k], users', era)
         /\ \A w : w # u \/ ~b \/ v \in Sub => RowsLeft(w)
<1> DEFINE late == reqs[r].late \/ InHandover(u)
           row == NewRow(r, u, v, b)
<1>1. reqs[r] \in Local /\ idents \in Tables /\ idents[i] = NoRow
      /\ \A k \in Ident : RowOK(idents[k], users, era)
  BY Known DEF FreeIdent
<1>2. late \in BOOLEAN
  BY <1>1 DEF Local, InHandover
<1>3. row = [value |-> v, user |-> u, verified |-> b, primary |-> FALSE,
             era |-> reqs[r].era, late |-> late]
  BY DEF NewRow
<1>4. late <=> reqs[r].late \/ InHandover(u)
  OBVIOUS
<1> HIDE DEF row, late
<1>5. /\ row \in Row /\ row.value = v /\ row.user = u /\ row.verified = b
      /\ row.primary = FALSE /\ row.era = reqs[r].era /\ row.late = late
  BY <1>1, <1>2, <1>3 DEF Row, Local
<1>6. row # NoRow
  BY <1>5, Constants
<1>7. idents' = [idents EXCEPT ![i] = row]
  BY DEF row
<1>8. idents' \in Tables /\ idents'[i] = row /\ \A k \in Ident : k # i => idents'[k] = idents[k]
  BY <1>1, <1>5, <1>7 DEF Tables
<1>9. RowMoves(i)
  BY <1>1, <1>4, <1>5, <1>6, <1>8 DEF RowMoves, FreeIdent
<1>10. RowOK(idents'[i], users', era)
  BY <1>4, <1>5, <1>8 DEF RowOK
<1>11. ASSUME NEW k \in Ident, k # i PROVE RowMoves(k) /\ RowOK(idents'[k], users', era)
  BY <1>1, <1>8, <1>11 DEF RowMoves, RowOK
<1>12. ASSUME NEW w, w # u \/ ~b \/ v \in Sub PROVE RowsLeft(w)
  <2>1. ~VerifiedOf(idents'[i], w)
    BY <1>5, <1>8, <1>12, Constants DEF VerifiedOf
  <2>2. ~VerifiedOf(idents[i], w) /\ ~PrimaryOf(idents[i], w)
    BY <1>1 DEF VerifiedOf, PrimaryOf
  <2> QED BY <1>8, <2>1, <2>2 DEF RowsLeft, VerifiedOf
<1> QED BY <1>8, <1>9, <1>10, <1>11, <1>12

\* A step that changes rows and one request, and no link.
LEMMA RowsStep ==
  ASSUME IInv, NEW r \in Req, NEW n \in Local, reqs' = [reqs EXCEPT ![r] = n],
         users \subseteq users', users' \subseteq User, named' \subseteq users',
         UNCHANGED <<era, failed>>,
         idents' \in Tables, Admitted(idents'),
         \A i \in Ident : RowMoves(i) /\ RowOK(idents'[i], users', era),
         links' \in [Link -> LinkRow \cup {NoRow}], \A l \in Link : LinkMoves(l),
         Good(n, users', era, idents', links'),
         \A u \in users' :
           \/ HasPrimary(idents', reqs', u)
           \/ /\ RowsLeft(u)
              /\ Assigning(reqs[r], idents, u) => Assigning(n, idents', u)
  PROVE  IInv'
<1> USE Known
<1>1. reqs' \in [Req -> Local] /\ reqs'[r] = n /\ \A q \in Req : q # r => reqs'[q] = reqs[q]
  OBVIOUS
<1>2. \A q \in Req : reqs'[q] = reqs[q] \/ Good(reqs'[q], users', era, idents', links')
  BY <1>1
<1>3. \A u \in users' \ failed' : HasPrimary(idents', reqs', u) \/ Undisturbed(u)
  BY <1>1 DEF Undisturbed
<1>4. failed \subseteq failed' /\ failed' \subseteq users' /\ era' = era
  OBVIOUS
<1> HIDE Known
<1> QED BY <1>1, <1>2, <1>3, <1>4, OthersStep

LEMMA SignUpInsertStep ==
  ASSUME IInv, NEW r \in Req, NEW u \in User, NEW i \in Ident, NEW with_name \in BOOLEAN,
         SignUpInsert(r, u, i, with_name)
  PROVE  IInv'
<1> DEFINE n == [reqs[r] EXCEPT !.step = "token", !.user = u]
<1>1. reqs[r] \in Local /\ ReqOK(reqs[r], users) /\ reqs[r].step = "sign_up"
  BY Known DEF SignUpInsert
<1>2. reqs[r].addr \in Address
  BY <1>1 DEF ReqOK, Due, Releasing, AddressedSteps
<1>3. reqs' = [reqs EXCEPT ![r] = n]
  BY Known DEF SignUpInsert
<1>4. /\ n \in Local /\ n.step = "token" /\ n.user = u /\ n.addr = reqs[r].addr
      /\ n.era = reqs[r].era
  BY <1>1 DEF Local, Step
<1> HIDE DEF n
<1>5. u \notin users /\ users' = users \cup {u} /\ named' \subseteq users' /\ users' \subseteq User
      /\ UNCHANGED <<links, era, failed>> /\ Admitted(idents')
  BY Known DEF SignUpInsert, Admitted
<1>6. /\ idents' \in Tables
      /\ \A k \in Ident : RowMoves(k) /\ RowOK(idents'[k], users', era)
      /\ \A w : RowsLeft(w)
  BY <1>2, <1>5, InsertRow DEF SignUpInsert
<1>7. n.era \in Nat /\ era[u] = 0
  BY <1>4, <1>5 DEF Local, IInv, FreshInv
<1>8. Due(n) = "token"
  BY <1>4 DEF Due, Releasing
<1>9. ReqOK(n, users')
  BY <1>2, <1>4, <1>5, <1>8 DEF ReqOK, Releasing
<1>10. Good(n, users', era, idents', links')
  BY <1>4, <1>7, <1>9 DEF Good, EraOK, HeldOK, HandOK
<1>11. \A l \in Link : LinkMoves(l)
  BY <1>5 DEF LinkMoves
<1>12. \A w : ~Assigning(reqs[r], idents, w)
  BY <1>1 DEF Assigning
<1>13. links' \in [Link -> LinkRow \cup {NoRow}]
  BY <1>5, Known
<1>14. users \subseteq users'
  BY <1>5
<1> QED BY <1>3, <1>4, <1>5, <1>6, <1>10, <1>11, <1>12, <1>13, <1>14, RowsStep

\* What the steps that go on after a row know of the request.
LEMMA InsertsFor ==
  ASSUME IInv, NEW r \in Req,
         reqs[r].step \in {"add", "magic_insert", "connect", "connect_email", "connect_verify",
                           "verify", "remove", "disconnect", "assign_write", "assign", "token"}
  PROVE  /\ reqs[r].user \in User /\ reqs[r].user \in users
         /\ reqs[r].era < era[reqs[r].user] => reqs[r].late
BY Known DEF ReqOK, EraOK, Due, Releasing, SignedSteps

LEMMA EmailAddInsertStep ==
  ASSUME IInv, NEW r \in Req, NEW i \in Ident, EmailAddInsert(r, i) PROVE IInv'
<1> DEFINE n == GoesOn(r, "token")
<1>1. reqs[r] \in Local /\ ReqOK(reqs[r], users) /\ reqs[r].step = "add" /\ EraOK(reqs[r], era)
  BY Known DEF EmailAddInsert
<1>2. reqs[r].addr \in Address /\ reqs[r].user \in users /\ reqs[r].user \in User
  BY <1>1, InsertsFor DEF ReqOK, Due, Releasing, AddressedSteps
<1>3. reqs' = [reqs EXCEPT ![r] = n] /\ UNCHANGED <<users, named, links, era, failed>>
      /\ Admitted(idents')
  BY DEF EmailAddInsert, Moves, Admitted
<1>4. n \in Local /\ Good(n, users', era, idents', links')
  BY <1>1, <1>2, <1>3, GoesOnGood
<1> HIDE DEF n
<1>5. users' = users
  BY <1>3
<1>6. /\ idents' \in Tables
      /\ \A k \in Ident : RowMoves(k) /\ RowOK(idents'[k], users', era)
      /\ \A w : RowsLeft(w)
  BY <1>2, <1>5, InsertRow DEF EmailAddInsert
<1>7. \A l \in Link : LinkMoves(l)
  BY <1>3 DEF LinkMoves
<1>8. \A w : ~Assigning(reqs[r], idents, w)
  BY <1>1 DEF Assigning
<1>9. users' \subseteq User /\ named' \subseteq users' /\ links' \in [Link -> LinkRow \cup {NoRow}]
  BY <1>3, Known
<1> QED BY <1>3, <1>4, <1>5, <1>6, <1>7, <1>8, <1>9, RowsStep

LEMMA MagicInsertStep ==
  ASSUME IInv, NEW r \in Req, NEW i \in Ident, MagicInsert(r, i) PROVE IInv'
<1> DEFINE n == GoesOn(r, "assign")
<1>1. reqs[r] \in Local /\ ReqOK(reqs[r], users) /\ EraOK(reqs[r], era)
      /\ reqs[r].step = "magic_insert"
  BY Known DEF MagicInsert
<1>2. /\ reqs[r].addr \in Address /\ reqs[r].user \in users /\ reqs[r].user \in User
      /\ reqs[r].era < era[reqs[r].user] => reqs[r].late
  BY <1>1, InsertsFor DEF ReqOK, Due, Releasing, AddressedSteps
<1>3. reqs' = [reqs EXCEPT ![r] = n] /\ UNCHANGED <<users, named, links, era, failed>>
      /\ Admitted(idents')
  BY DEF MagicInsert, Moves, Admitted
<1>4. n \in Local /\ Good(n, users', era, idents', links')
  BY <1>1, <1>2, <1>3, GoesOnGood DEF AddressedSteps
<1>5. n.step = "assign" /\ n.user = reqs[r].user
  BY <1>1 DEF GoesOn, Local
<1> HIDE DEF n
<1>6. users' = users
  BY <1>3
<1>7. /\ idents' \in Tables
      /\ \A k \in Ident : RowMoves(k) /\ RowOK(idents'[k], users', era)
      /\ \A w : w # reqs[r].user => RowsLeft(w)
  BY <1>2, <1>6, InsertRow DEF MagicInsert
<1>8. HasPrimary(idents', reqs', reqs[r].user)
  <2>1. reqs'[r] = n
    BY <1>3, Known
  <2> QED BY <1>5, <2>1 DEF HasPrimary, Assigning
<1>9. \A l \in Link : LinkMoves(l)
  BY <1>3 DEF LinkMoves
<1>10. \A w : ~Assigning(reqs[r], idents, w)
  BY <1>1 DEF Assigning
<1>11. users' \subseteq User /\ named' \subseteq users' /\ links' \in [Link -> LinkRow \cup {NoRow}]
  BY <1>3, Known
<1> QED BY <1>3, <1>4, <1>6, <1>7, <1>8, <1>9, <1>10, <1>11, RowsStep

LEMMA ConnectInsertStep ==
  ASSUME IInv, NEW r \in Req, NEW i \in Ident, ConnectInsert(r, i) PROVE IInv'
<1> DEFINE next == [reqs[r] EXCEPT !.step = "release", !.next = "connect_email",
                                   !.sub = None, !.proof = TRUE]
           n == IF reqs[r].addr = None THEN Idle ELSE next
<1>1. reqs[r] \in Local /\ ReqOK(reqs[r], users) /\ EraOK(reqs[r], era)
      /\ reqs[r].step = "connect"
  BY Known DEF ConnectInsert
<1>2. /\ reqs[r].sub \in Sub /\ reqs[r].user \in users /\ reqs[r].user \in User
      /\ reqs[r].era < era[reqs[r].user] => reqs[r].late
  BY <1>1, InsertsFor DEF ReqOK, Due, Releasing
<1>3. reqs' = [reqs EXCEPT ![r] = n] /\ UNCHANGED <<users, named, links, era, failed>>
      /\ Admitted(idents')
  BY Known DEF ConnectInsert, Admitted
<1>4. /\ next \in Local /\ next.step = "release" /\ next.next = "connect_email"
      /\ next.user = reqs[r].user /\ next.addr = reqs[r].addr
      /\ next.era = reqs[r].era /\ next.late = reqs[r].late
  BY <1>1 DEF Local, Step
<1> HIDE DEF next
<1>5. Due(next) = "connect_email"
  BY <1>4 DEF Due, Releasing
<1>6. ASSUME reqs[r].addr # None PROVE Good(next, users', era, idents', links')
  <2>1. reqs[r].addr \in Address
    BY <1>1, <1>6 DEF Local
  <2>2. ReqOK(next, users')
    BY <1>2, <1>3, <1>4, <1>5, <2>1 DEF ReqOK, Releasing
  <2>3. EraOK(next, era) /\ HeldOK(next, idents') /\ HandOK(next, idents', links')
    BY <1>2, <1>4 DEF EraOK, HeldOK, HandOK
  <2> QED BY <2>2, <2>3 DEF Good
<1>7. n \in Local /\ Good(n, users', era, idents', links')
  BY <1>4, <1>6, IdleGood
<1> HIDE DEF n
<1>8. users' = users
  BY <1>3
<1>9. /\ idents' \in Tables
      /\ \A k \in Ident : RowMoves(k) /\ RowOK(idents'[k], users', era)
      /\ \A w : RowsLeft(w)
  BY <1>2, <1>8, InsertRow DEF ConnectInsert
<1>10. \A l \in Link : LinkMoves(l)
  BY <1>3 DEF LinkMoves
<1>11. \A w : ~Assigning(reqs[r], idents, w)
  BY <1>1 DEF Assigning
<1>12. users' \subseteq User /\ named' \subseteq users' /\ links' \in [Link -> LinkRow \cup {NoRow}]
  BY <1>3, Known
<1> QED BY <1>3, <1>7, <1>8, <1>9, <1>10, <1>11, <1>12, RowsStep

\* A table that stays is as good as it was.
LEMMA RowsSame ==
  ASSUME IInv, idents' = idents, users \subseteq users'
  PROVE  /\ idents' \in Tables /\ Admitted(idents')
         /\ \A k \in Ident : RowMoves(k) /\ RowOK(idents'[k], users', era)
         /\ \A w : RowsLeft(w)
<1>1. idents \in Tables /\ Admitted(idents) /\ \A k \in Ident : RowOK(idents[k], users, era)
  BY DEF IInv, TypeOK, Tables, RowsInv
<1> QED BY <1>1 DEF RowMoves, RowOK, RowsLeft, VerifiedOf

LEMMA ConnectEmailStep ==
  ASSUME IInv, NEW r \in Req, NEW i \in Ident, ConnectEmail(r, i) PROVE IInv'
<1> DEFINE n == GoesOn(r, "connect_verify")
           u == reqs[r].user
<1>1. reqs[r] \in Local /\ ReqOK(reqs[r], users) /\ EraOK(reqs[r], era)
      /\ reqs[r].step = "connect_email"
  BY Known DEF ConnectEmail
<1>2. /\ reqs[r].addr \in Address /\ u \in users /\ u \in User
      /\ reqs[r].era < era[u] => reqs[r].late
  BY <1>1, InsertsFor DEF ReqOK, Due, Releasing, AddressedSteps
<1>3. reqs' = [reqs EXCEPT ![r] = n] /\ UNCHANGED <<users, named, links, era, failed>>
  BY DEF ConnectEmail, Moves
<1>4. n \in Local /\ Good(n, users', era, idents', links')
  BY <1>1, <1>2, <1>3, GoesOnGood DEF AddressedSteps
<1>5. n.step = "connect_verify" /\ n.user = u
  BY <1>1 DEF GoesOn, Local
<1> HIDE DEF n
<1>6. users' = users
  BY <1>3
<1>7. /\ idents' \in Tables /\ Admitted(idents')
      /\ \A k \in Ident : RowMoves(k) /\ RowOK(idents'[k], users', era)
      /\ \A w : w # u => RowsLeft(w)
  <2>1. CASE At(reqs[r].addr) = {}
    <3> DEFINE row == NewRow(r, u, reqs[r].addr, TRUE)
    <3>1. FreeIdent(i) /\ idents' = [idents EXCEPT ![i] = row]
      BY <2>1 DEF ConnectEmail
    <3>2. row.value = reqs[r].addr /\ row.primary = FALSE
      BY DEF NewRow
    <3>3. \A k \in Ident : idents[k] # NoRow => idents[k].value # reqs[r].addr
      BY <2>1 DEF At, Rows
    <3>4. idents'[i] = row /\ \A k \in Ident : k # i => idents'[k] = idents[k]
      BY <3>1, Known DEF Tables
    <3> HIDE DEF row
    <3>5. Admitted(idents')
      BY <1>2, <3>2, <3>3, <3>4, Known, Constants DEF Admitted
    <3> QED BY <1>2, <1>6, <3>1, <3>5, InsertRow DEF row
  <2>2. CASE At(reqs[r].addr) # {}
    BY <1>6, <2>2, RowsSame DEF ConnectEmail
  <2> QED BY <2>1, <2>2
<1>8. HasPrimary(idents', reqs', u)
  <2>1. reqs'[r] = n
    BY <1>3, Known
  <2> QED BY <1>5, <2>1 DEF HasPrimary, Assigning
<1>9. \A l \in Link : LinkMoves(l)
  BY <1>3 DEF LinkMoves
<1>10. \A w : ~Assigning(reqs[r], idents, w)
  BY <1>1 DEF Assigning
<1>11. users' \subseteq User /\ named' \subseteq users' /\ links' \in [Link -> LinkRow \cup {NoRow}]
  BY <1>3, Known
<1> QED BY <1>3, <1>4, <1>6, <1>7, <1>8, <1>9, <1>10, <1>11, RowsStep

LEMMA TokenInsertStep ==
  ASSUME IInv, NEW r \in Req, NEW l \in Link, TokenInsert(r, l) PROVE IInv'
<1> DEFINE new == [user |-> reqs[r].user, addr |-> reqs[r].addr]
<1>1. ReqOK(reqs[r], users) /\ reqs[r].step = "token"
  BY Known DEF TokenInsert
<1>2. reqs[r].addr \in Address /\ reqs[r].user \in users /\ reqs[r].user \in User
  BY <1>1, InsertsFor DEF ReqOK, Due, Releasing, AddressedSteps
<1>3. reqs' = [reqs EXCEPT ![r] = Idle] /\ UNCHANGED <<users, named, idents, era, failed>>
  BY DEF TokenInsert, Moves, GoesOn
<1>4. new \in LinkRow /\ new.user \in users'
  BY <1>2, <1>3 DEF LinkRow
<1>5. FreeLink(l) /\ links' = [links EXCEPT ![l] = new]
  BY DEF TokenInsert
<1> HIDE DEF new
<1>6. links' \in [Link -> LinkRow \cup {NoRow}] /\ \A m \in Link : LinkMoves(m)
  BY <1>4, <1>5, Known DEF LinkMoves, FreeLink
<1>7. \A w : ~Assigning(reqs[r], idents, w)
  BY <1>1 DEF Assigning
<1>8. users' = users /\ users' \subseteq User /\ named' \subseteq users'
  BY <1>3, Known
<1>9. idents' = idents
  BY <1>3
<1> QED BY <1>3, <1>6, <1>7, <1>8, <1>9, IdleGood, RowsSame, RowsStep

LEMMA NotMineStep ==
  ASSUME IInv, NEW r \in Req, NEW l \in Link, NotMine(r, l) PROVE IInv'
<1> DEFINE i == Idle
           a == links[l].addr
           n == [i EXCEPT !.step = "release", !.addr = a, !.proof = TRUE]
<1>1. i \in Local /\ a \in Address
  BY IdleGood, Known DEF NotMine
<1>2. Comes(r, n)
  BY DEF NotMine
<1> HIDE DEF i, a
<1>3. /\ n \in Local /\ n.step = "release" /\ n.next = i.next /\ n.addr = a /\ n.user = i.user
  BY <1>1 DEF Local, Step
<1> HIDE DEF n
<1>4. Due(n) = "idle" /\ n.next = "idle" /\ n.user = None
  BY <1>3 DEF Due, Releasing, i, Idle
<1>5. Good(n, users', era, idents', links')
  BY <1>1, <1>3, <1>4, Constants DEF Good, ReqOK, EraOK, HeldOK, HandOK, Releasing, SignedSteps
<1>6. links' \in [Link -> LinkRow \cup {NoRow}] /\ \A m \in Link : LinkMoves(m)
  BY Known DEF NotMine, LinkMoves
<1>7. reqs' = [reqs EXCEPT ![r] = n] /\ reqs[r].step = "idle"
  BY <1>2 DEF Comes
<1>8. \A w : ~Assigning(reqs[r], idents, w)
  BY <1>7 DEF Assigning
<1>9. users' = users /\ users' \subseteq User /\ named' \subseteq users' /\ idents' = idents
      /\ UNCHANGED <<era, failed>>
  BY Known DEF NotMine
<1> QED BY <1>3, <1>5, <1>6, <1>7, <1>8, <1>9, RowsSame, RowsStep

LEMMA MagicSignUpStep ==
  ASSUME IInv, NEW r \in Req, NEW u \in User, MagicSignUp(r, u) PROVE IInv'
<1> DEFINE n == [reqs[r] EXCEPT !.step = "magic_insert", !.user = u]
<1>1. reqs[r] \in Local /\ ReqOK(reqs[r], users) /\ reqs[r].step = "magic"
  BY Known DEF MagicSignUp
<1>2. reqs[r].addr \in Address
  BY <1>1 DEF ReqOK, Due, Releasing, AddressedSteps
<1>3. reqs' = [reqs EXCEPT ![r] = n]
  BY Known DEF MagicSignUp
<1>4. /\ n \in Local /\ n.step = "magic_insert" /\ n.user = u /\ n.addr = reqs[r].addr
  BY <1>1 DEF Local, Step
<1> HIDE DEF n
<1>5. /\ u \notin users /\ users' = users \cup {u} /\ named' \subseteq users'
      /\ users' \subseteq User /\ UNCHANGED <<idents, links, era, failed>>
  BY Known DEF MagicSignUp
<1>6. n.era \in Nat /\ era[u] = 0
  BY <1>4, <1>5 DEF Local, IInv, FreshInv
<1>7. Due(n) = "magic_insert"
  BY <1>4 DEF Due, Releasing
<1>8. ReqOK(n, users')
  BY <1>2, <1>4, <1>5, <1>7 DEF ReqOK, Releasing
<1>9. Good(n, users', era, idents', links')
  BY <1>4, <1>6, <1>8 DEF Good, EraOK, HeldOK, HandOK
<1>10. \A l \in Link : LinkMoves(l)
  BY <1>5 DEF LinkMoves
<1>11. \A w : ~Assigning(reqs[r], idents, w)
  BY <1>1 DEF Assigning
<1>12. links' \in [Link -> LinkRow \cup {NoRow}]
  BY <1>5, Known
<1>13. users \subseteq users'
  BY <1>5
<1> QED BY <1>3, <1>4, <1>5, <1>9, <1>10, <1>11, <1>12, <1>13, RowsSame, RowsStep

\* The account a provider makes has the address the provider vouches for, and
\* no other, as its primary one.
LEMMA OAuthSignUpStep ==
  ASSUME IInv, NEW r \in Req, NEW u \in User, NEW i \in Ident, NEW j \in Ident,
         OAuthSignUp(r, u, i, j)
  PROVE  IInv'
<1> DEFINE vouches == reqs[r].proof
           late == reqs[r].late \/ InHandover(u)
           sub == reqs[r].sub
           addr == reqs[r].addr
           era0 == reqs[r].era
           new == [value |-> sub, user |-> u, verified |-> TRUE, primary |-> FALSE,
                   era |-> era0, late |-> late]
           mail == [value |-> addr, user |-> u, verified |-> vouches, primary |-> vouches,
                    era |-> era0, late |-> late]
           idle == Idle
           token == [idle EXCEPT !.step = "token", !.user = u, !.addr = addr]
           taken == At(addr) # {}
           n == IF taken \/ vouches THEN Idle ELSE token
<1>1. reqs[r] \in Local /\ ReqOK(reqs[r], users) /\ reqs[r].step = "oauth"
  BY Known DEF OAuthSignUp
<1>2. addr \in Address /\ sub \in Sub
  BY <1>1 DEF ReqOK, Due, Releasing, AddressedSteps
<1>3. vouches \in BOOLEAN /\ era0 \in Nat
  BY <1>1 DEF Local
<1>4. late \in BOOLEAN
  BY <1>1 DEF Local, InHandover
<1>5. /\ u \notin users /\ users' = users \cup {u} /\ Admitted(idents')
      /\ UNCHANGED <<named, links, era, failed>>
      /\ idents[i] = NoRow /\ idents[j] = NoRow /\ i # j
      /\ \A q \in Req : reqs[q].ident # i /\ reqs[q].ident # j
  BY DEF OAuthSignUp, FreeIdent, Admitted
<1>6. reqs' = [reqs EXCEPT ![r] = n]
  BY DEF OAuthSignUp
<1>7. idents' = [k \in Ident |-> IF k = i THEN new ELSE IF k = j /\ ~taken THEN mail ELSE idents[k]]
  <2>1. NewRow(r, u, sub, TRUE) = new
    BY DEF NewRow
  <2>2. [NewRow(r, u, addr, vouches) EXCEPT !.primary = vouches] = mail
    BY DEF NewRow
  <2>3. idents' = [k \in Ident |->
           IF k = i THEN NewRow(r, u, sub, TRUE)
           ELSE IF k = j /\ ~taken
           THEN [NewRow(r, u, addr, vouches) EXCEPT !.primary = vouches]
           ELSE idents[k]]
    BY DEF OAuthSignUp
  <2> HIDE DEF new, mail, vouches, sub, addr, taken
  <2> QED BY <2>1, <2>2, <2>3
<1>8. ~late => ~InHandover(u)
  OBVIOUS
<1>9. idle \in Local /\ idle.era = 0 /\ idle.late = FALSE
  BY IdleGood DEF Idle
<1> HIDE DEF vouches, late, sub, addr, era0, idle, taken
<1>10. new \in Row /\ mail \in Row /\ new # NoRow /\ mail # NoRow
  <2>1. new \in Row
    BY <1>2, <1>3, <1>4 DEF Row
  <2>2. mail \in Row
    BY <1>2, <1>3, <1>4 DEF Row
  <2> HIDE DEF new, mail
  <2> QED BY <2>1, <2>2, Constants
<1>11. /\ new.value = sub /\ new.user = u /\ new.late = late /\ new.era = era0
       /\ new.verified = TRUE /\ new.primary = FALSE
       /\ mail.value = addr /\ mail.user = u /\ mail.late = late /\ mail.era = era0
       /\ mail.verified = vouches /\ mail.primary = vouches
  OBVIOUS
<1> HIDE DEF new, mail
<1>12. era[u] = 0 /\ ~(era0 < era[u])
  BY <1>3, <1>5 DEF IInv, FreshInv
<1>13. /\ idents'[i] = new
       /\ idents'[j] \in {mail, NoRow} /\ (~taken => idents'[j] = mail)
       /\ (taken => idents'[j] = NoRow)
       /\ \A k \in Ident \ {i, j} : idents'[k] = idents[k]
       /\ idents' \in [Ident -> Row \cup {NoRow}]
  BY <1>5, <1>7, <1>10, Known DEF Tables
<1>14. RowMoves(i) /\ RowMoves(j)
  BY <1>5, <1>8, <1>10, <1>11, <1>13 DEF RowMoves
<1>15. RowOK(new, users', era) /\ RowOK(mail, users', era) /\ RowOK(NoRow, users', era)
  BY <1>2, <1>3, <1>5, <1>11, <1>12 DEF RowOK
<1>16. \A k \in Ident : RowMoves(k) /\ RowOK(idents'[k], users', era)
  <2>1. \A k \in Ident \ {i, j} : RowMoves(k) /\ RowOK(idents'[k], users', era)
    BY <1>5, <1>13, Known DEF RowMoves, RowOK
  <2> QED BY <1>13, <1>14, <1>15, <2>1
<1>17. HasPrimary(idents', reqs', u)
  <2> SUFFICES ASSUME NEW k \in Ident, VerifiedOf(idents'[k], u)
               PROVE  \E m \in Ident : PrimaryOf(idents'[m], u)
    BY DEF HasPrimary
  <2>1. k # i
    BY <1>2, <1>11, <1>13, Constants DEF VerifiedOf
  <2>2. k = j
    BY <1>5, <1>13, <2>1, Known DEF VerifiedOf
  <2>3. idents'[j] = mail /\ vouches
    BY <1>11, <1>13, <2>2 DEF VerifiedOf
  <2> QED BY <1>2, <1>10, <1>11, <2>3 DEF PrimaryOf
<1>18. ASSUME NEW w \in users', w # u PROVE RowsLeft(w)
  BY <1>5, <1>11, <1>13, <1>18 DEF RowsLeft, VerifiedOf, PrimaryOf
<1>19. n \in Local /\ Good(n, users', era, idents', links')
  <2>1. CASE taken \/ vouches
    BY <2>1, IdleGood
  <2>2. CASE ~(taken \/ vouches)
    <3>1. n = token
      BY <2>2
    <3>2. /\ token \in Local /\ token.step = "token" /\ token.user = u /\ token.addr = addr
          /\ token.era = 0
      BY <1>2, <1>9 DEF Local, Step
    <3> HIDE DEF token, n
    <3>3. Due(token) = "token"
      BY <3>2 DEF Due, Releasing
    <3>4. ReqOK(token, users')
      BY <1>2, <1>5, <3>2, <3>3 DEF ReqOK, Releasing
    <3>5. Good(token, users', era, idents', links')
      BY <1>12, <3>2, <3>4 DEF Good, EraOK, HeldOK, HandOK
    <3> QED BY <3>1, <3>2, <3>5
  <2> QED BY <2>1, <2>2
<1> HIDE DEF n
<1>20. \A l \in Link : LinkMoves(l)
  BY <1>5 DEF LinkMoves
<1>21. \A w : ~Assigning(reqs[r], idents, w)
  BY <1>1 DEF Assigning
<1>22. /\ users \subseteq users' /\ users' \subseteq User /\ named' \subseteq users'
       /\ links' \in [Link -> LinkRow \cup {NoRow}]
  BY <1>5, Known
<1>23. idents' \in Tables
  BY <1>13 DEF Tables
<1> QED
  BY <1>5, <1>6, <1>16, <1>17, <1>18, <1>19, <1>20, <1>21, <1>22, <1>23, RowsStep

-----------------------------------------------------------------------------
(* The steps that delete rows and links                                    *)

LEMMA LinksWithoutMoves ==
  ASSUME IInv, NEW u, NEW addrs, links' = LinksWithout(u, addrs)
  PROVE  links' \in [Link -> LinkRow \cup {NoRow}] /\ \A l \in Link : LinkMoves(l)
<1>1. links \in [Link -> LinkRow \cup {NoRow}]
  BY DEF IInv, TypeOK
<1> QED BY <1>1 DEF LinksWithout, LinkMoves

\* Rows are deleted, none of them a confirmed address but those of u.
LEMMA DeleteRows ==
  ASSUME IInv, idents' \in Tables, users' = users,
         \A i \in Ident : idents'[i] \in {idents[i], NoRow}
  PROVE  /\ Admitted(idents')
         /\ \A i \in Ident : RowMoves(i) /\ RowOK(idents'[i], users', era)
         /\ \A w : (\A i \in Ident : idents'[i] # idents[i] =>
                      /\ ~VerifiedOf(idents[i], w)
                      /\ ~PrimaryOf(idents[i], w)) => RowsLeft(w)
<1>1. Admitted(idents) /\ \A i \in Ident : RowOK(idents[i], users, era)
  BY DEF IInv, TypeOK, RowsInv
<1>2. Admitted(idents')
  BY <1>1 DEF Admitted
<1>3. \A i \in Ident : RowMoves(i) /\ RowOK(idents'[i], users', era)
  BY <1>1 DEF RowMoves, RowOK
<1>4. ASSUME NEW w, \A i \in Ident : idents'[i] # idents[i] =>
                      ~VerifiedOf(idents[i], w) /\ ~PrimaryOf(idents[i], w)
      PROVE  RowsLeft(w)
  <2>1. \A i \in Ident : VerifiedOf(idents[i], w) => idents[i] # NoRow
    BY DEF VerifiedOf
  <2>2. \A i \in Ident : ~VerifiedOf(NoRow, w)
    BY DEF VerifiedOf
  <2> QED BY <1>4, <2>1, <2>2 DEF RowsLeft
<1> QED BY <1>2, <1>3, <1>4

LEMMA ReleaseDeleteStep ==
  ASSUME IInv, NEW r \in Req, ReleaseDelete(r) PROVE IInv'
<1> DEFINE n == GoesOn(r, reqs[r].next)
<1>1. reqs[r] \in Local /\ ReqOK(reqs[r], users) /\ EraOK(reqs[r], era)
      /\ reqs[r].step = "release_delete"
  BY Known DEF ReleaseDelete
<1>2. reqs' = [reqs EXCEPT ![r] = n] /\ UNCHANGED <<users, named, era, failed>>
  BY DEF ReleaseDelete, Moves
<1>3. n \in Local /\ Good(n, users', era, idents', links')
  BY <1>1, <1>2, GoesOnGood DEF ReqOK, Due, Releasing, SignedSteps, AddressedSteps
<1> HIDE DEF n
<1>4. /\ idents' \in Tables
      /\ \A i \in Ident : \/ idents'[i] = idents[i]
                          \/ idents'[i] = NoRow /\ idents[i] # NoRow /\ ~idents[i].verified
  BY Known DEF ReleaseDelete, Tables, Rows
<1>5. \A w : \A i \in Ident : idents'[i] # idents[i] =>
         ~VerifiedOf(idents[i], w) /\ ~PrimaryOf(idents[i], w)
  BY <1>4, Known DEF VerifiedOf, PrimaryOf, RowOK
<1>6. \A i \in Ident : idents'[i] \in {idents[i], NoRow}
  BY <1>4
<1>7. /\ Admitted(idents') /\ \A w : RowsLeft(w)
      /\ \A i \in Ident : RowMoves(i) /\ RowOK(idents'[i], users', era)
  BY <1>2, <1>4, <1>5, <1>6, DeleteRows
<1>8. \A w : ~Assigning(reqs[r], idents, w)
  BY <1>1 DEF Assigning
<1>9. users \subseteq users' /\ users' \subseteq User /\ named' \subseteq users'
  BY <1>2, Known
<1>10. links' \in [Link -> LinkRow \cup {NoRow}] /\ \A l \in Link : LinkMoves(l)
  BY LinksWithoutMoves DEF ReleaseDelete
<1> QED BY <1>2, <1>3, <1>4, <1>7, <1>8, <1>9, <1>10, RowsStep

LEMMA DisconnectDeleteStep ==
  ASSUME IInv, NEW r \in Req, DisconnectDelete(r) PROVE IInv'
<1>1. /\ reqs[r].step = "disconnect" /\ reqs[r].ident \in Ident
      /\ idents[reqs[r].ident] # NoRow => idents[reqs[r].ident].value \in Sub
  BY Known DEF DisconnectDelete, ReqOK, Good, HeldOK
<1>2. reqs' = [reqs EXCEPT ![r] = Idle] /\ UNCHANGED <<users, named, links, era, failed>>
  BY DEF DisconnectDelete, Moves, GoesOn
<1>3. /\ idents' \in Tables
      /\ \A i \in Ident : \/ idents'[i] = idents[i]
                          \/ idents'[i] = NoRow /\ idents[i] # NoRow /\ idents[i].value \in Sub
  BY <1>1, Known DEF DisconnectDelete, Tables
<1>4. \A w : \A i \in Ident : idents'[i] # idents[i] =>
         ~VerifiedOf(idents[i], w) /\ ~PrimaryOf(idents[i], w)
  BY <1>3, Constants DEF VerifiedOf, PrimaryOf
<1>5. \A i \in Ident : idents'[i] \in {idents[i], NoRow}
  BY <1>3
<1>6. /\ Admitted(idents') /\ \A w : RowsLeft(w)
      /\ \A i \in Ident : RowMoves(i) /\ RowOK(idents'[i], users', era)
  BY <1>2, <1>3, <1>4, <1>5, DeleteRows
<1>7. \A w : ~Assigning(reqs[r], idents, w)
  BY <1>1 DEF Assigning
<1>8. users \subseteq users' /\ users' \subseteq User /\ named' \subseteq users'
      /\ links' \in [Link -> LinkRow \cup {NoRow}] /\ \A l \in Link : LinkMoves(l)
  BY <1>2, Known DEF LinkMoves
<1> QED BY <1>2, <1>3, <1>6, <1>7, <1>8, IdleGood, RowsStep

LEMMA ExpireLinkStep ==
  ASSUME IInv, NEW l \in Link, ExpireLink(l) PROVE IInv'
<1>1. /\ links' \in [Link -> LinkRow \cup {NoRow}] /\ \A m \in Link : LinkMoves(m)
      /\ UNCHANGED <<users, named, idents, reqs, era, failed>>
  BY DEF ExpireLink, LinkMoves, IInv, TypeOK
<1>2. /\ users \subseteq users' /\ users' \subseteq User /\ named' \subseteq users'
      /\ failed' \subseteq users' /\ failed \subseteq failed' /\ reqs' \in [Req -> Local]
  BY <1>1 DEF IInv, TypeOK
<1>3. \A u : Undisturbed(u)
  BY <1>1, <1>2, RowsSame DEF Undisturbed
<1> QED BY <1>1, <1>2, <1>3, RowsSame, OthersStep

LEMMA StutterStep == IInv /\ UNCHANGED vars => IInv'
<1> SUFFICES ASSUME IInv, UNCHANGED vars PROVE IInv'
  OBVIOUS
<1>1. /\ links' \in [Link -> LinkRow \cup {NoRow}] /\ \A m \in Link : LinkMoves(m)
      /\ UNCHANGED <<users, named, idents, reqs, era, failed>>
  BY DEF vars, LinkMoves, IInv, TypeOK
<1>2. /\ users \subseteq users' /\ users' \subseteq User /\ named' \subseteq users'
      /\ failed' \subseteq users' /\ failed \subseteq failed' /\ reqs' \in [Req -> Local]
  BY <1>1 DEF IInv, TypeOK
<1>3. \A u : Undisturbed(u)
  BY <1>1, <1>2, RowsSame DEF Undisturbed
<1> QED BY <1>1, <1>2, <1>3, RowsSame, OthersStep

-----------------------------------------------------------------------------
(* The steps that confirm, remove and assign                               *)

\* A table in which rows of u were confirmed or removed.
Revised(table, u) ==
  \A i \in Ident :
    \/ table[i] = idents[i]
    \/ idents[i] # NoRow /\ idents[i].user = u /\ table[i] = NoRow
    \/ /\ idents[i] # NoRow /\ idents[i].user = u
       /\ table[i] # NoRow /\ table[i].user = u
       /\ table[i].value = idents[i].value /\ table[i].primary = idents[i].primary
       /\ table[i].verified

\* Its confirmed rows are late while a handover of u is out.
LateRows(table, u) ==
  \A i \in Ident :
    table[i] # NoRow /\ table[i] # idents[i] /\ ~table[i].late => ~InHandover(u)

LEMMA RevisedRows ==
  ASSUME IInv, NEW table, NEW u \in User, Revised(table, u), LateRows(table, u), users' = users,
         idents' \in Tables,
         \A i \in Ident :
           /\ idents'[i] # NoRow <=> table[i] # NoRow
           /\ idents'[i] # NoRow => Same(table[i], idents'[i])
  PROVE  \A i \in Ident : RowMoves(i)
<1> SUFFICES ASSUME NEW i \in Ident, idents'[i] # idents[i], idents'[i] # NoRow
             PROVE  RowMoves(i)
  BY DEF RowMoves
<1>1. table[i] # NoRow /\ Same(table[i], idents'[i])
  OBVIOUS
<1>2. CASE table[i] = idents[i]
  BY <1>1, <1>2 DEF RowMoves, Same
<1>3. CASE table[i] # idents[i]
  BY <1>1, <1>3 DEF RowMoves, Same, Revised, LateRows
<1> QED BY <1>2, <1>3

LEMMA RevisedLeft ==
  ASSUME IInv, NEW table, NEW u \in User, Revised(table, u),
         \A i \in Ident :
           /\ idents'[i] # NoRow <=> table[i] # NoRow
           /\ idents'[i] # NoRow => /\ Same(table[i], idents'[i])
                                    /\ idents'[i].user # u => idents'[i] = table[i],
         NEW w, w # u
  PROVE  RowsLeft(w)
<1> SUFFICES ASSUME NEW i \in Ident,
                    \/ VerifiedOf(idents'[i], w)
                    \/ VerifiedOf(idents[i], w)
                    \/ PrimaryOf(idents[i], w)
             PROVE  idents'[i] = idents[i] /\ idents[i] # NoRow
  BY DEF RowsLeft
<1>1. CASE VerifiedOf(idents'[i], w)
  <2>1. idents'[i] = table[i] /\ table[i] # NoRow /\ table[i].user # u
    BY <1>1 DEF VerifiedOf, Same
  <2> QED BY <2>1 DEF Revised
<1>2. CASE VerifiedOf(idents[i], w) \/ PrimaryOf(idents[i], w)
  <2>1. idents[i] # NoRow /\ idents[i].user = w
    BY <1>2 DEF VerifiedOf, PrimaryOf
  <2>2. table[i] = idents[i]
    BY <2>1 DEF Revised
  <2>3. idents'[i] # NoRow /\ idents'[i].user = w
    BY <2>1, <2>2 DEF Same
  <2> QED BY <2>1, <2>2, <2>3
<1> QED BY <1>1, <1>2

\* The table such a step leaves when it ends with assign_primary_email().
LEMMA AssignedTable ==
  ASSUME IInv, NEW table \in Tables, NEW u \in User, Revised(table, u),
         idents' \in Assigned(table, u), NEW us, NEW eras,
         \A i \in Ident : RowOK(table[i], us, eras)
  PROVE  /\ idents' \in Tables /\ Admitted(idents')
         /\ \A i \in Ident : RowOK(idents'[i], us, eras)
         /\ \A i \in Ident :
              /\ idents'[i] # NoRow <=> table[i] # NoRow
              /\ idents'[i] # NoRow => /\ Same(table[i], idents'[i])
                                       /\ idents'[i].user # u => idents'[i] = table[i]
         /\ HasPrimary(idents', reqs', u)
         /\ \A w : w # u => RowsLeft(w)
<1>1. Admitted(table)
  <2>1. Admitted(idents)
    BY DEF IInv, TypeOK
  <2> QED BY <2>1, AdmittedKept DEF Revised
<1>2. \A i \in Ident : table[i] # NoRow /\ table[i].primary =>
                         table[i].value \in Address /\ table[i].verified
  BY DEF RowOK
<1>3. /\ idents' \in Tables /\ Admitted(idents')
      /\ \A i \in Ident :
           /\ idents'[i] # NoRow <=> table[i] # NoRow
           /\ idents'[i] # NoRow =>
                /\ Same(table[i], idents'[i])
                /\ idents'[i].primary => idents'[i].value \in Address /\ idents'[i].verified
                /\ idents'[i].user # u => idents'[i] = table[i]
      /\ (\E i \in Ident : VerifiedOf(idents'[i], u)) => \E i \in Ident : PrimaryOf(idents'[i], u)
  BY <1>1, <1>2, AssignedRows
<1>4. \A i \in Ident : RowOK(idents'[i], us, eras)
  BY <1>3 DEF RowOK, Same
<1>5. HasPrimary(idents', reqs', u)
  BY <1>3 DEF HasPrimary
<1>6. \A w : w # u => RowsLeft(w)
  BY <1>3, RevisedLeft
<1> QED BY <1>3, <1>4, <1>5, <1>6

LEMMA RemoveCommitStep ==
  ASSUME IInv, NEW r \in Req, RemoveCommit(r) PROVE IInv'
<1> DEFINE u == reqs[r].user
           table == [idents EXCEPT ![reqs[r].ident] = NoRow]
<1>1. /\ reqs[r].step = "remove" /\ reqs[r].ident \in Ident
      /\ idents[reqs[r].ident] # NoRow => idents[reqs[r].ident].user = u
  BY Known DEF RemoveCommit, ReqOK, Good, HeldOK
<1>2. u \in User /\ u \in users
  BY <1>1, InsertsFor
<1>3. reqs' = [reqs EXCEPT ![r] = Idle] /\ UNCHANGED <<users, named, era, failed>>
  BY DEF RemoveCommit, Moves, GoesOn
<1>4. idents' \in Assigned(table, u)
  BY DEF RemoveCommit
<1>5. table \in Tables /\ Revised(table, u)
  BY <1>1, Known DEF Tables, Revised
<1>6. \A i \in Ident : RowOK(table[i], users, era)
  BY <1>1, Known DEF RowOK, Tables
<1>7. LateRows(table, u)
  BY <1>1, Known DEF LateRows, Tables
<1>8. links' \in [Link -> LinkRow \cup {NoRow}] /\ \A l \in Link : LinkMoves(l)
  BY LinksWithoutMoves DEF RemoveCommit
<1> HIDE DEF table, u
<1>9. /\ idents' \in Tables /\ Admitted(idents') /\ HasPrimary(idents', reqs', u)
      /\ \A i \in Ident : RowOK(idents'[i], users, era)
      /\ \A w : w # u => RowsLeft(w)
  BY <1>2, <1>4, <1>5, <1>6, AssignedTable
<1>10. \A i \in Ident : RowMoves(i)
  <2>1. \A i \in Ident : /\ idents'[i] # NoRow <=> table[i] # NoRow
                         /\ idents'[i] # NoRow => Same(table[i], idents'[i])
    BY <1>2, <1>4, <1>5, <1>6, AssignedTable
  <2> QED BY <1>2, <1>3, <1>5, <1>7, <1>9, <2>1, RevisedRows
<1>11. \A w : ~Assigning(reqs[r], idents, w)
  BY <1>1 DEF Assigning
<1>12. users' = users /\ users' \subseteq User /\ named' \subseteq users'
  BY <1>3, Known
<1> QED BY <1>3, <1>8, <1>9, <1>10, <1>11, <1>12, IdleGood, RowsStep

\* An address of the account of r is confirmed.
LEMMA ConfirmedTable ==
  ASSUME IInv, NEW r \in Req, reqs[r].step \in {"verify", "connect_verify"},
         NEW table,
         table = Confirmed(idents, reqs[r].user, reqs[r].addr, reqs[r].era,
                           reqs[r].late \/ InHandover(reqs[r].user))
  PROVE  /\ table \in Tables /\ Revised(table, reqs[r].user) /\ LateRows(table, reqs[r].user)
         /\ \A i \in Ident : RowOK(table[i], users, era)
<1> DEFINE u == reqs[r].user
           late == reqs[r].late \/ InHandover(u)
<1>1. u \in User /\ u \in users /\ (reqs[r].era < era[u] => reqs[r].late)
  BY InsertsFor
<1>2. late \in BOOLEAN /\ reqs[r].era \in Nat
  BY Known DEF Local, InHandover
<1>3. late <=> reqs[r].late \/ InHandover(u)
  OBVIOUS
<1>4. table = Confirmed(idents, u, reqs[r].addr, reqs[r].era, late)
  OBVIOUS
<1> HIDE DEF late, u
<1>5. /\ table \in Tables
      /\ \A i \in Ident :
           \/ table[i] = idents[i]
           \/ /\ idents[i] # NoRow /\ table[i] # NoRow
              /\ idents[i].user = u /\ table[i].user = u
              /\ table[i].value = idents[i].value /\ table[i].primary = idents[i].primary
              /\ ~idents[i].verified /\ table[i].verified
              /\ table[i].era = reqs[r].era /\ table[i].late = late
  BY <1>1, <1>2, <1>4, ConfirmedRows, Known
<1>6. Revised(table, u) /\ LateRows(table, u)
  BY <1>3, <1>5 DEF Revised, LateRows
<1>7. \A i \in Ident : RowOK(table[i], users, era)
  BY <1>1, <1>3, <1>5, Known DEF RowOK
<1> QED BY <1>5, <1>6, <1>7 DEF u

LEMMA VerifyCommitStep ==
  ASSUME IInv, NEW r \in Req, VerifyCommit(r) PROVE IInv'
<1> DEFINE u == reqs[r].user
           table == Confirmed(idents, u, reqs[r].addr, reqs[r].era,
                              reqs[r].late \/ InHandover(u))
<1>1. reqs[r].step = "verify"
  BY DEF VerifyCommit
<1>2. u \in User /\ u \in users
  BY <1>1, InsertsFor
<1>3. reqs' = [reqs EXCEPT ![r] = Idle] /\ UNCHANGED <<users, named, era, failed>>
  BY DEF VerifyCommit, Moves, GoesOn
<1>4. idents' \in Assigned(table, u)
  BY DEF VerifyCommit
<1>5. /\ table \in Tables /\ Revised(table, u) /\ LateRows(table, u)
      /\ \A i \in Ident : RowOK(table[i], users, era)
  BY <1>1, ConfirmedTable
<1>6. links' \in [Link -> LinkRow \cup {NoRow}] /\ \A l \in Link : LinkMoves(l)
  BY Known DEF VerifyCommit, LinkMoves
<1> HIDE DEF table, u
<1>7. /\ idents' \in Tables /\ Admitted(idents') /\ HasPrimary(idents', reqs', u)
      /\ \A i \in Ident : RowOK(idents'[i], users, era)
      /\ \A w : w # u => RowsLeft(w)
  BY <1>2, <1>4, <1>5, AssignedTable
<1>8. \A i \in Ident : RowMoves(i)
  <2>1. \A i \in Ident : /\ idents'[i] # NoRow <=> table[i] # NoRow
                         /\ idents'[i] # NoRow => Same(table[i], idents'[i])
    BY <1>2, <1>4, <1>5, AssignedTable
  <2> QED BY <1>2, <1>3, <1>5, <1>7, <2>1, RevisedRows
<1>9. \A w : ~Assigning(reqs[r], idents, w)
  BY <1>1 DEF Assigning
<1>10. users' = users /\ users' \subseteq User /\ named' \subseteq users'
  BY <1>3, Known
<1> QED BY <1>3, <1>6, <1>7, <1>8, <1>9, <1>10, IdleGood, RowsStep

LEMMA ConnectVerifyStep ==
  ASSUME IInv, NEW r \in Req, ConnectVerify(r) PROVE IInv'
<1> DEFINE n == GoesOn(r, "assign")
           u == reqs[r].user
<1>1. reqs[r] \in Local /\ EraOK(reqs[r], era) /\ reqs[r].step = "connect_verify"
  BY Known DEF ConnectVerify
<1>2. u \in users /\ u \in User
  BY <1>1, InsertsFor
<1>3. reqs' = [reqs EXCEPT ![r] = n] /\ UNCHANGED <<users, named, links, era, failed>>
  BY DEF ConnectVerify, Moves
<1>4. n \in Local /\ Good(n, users', era, idents', links')
  BY <1>1, <1>2, <1>3, GoesOnGood DEF AddressedSteps
<1>5. n.step = "assign" /\ n.user = u
  BY <1>1 DEF GoesOn, Local
<1> HIDE DEF n
<1>6. /\ idents' \in Tables /\ Revised(idents', u) /\ LateRows(idents', u)
      /\ \A i \in Ident : RowOK(idents'[i], users, era)
  BY <1>1, ConfirmedTable DEF ConnectVerify
<1>7. Admitted(idents')
  <2>1. Admitted(idents)
    BY Known
  <2> QED BY <1>6, <2>1, AdmittedKept DEF Revised
<1>8. \A i \in Ident : Same(idents'[i], idents'[i])
  BY DEF Same
<1>9. (\A i \in Ident : RowMoves(i)) /\ \A w : w # u => RowsLeft(w)
  BY <1>2, <1>3, <1>6, <1>8, RevisedRows, RevisedLeft
<1>10. HasPrimary(idents', reqs', u)
  <2>1. reqs'[r] = n
    BY <1>3, Known
  <2> QED BY <1>5, <2>1 DEF HasPrimary, Assigning
<1>11. \A w : w # u => ~Assigning(reqs[r], idents, w)
  BY DEF Assigning
<1>12. users' = users /\ users' \subseteq User /\ named' \subseteq users'
       /\ links' \in [Link -> LinkRow \cup {NoRow}] /\ \A l \in Link : LinkMoves(l)
  BY <1>3, Known DEF LinkMoves
<1> QED BY <1>3, <1>4, <1>6, <1>7, <1>9, <1>10, <1>11, <1>12, RowsStep

LEMMA AssignWriteStep ==
  ASSUME IInv, NEW r \in Req, AssignWrite(r) PROVE IInv'
<1> DEFINE u == reqs[r].user
           k == reqs[r].ident
<1>1. /\ reqs[r].step = "assign_write" /\ k \in Ident
      /\ idents[k] # NoRow => /\ idents[k].user = u /\ idents[k].value \in Address
                              /\ idents[k].verified
  BY Known DEF AssignWrite, ReqOK, Good, HeldOK
<1>2. reqs' = [reqs EXCEPT ![r] = Idle] /\ UNCHANGED <<users, named, links, era, failed>>
      /\ Admitted(idents')
  BY DEF AssignWrite, Moves, GoesOn, Admitted
<1>3. users' = users /\ users' \subseteq User /\ named' \subseteq users'
      /\ links' \in [Link -> LinkRow \cup {NoRow}] /\ \A l \in Link : LinkMoves(l)
  BY <1>2, Known DEF LinkMoves
<1>4. CASE idents[k] = NoRow
  <2>1. idents' = idents
    BY <1>4, Known DEF AssignWrite, Rows, Tables
  <2>2. \A w : ~Assigning(reqs[r], idents, w)
    BY <1>1, <1>4 DEF Assigning
  <2> QED BY <1>2, <1>3, <2>1, <2>2, IdleGood, RowsSame, RowsStep
<1>5. CASE idents[k] # NoRow
  <2> DEFINE row == [idents[k] EXCEPT !.primary = TRUE]
  <2>1. idents[k] \in Row
    BY <1>1, <1>5, Known
  <2>2. row \in Row /\ Same(idents[k], row) /\ row.primary
    BY <2>1 DEF Row, Same
  <2>3. idents' = [i \in Ident |-> IF i = k THEN row ELSE idents[i]]
    BY <1>5 DEF AssignWrite, Rows
  <2> HIDE DEF row
  <2>4. idents' \in Tables /\ idents'[k] = row /\ \A i \in Ident : i # k => idents'[i] = idents[i]
    BY <1>1, <2>2, <2>3, Known DEF Tables
  <2>5. row # NoRow
    BY <2>2, Constants
  <2>6. RowMoves(k) /\ RowOK(row, users, era)
    <3>1. RowOK(idents[k], users, era)
      BY <1>1, Known
    <3> QED BY <1>1, <1>5, <2>2, <2>4, <2>5, <3>1 DEF RowMoves, RowOK, Same
  <2>7. \A i \in Ident : RowMoves(i) /\ RowOK(idents'[i], users', era)
    BY <1>3, <2>4, <2>6, Known DEF RowMoves
  <2>8. PrimaryOf(idents'[k], u)
    BY <1>1, <1>5, <2>2, <2>4, <2>5 DEF PrimaryOf, Same
  <2>9. HasPrimary(idents', reqs', u)
    BY <1>1, <2>8 DEF HasPrimary
  <2>10. ASSUME NEW w, w # u PROVE RowsLeft(w)
    BY <1>1, <1>5, <2>2, <2>4, <2>10 DEF RowsLeft, VerifiedOf, PrimaryOf, Same
  <2>11. \A w : w # u => ~Assigning(reqs[r], idents, w)
    BY DEF Assigning
  <2> QED BY <1>2, <1>3, <2>4, <2>7, <2>9, <2>10, <2>11, IdleGood, RowsStep
<1> QED BY <1>4, <1>5

-----------------------------------------------------------------------------
(* A handover                                                              *)

\* The rows of the account that are not the address handed over are late: the
\* account had no other way in when the link was opened.
LEMMA HandoverRows ==
  ASSUME IInv, NEW r \in Req, HandoverCommit(r)
  PROVE  /\ idents' \in Tables /\ Admitted(idents')
         /\ \A i \in Ident : RowOK(idents'[i], users, era')
         /\ \A i \in Ident :
              /\ idents'[i] # NoRow <=> idents[i] # NoRow
              /\ idents'[i] # NoRow =>
                   /\ idents'[i].value = idents[i].value /\ idents'[i].user = idents[i].user
                   /\ idents[i].verified => idents'[i].verified
                   /\ idents'[i].user # reqs[r].user => idents'[i] = idents[i]
         /\ HasPrimary(idents', reqs', reqs[r].user)
         /\ \A w : w # reqs[r].user => RowsLeft(w)
         /\ reqs[r].user \in users
<1> DEFINE u == reqs[r].user
           now == era[u] + 1
           table == [i \in Ident |->
              IF i \in RowsOf(u) /\ idents[i].value = reqs[r].addr
              THEN [idents[i] EXCEPT !.verified = TRUE, !.era = now, !.late = FALSE]
              ELSE idents[i]]
<1>1. reqs[r].step = "handover" /\ links[reqs[r].link] # NoRow
  BY DEF HandoverCommit
<1>2. u \in users /\ reqs[r].link \in Link
  BY <1>1, Known DEF ReqOK, Due, Releasing, SignedSteps
<1>3. u \in User
  BY <1>2, Known
<1>4. era[u] \in Nat /\ now \in Nat
  BY <1>3, Known
<1>5. \A i \in Ident : idents[i] # NoRow /\ idents[i].user = u /\ idents[i].verified
                         /\ idents[i].value # reqs[r].addr => idents[i].late
  BY <1>1, Known DEF Good, HandOK
<1>6. idents' \in Assigned(table, u)
  BY DEF HandoverCommit
<1>7. era' = [era EXCEPT ![u] = now]
  BY DEF HandoverCommit
<1>8. era' \in [User -> Nat] /\ era'[u] = now /\ \A w \in User : w # u => era'[w] = era[w]
  <2> HIDE DEF now
  <2> QED BY <1>3, <1>4, <1>7, Known
<1> HIDE DEF now
<1>9. ASSUME NEW i \in Ident
      PROVE  /\ table[i] \in Row \cup {NoRow}
             /\ \/ table[i] = idents[i] /\ ~(i \in RowsOf(u) /\ idents[i].value = reqs[r].addr)
                \/ /\ idents[i] # NoRow /\ table[i] # NoRow
                   /\ idents[i].user = u /\ table[i].user = u
                   /\ table[i].value = idents[i].value /\ table[i].primary = idents[i].primary
                   /\ table[i].verified /\ table[i].era = now /\ table[i].late = FALSE
  <2>1. idents[i] \in Row \cup {NoRow}
    BY <1>9, Known DEF Tables
  <2>2. CASE i \in RowsOf(u) /\ idents[i].value = reqs[r].addr
    <3>1. table[i] = [idents[i] EXCEPT !.verified = TRUE, !.era = now, !.late = FALSE]
      BY <2>2, <1>9
    <3>2. idents[i] # NoRow /\ idents[i].user = u
      BY <2>2 DEF RowsOf, Rows
    <3> HIDE DEF table
    <3> QED BY <1>4, <2>1, <3>1, <3>2, Constants DEF Row
  <2>3. CASE ~(i \in RowsOf(u) /\ idents[i].value = reqs[r].addr)
    <3>1. table[i] = idents[i]
      BY <2>3, <1>9
    <3> HIDE DEF table
    <3> QED BY <2>1, <2>3, <3>1
  <2> QED BY <2>2, <2>3
<1>10. table \in Tables
  BY <1>9 DEF Tables
<1> HIDE DEF table
<1>11. Revised(table, u)
  BY <1>9 DEF Revised
<1>12. ASSUME NEW i \in Ident PROVE RowOK(table[i], users, era')
  <2>1. RowOK(idents[i], users, era)
    BY Known
  <2>2. CASE table[i] = idents[i] /\ ~(i \in RowsOf(u) /\ idents[i].value = reqs[r].addr)
    <3>1. CASE table[i] # NoRow /\ table[i].user = u
      <4>1. i \in RowsOf(u)
        BY <2>2, <3>1 DEF RowsOf, Rows
      <4> QED BY <1>5, <2>1, <2>2, <3>1, <4>1 DEF RowOK
    <3>2. CASE table[i] # NoRow /\ table[i].user # u
      <4>1. table[i].user \in User
        BY <2>2, <3>2, Known
      <4> QED BY <1>8, <2>1, <2>2, <3>2, <4>1 DEF RowOK
    <3>3. CASE table[i] = NoRow
      BY <3>3 DEF RowOK
    <3> QED BY <3>1, <3>2, <3>3
  <2>3. CASE /\ idents[i] # NoRow /\ table[i] # NoRow
             /\ idents[i].user = u /\ table[i].user = u
             /\ table[i].value = idents[i].value /\ table[i].primary = idents[i].primary
             /\ table[i].verified /\ table[i].era = now
    BY <1>2, <1>4, <1>8, <2>1, <2>3 DEF RowOK
  <2> QED BY <1>9, <2>2, <2>3
<1>13. /\ idents' \in Tables /\ Admitted(idents')
       /\ \A i \in Ident : RowOK(idents'[i], users, era')
       /\ \A i \in Ident :
            /\ idents'[i] # NoRow <=> table[i] # NoRow
            /\ idents'[i] # NoRow => /\ Same(table[i], idents'[i])
                                     /\ idents'[i].user # u => idents'[i] = table[i]
       /\ HasPrimary(idents', reqs', u)
       /\ \A w : w # u => RowsLeft(w)
  BY <1>3, <1>6, <1>10, <1>11, <1>12, AssignedTable
<1>14. ASSUME NEW i \in Ident
       PROVE  /\ idents'[i] # NoRow <=> idents[i] # NoRow
              /\ idents'[i] # NoRow =>
                   /\ idents'[i].value = idents[i].value /\ idents'[i].user = idents[i].user
                   /\ idents[i].verified => idents'[i].verified
                   /\ idents'[i].user # u => idents'[i] = idents[i]
  <2>1. /\ idents'[i] # NoRow <=> table[i] # NoRow
        /\ idents'[i] # NoRow => /\ Same(table[i], idents'[i])
                                 /\ idents'[i].user # u => idents'[i] = table[i]
    BY <1>13
  <2>2. CASE table[i] = idents[i]
    BY <2>1, <2>2 DEF Same
  <2>3. CASE table[i] # idents[i]
    <3>1. /\ idents[i] # NoRow /\ table[i] # NoRow
          /\ idents[i].user = u /\ table[i].user = u
          /\ table[i].value = idents[i].value /\ table[i].verified
      BY <1>9, <2>3
    <3> QED BY <2>1, <3>1 DEF Same
  <2> QED BY <2>2, <2>3
<1> QED BY <1>2, <1>13, <1>14

LEMMA HandoverStep ==
  ASSUME IInv, NEW r \in Req, HandoverCommit(r) PROVE IInv'
<1> DEFINE u == reqs[r].user
<1>1. /\ idents' \in Tables /\ Admitted(idents')
      /\ \A i \in Ident : RowOK(idents'[i], users, era')
      /\ \A i \in Ident :
           /\ idents'[i] # NoRow <=> idents[i] # NoRow
           /\ idents'[i] # NoRow =>
                /\ idents'[i].value = idents[i].value /\ idents'[i].user = idents[i].user
                /\ idents[i].verified => idents'[i].verified
                /\ idents'[i].user # u => idents'[i] = idents[i]
      /\ HasPrimary(idents', reqs', u)
      /\ \A w : w # u => RowsLeft(w)
      /\ u \in users
  BY HandoverRows
<1>2. /\ links' = LinksWithout(u, Address) /\ era' = [era EXCEPT ![u] = @ + 1]
      /\ reqs' = [q \in Req |-> IF q = r THEN Idle
                                ELSE IF reqs[q].user = u
                                THEN [reqs[q] EXCEPT !.late = TRUE] ELSE reqs[q]]
      /\ UNCHANGED <<users, named, failed>> /\ reqs[r].step = "handover"
  BY DEF HandoverCommit
<1> HIDE DEF u
<1>3. u \in User
  BY <1>1, Known
<1>4. era' \in [User -> Nat] /\ \A w \in User : w # u => era'[w] = era[w]
  BY <1>2, <1>3, Known
<1>5. /\ links' \in [Link -> LinkRow \cup {NoRow}]
      /\ \A l \in Link : links'[l] # NoRow => links'[l] = links[l] /\ links'[l].user # u
  BY <1>2, Known DEF LinksWithout
<1>6. ASSUME NEW q \in Req, q # r
      PROVE  /\ reqs'[q] \in Local /\ reqs'[q].step = reqs[q].step /\ reqs'[q].next = reqs[q].next
             /\ reqs'[q].user = reqs[q].user /\ reqs'[q].addr = reqs[q].addr
             /\ reqs'[q].sub = reqs[q].sub /\ reqs'[q].ident = reqs[q].ident
             /\ reqs'[q].link = reqs[q].link /\ reqs'[q].era = reqs[q].era
             /\ reqs'[q].late = IF reqs[q].user = u THEN TRUE ELSE reqs[q].late
  <2>1. reqs[q] \in Local
    BY Known
  <2>2. CASE reqs[q].user = u
    <3>1. reqs'[q] = [reqs[q] EXCEPT !.late = TRUE]
      BY <1>2, <1>6, <2>2
    <3> QED BY <2>1, <2>2, <3>1 DEF Local
  <2>3. CASE reqs[q].user # u
    <3>1. reqs'[q] = reqs[q]
      BY <1>2, <1>6, <2>3
    <3> QED BY <2>1, <2>3, <3>1
  <2> QED BY <2>2, <2>3
<1>7. reqs'[r] = Idle
  BY <1>2
<1>8. reqs' \in [Req -> Local]
  <2>1. reqs' = [q \in Req |-> reqs'[q]]
    BY <1>2
  <2>2. \A q \in Req : reqs'[q] \in Local
    BY <1>6, <1>7, IdleGood
  <2> QED BY <2>1, <2>2
<1>9. TypeOK'
  BY <1>1, <1>2, <1>4, <1>5, <1>8, Known DEF TypeOK, Tables, Admitted
<1>10. RowsInv'
  BY <1>1, <1>2 DEF RowsInv, RowOK
<1>11. LinksInv'
  BY <1>2, <1>5, Known DEF LinksInv
<1>12. FreshInv'
  BY <1>1, <1>2, <1>4 DEF FreshInv, IInv
<1>13. ASSUME NEW q \in Req, q # r PROVE Good(reqs'[q], users', era', idents', links')
  <2>1. Good(reqs[q], users, era, idents, links) /\ reqs[q] \in Local
    BY Known
  <2>2. ReqOK(reqs'[q], users')
    <3>1. Due(reqs'[q]) = Due(reqs[q])
      BY <1>6, <1>13 DEF Due
    <3>2. ReqOK(reqs[q], users)
      BY <2>1 DEF Good
    <3>3. users' = users
      BY <1>2
    <3> QED BY <1>6, <1>13, <3>1, <3>2, <3>3 DEF ReqOK
  <2>3. EraOK(reqs'[q], era')
    BY <1>4, <1>6, <1>13, <2>1 DEF Good, EraOK
  <2>4. HeldOK(reqs'[q], idents')
    <3>1. reqs[q].step \in {"assign_write", "disconnect", "remove"} => reqs[q].ident \in Ident
      BY <2>1 DEF Good, ReqOK
    <3> QED BY <1>1, <1>6, <1>13, <2>1, <3>1 DEF Good, HeldOK
  <2>5. HandOK(reqs'[q], idents', links')
    <3> SUFFICES ASSUME reqs[q].step = "handover", links'[reqs[q].link] # NoRow
                 PROVE  /\ links'[reqs[q].link].user = reqs[q].user
                        /\ \A i \in Ident :
                             idents'[i] # NoRow /\ idents'[i].user = reqs[q].user
                               /\ idents'[i].verified /\ idents'[i].value # reqs[q].addr
                               => idents'[i].late
      BY <1>6, <1>13 DEF HandOK
    <3>1. reqs[q].link \in Link
      BY <2>1 DEF Good, ReqOK
    <3>2. links'[reqs[q].link] = links[reqs[q].link] /\ links'[reqs[q].link].user # u
      BY <1>5, <3>1
    <3>3. /\ links[reqs[q].link].user = reqs[q].user
          /\ \A i \in Ident :
               idents[i] # NoRow /\ idents[i].user = reqs[q].user /\ idents[i].verified
                 /\ idents[i].value # reqs[q].addr => idents[i].late
      BY <2>1, <3>2 DEF Good, HandOK
    <3> QED BY <1>1, <3>2, <3>3
  <2> QED BY <2>2, <2>3, <2>4, <2>5 DEF Good
<1>14. ReqsInv'
  <2>1. \A q \in Req : Good(reqs'[q], users', era', idents', links')
    BY <1>7, <1>13, IdleGood
  <2> QED BY <2>1 DEF ReqsInv, Good, ReqOK, EraOK, HeldOK, HandOK
<1>15. PrimaryInv'
  <2>1. ASSUME NEW w \in users', w # u, NEW q \in Req, Assigning(reqs[q], idents, w)
        PROVE  reqs'[q] = reqs[q]
    <3>1. q # r /\ reqs[q].user # u
      BY <1>2, <2>1 DEF Assigning
    <3> QED BY <1>2, <3>1
  <2>2. \A w \in users' : HasPrimary(idents', reqs', w) \/ Undisturbed(w)
    BY <1>1, <2>1 DEF Undisturbed
  <2> QED BY <1>2, <2>2, PrimaryStep
<1> QED BY <1>9, <1>10, <1>11, <1>12, <1>14, <1>15 DEF IInv

-----------------------------------------------------------------------------
(* The theorems                                                            *)

LEMMA InitInv == Init => IInv
<1> SUFFICES ASSUME Init PROVE IInv
  OBVIOUS
<1>1. TypeOK
  BY IdleGood DEF Init, TypeOK, Admitted
<1>2. RowsInv /\ LinksInv /\ FreshInv /\ PrimaryInv
  BY DEF Init, RowsInv, RowOK, LinksInv, FreshInv, PrimaryInv
<1>3. ReqsInv
  BY IdleGood DEF Init, ReqsInv
<1> QED BY <1>1, <1>2, <1>3 DEF IInv

LEMMA NextInv == IInv /\ [Next]_vars => IInv'
<1> SUFFICES ASSUME IInv, [Next]_vars PROVE IInv'
  OBVIOUS
<1>1. ASSUME NEW r \in Req,
             \/ \E i \in Ident : ReleaseFind(r, i)
             \/ ReleaseNone(r) \/ ReleaseDelete(r)
             \/ \E a \in Address : SignUp(r, a)
             \/ \E u \in User, i \in Ident, b \in BOOLEAN : SignUpInsert(r, u, i, b)
             \/ \E u \in User, a \in Address : EmailAdd(r, u, a)
             \/ \E i \in Ident : EmailAddInsert(r, i)
             \/ \E u \in User, i \in Ident : Resend(r, u, i)
             \/ \E l \in Link : TokenInsert(r, l)
      PROVE  IInv'
  BY <1>1, ReleaseFindStep, ReleaseNoneStep, ReleaseDeleteStep, SignUpStep, SignUpInsertStep,
     EmailAddStep, EmailAddInsertStep, ResendStep, TokenInsertStep
<1>2. ASSUME NEW r \in Req,
             \/ \E l \in Link : VerifyOpen(r, l)
             \/ VerifyCommit(r)
             \/ \E l \in Link : HandoverOpen(r, l)
             \/ HandoverCommit(r)
             \/ \E l \in Link : NotMine(r, l)
             \/ \E a \in Address : MagicOpen(r, a)
             \/ MagicFound(r)
             \/ \E u \in User : MagicSignUp(r, u)
             \/ \E i \in Ident : MagicInsert(r, i)
      PROVE  IInv'
  BY <1>2, VerifyOpenStep, VerifyCommitStep, HandoverOpenStep, HandoverStep, NotMineStep,
     MagicOpenStep, MagicFoundStep, MagicSignUpStep, MagicInsertStep
<1>3. ASSUME NEW r \in Req,
             \/ \E g \in Sub, a \in Address, b \in BOOLEAN : OAuthLogin(r, g, a, b)
             \/ \E u \in User, i, j \in Ident : OAuthSignUp(r, u, i, j)
             \/ \E u \in User, g \in Sub, a \in Address \cup {None} : Connect(r, u, g, a)
             \/ \E i \in Ident : ConnectInsert(r, i)
             \/ \E i \in Ident : ConnectEmail(r, i)
             \/ ConnectVerify(r)
      PROVE  IInv'
  BY <1>3, OAuthLoginStep, OAuthSignUpStep, ConnectStep, ConnectInsertStep, ConnectEmailStep,
     ConnectVerifyStep
<1>4. ASSUME NEW r \in Req,
             \/ \E i \in Ident : AssignRead(r, i)
             \/ AssignNone(r) \/ AssignWrite(r)
             \/ \E u \in User, i \in Ident : Disconnect(r, u, i)
             \/ DisconnectDelete(r)
             \/ \E u \in User, i \in Ident : Remove(r, u, i)
             \/ RemoveCommit(r) \/ Abort(r)
      PROVE  IInv'
  BY <1>4, AssignReadStep, AssignNoneStep, AssignWriteStep, DisconnectStep,
     DisconnectDeleteStep, RemoveStep, RemoveCommitStep, AbortStep
<1>5. ASSUME NEW l \in Link, ExpireLink(l) PROVE IInv'
  BY <1>5, ExpireLinkStep
<1>6. CASE UNCHANGED vars
  BY <1>6, StutterStep
<1> QED BY <1>1, <1>2, <1>3, <1>4, <1>5, <1>6 DEF Next

LEMMA Invariant == Spec => []IInv
BY InitInv, NextInv, PTL DEF Spec

\* The rows, the links and the requests have their types, and the rows pass
\* the unique indexes though two of the inserts ask nobody first.
THEOREM TypeCorrect == Spec => []TypeOK
<1>1. IInv => TypeOK
  BY DEF IInv
<1> QED BY <1>1, Invariant, PTL

\* A way in that is older than the last handover of its account was made while
\* that handover was decided or took place.
THEOREM OlderWays == Spec => []OlderWaysWereInFlight
<1>1. IInv => OlderWaysWereInFlight
  BY DEF IInv, RowsInv, RowOK, OlderWaysWereInFlight, Rows
<1> QED BY <1>1, Invariant, PTL

\* An account with a confirmed address has a primary one, or is about to, or
\* a request failed on it.
THEOREM PrimaryAssigned == Spec => []PrimaryUnlessFailed
<1>1. IInv => PrimaryUnlessFailed
  <2> SUFFICES ASSUME IInv, NEW u \in users \ failed,
                      NEW i \in EmailsOf(u), idents[i].verified
               PROVE  \/ \E j \in EmailsOf(u) : idents[j].primary
                      \/ \E r \in Req :
                           /\ reqs[r].user = u
                           /\ reqs[r].step \in {"connect_verify", "assign", "assign_write"}
    BY DEF PrimaryUnlessFailed
  <2>1. i \in Ident /\ VerifiedOf(idents[i], u)
    BY DEF EmailsOf, RowsOf, Rows, VerifiedOf
  <2>2. HasPrimary(idents, reqs, u)
    BY DEF IInv, PrimaryInv
  <2>3. CASE \E j \in Ident : PrimaryOf(idents[j], u)
    BY <2>3 DEF PrimaryOf, EmailsOf, RowsOf, Rows
  <2>4. CASE \E r \in Req : Assigning(reqs[r], idents, u)
    BY <2>4 DEF Assigning
  <2> QED BY <2>1, <2>2, <2>3, <2>4 DEF HasPrimary
<1> QED BY <1>1, Invariant, PTL

-----------------------------------------------------------------------------
(* What is confirmed stays, and comes to one account at a time             *)

Sure(row) == row # NoRow /\ row.verified

\* What signs in to an account still does.
Keeps ==
  \A i \in Ident : Sure(idents[i]) =>
    /\ Sure(idents'[i])
    /\ idents'[i].value = idents[i].value /\ idents'[i].user = idents[i].user

\* Nothing comes to any account but u; or to any at all.
Comers(u) ==
  \A i \in Ident : Sure(idents'[i]) /\ ~Sure(idents[i]) => idents'[i].user = u

NoComer == \A i \in Ident : Sure(idents'[i]) => Sure(idents[i])

\* Confirming rewrites rows of one account, and deletes none.
LEMMA ConfirmKeeps ==
  ASSUME IInv, NEW r \in Req, VerifyCommit(r) \/ ConnectVerify(r) \/ HandoverCommit(r)
  PROVE  Keeps /\ reqs[r].user \in User /\ Comers(reqs[r].user)
<1> DEFINE u == reqs[r].user
           late == reqs[r].late \/ InHandover(u)
           table == Confirmed(idents, u, reqs[r].addr, reqs[r].era, late)
<1>1. CASE HandoverCommit(r)
  BY <1>1, HandoverRows, Known DEF Keeps, Comers, Sure
<1>2. CASE VerifyCommit(r) \/ ConnectVerify(r)
  <2>1. reqs[r].step \in {"verify", "connect_verify"}
    BY <1>2 DEF VerifyCommit, ConnectVerify
  <2>2. u \in User /\ reqs[r].era \in Nat
    BY <2>1, InsertsFor, Known DEF Local
  <2>3. late \in BOOLEAN
    BY Known DEF Local, InHandover
  <2>4. /\ table \in Tables /\ Revised(table, u)
        /\ \A i \in Ident : RowOK(table[i], users, era)
    BY <2>1, ConfirmedTable
  <2>5. idents' \in Assigned(table, u) \/ idents' = table
    BY <1>2 DEF VerifyCommit, ConnectVerify
  <2> HIDE DEF u, late
  <2>6. \A i \in Ident :
          \/ table[i] = idents[i]
          \/ /\ idents[i] # NoRow /\ table[i] # NoRow
             /\ idents[i].user = u /\ table[i].user = u
             /\ table[i].value = idents[i].value /\ ~idents[i].verified
    BY <2>2, <2>3, ConfirmedRows, Known
  <2> HIDE DEF table
  <2>7. \A i \in Ident :
          \/ idents'[i] = table[i]
          \/ table[i] # NoRow /\ idents'[i] # NoRow /\ Same(table[i], idents'[i])
    BY <2>2, <2>4, <2>5, AssignedTable
  <2>8. Keeps /\ Comers(u)
    BY <2>6, <2>7 DEF Keeps, Comers, Sure, Same
  <2> QED BY <2>2, <2>8 DEF u
<1> QED BY <1>1, <1>2

\* Inserting takes an id that nobody has, for one account.
LEMMA InsertKeeps ==
  ASSUME IInv, NEW r \in Req, NEW i \in Ident,
         \/ \E u \in User, b \in BOOLEAN : SignUpInsert(r, u, i, b)
         \/ \E u \in User, j \in Ident : OAuthSignUp(r, u, i, j)
         \/ EmailAddInsert(r, i) \/ MagicInsert(r, i)
         \/ ConnectInsert(r, i) \/ ConnectEmail(r, i)
  PROVE  Keeps /\ \E u \in User : Comers(u)
<1>0. \A u, v, b : NewRow(r, u, v, b).user = u
  BY DEF NewRow
<1>1. CASE \E u \in User, j \in Ident : OAuthSignUp(r, u, i, j)
  <2>1. PICK u \in User, j \in Ident : OAuthSignUp(r, u, i, j)
    BY <1>1
  <2>2. /\ idents[i] = NoRow /\ idents[j] = NoRow
        /\ \A k \in Ident \ {i, j} : idents'[k] = idents[k]
        /\ idents'[i].user = u
        /\ idents'[j] = idents[j] \/ idents'[j].user = u
    BY <1>0, <2>1 DEF OAuthSignUp, FreeIdent, NewRow
  <2>3. Keeps /\ Comers(u)
    BY <2>2 DEF Keeps, Comers, Sure
  <2> QED BY <2>3
<1>2. CASE \/ \E u \in User, b \in BOOLEAN : SignUpInsert(r, u, i, b)
           \/ EmailAddInsert(r, i) \/ MagicInsert(r, i)
           \/ ConnectInsert(r, i) \/ ConnectEmail(r, i)
  <2>1. ASSUME NEW u \in User, NEW v, NEW b, idents[i] = NoRow,
               idents' = [idents EXCEPT ![i] = NewRow(r, u, v, b)]
        PROVE  Keeps /\ Comers(u)
    <3>1. idents'[i].user = u /\ \A k \in Ident \ {i} : idents'[k] = idents[k]
      BY <1>0, <2>1, Known DEF Tables
    <3> QED BY <2>1, <3>1 DEF Keeps, Comers, Sure
  <2>2. CASE \E u \in User, b \in BOOLEAN : SignUpInsert(r, u, i, b)
    BY <2>1, <2>2 DEF SignUpInsert, FreeIdent
  <2>3. CASE EmailAddInsert(r, i) \/ MagicInsert(r, i) \/ ConnectInsert(r, i)
    <3>1. reqs[r].step \in {"add", "magic_insert", "connect"}
      BY <2>3 DEF EmailAddInsert, MagicInsert, ConnectInsert
    <3>2. reqs[r].user \in User
      BY <3>1, InsertsFor
    <3> QED BY <2>1, <2>3, <3>2 DEF EmailAddInsert, MagicInsert, ConnectInsert, FreeIdent
  <2>4. CASE ConnectEmail(r, i)
    <3>1. reqs[r].step = "connect_email"
      BY <2>4 DEF ConnectEmail
    <3>2. reqs[r].user \in User
      BY <3>1, InsertsFor
    <3>3. CASE UNCHANGED idents
      BY <3>2, <3>3 DEF Keeps, Comers, Sure
    <3> QED BY <2>1, <2>4, <3>2, <3>3 DEF ConnectEmail, FreeIdent
  <2> QED BY <1>2, <2>2, <2>3, <2>4
<1> QED BY <1>1, <1>2

LEMMA AssignWriteKeeps ==
  ASSUME IInv, NEW r \in Req, AssignWrite(r) PROVE Keeps /\ NoComer
<1> SUFFICES ASSUME NEW i \in Ident, idents[i] # NoRow \/ idents'[i] # NoRow
             PROVE  /\ idents[i] # NoRow /\ idents'[i] # NoRow
                    /\ idents'[i].value = idents[i].value /\ idents'[i].user = idents[i].user
                    /\ idents'[i].verified = idents[i].verified
  BY DEF Keeps, NoComer, Sure
<1>1. /\ idents'[i] = idents[i] \/ idents'[i] = [idents[i] EXCEPT !.primary = TRUE]
      /\ idents[i] = NoRow => idents'[i] = NoRow
  BY DEF AssignWrite, Rows
<1>2. idents[i] # NoRow /\ idents[i] \in Row
  BY <1>1, Known DEF AssignWrite, Rows
<1>3. [idents[i] EXCEPT !.primary = TRUE] \in Row
  BY <1>2 DEF Row
<1> QED BY <1>1, <1>2, <1>3, Constants DEF Row

\* A release takes what is not confirmed.
LEMMA ReleaseKeeps ==
  ASSUME IInv, NEW r \in Req, ReleaseDelete(r) PROVE Keeps /\ NoComer
  BY DEF ReleaseDelete, Keeps, NoComer, Sure, Rows

\* A disconnect and a removal take one row, and it is their own account's.
TakenBy(r) ==
  /\ reqs[r].ident \in Ident /\ reqs[r].user \in User
  /\ idents'[reqs[r].ident] = NoRow
  /\ idents[reqs[r].ident] # NoRow => idents[reqs[r].ident].user = reqs[r].user
  /\ \A i \in Ident \ {reqs[r].ident} :
       \/ idents'[i] = idents[i]
       \/ idents[i] # NoRow /\ idents'[i] # NoRow /\ Same(idents[i], idents'[i])

LEMMA DisconnectTakes ==
  ASSUME IInv, NEW r \in Req, DisconnectDelete(r)
  PROVE  /\ TakenBy(r)
         /\ idents[reqs[r].ident] # NoRow => idents[reqs[r].ident].value \in Sub
<1>1. /\ reqs[r].step = "disconnect" /\ reqs[r].ident \in Ident
      /\ idents[reqs[r].ident] # NoRow =>
           idents[reqs[r].ident].user = reqs[r].user /\ idents[reqs[r].ident].value \in Sub
  BY Known DEF DisconnectDelete, ReqOK, Good, HeldOK
<1>2. reqs[r].user \in User
  BY <1>1, InsertsFor
<1>3. /\ idents'[reqs[r].ident] = NoRow
      /\ \A i \in Ident \ {reqs[r].ident} : idents'[i] = idents[i]
  BY <1>1, Known DEF DisconnectDelete, Tables
<1> QED BY <1>1, <1>2, <1>3 DEF TakenBy

LEMMA RemoveTakes ==
  ASSUME IInv, NEW r \in Req, RemoveCommit(r)
  PROVE  TakenBy(r) /\ reqs[r].step = "remove" /\ reqs'[r].step = "idle"
<1> DEFINE u == reqs[r].user
           table == [idents EXCEPT ![reqs[r].ident] = NoRow]
<1>1. /\ reqs[r].step = "remove" /\ reqs[r].ident \in Ident
      /\ idents[reqs[r].ident] # NoRow => idents[reqs[r].ident].user = u
  BY Known DEF RemoveCommit, ReqOK, Good, HeldOK
<1>2. reqs'[r].step = "idle"
  BY Known DEF RemoveCommit, Moves, GoesOn, Idle
<1>3. u \in User
  BY <1>1, InsertsFor
<1>4. /\ table \in Tables /\ Revised(table, u)
      /\ \A k \in Ident : RowOK(table[k], users, era)
  BY <1>1, Known DEF Tables, Revised, RowOK
<1>5. idents' \in Assigned(table, u)
  BY DEF RemoveCommit
<1>6. /\ \A k \in Ident : k # reqs[r].ident => table[k] = idents[k]
      /\ table[reqs[r].ident] = NoRow
  BY <1>1, Known DEF Tables
<1> HIDE DEF table
<1>7. \A k \in Ident : /\ idents'[k] # NoRow <=> table[k] # NoRow
                       /\ idents'[k] # NoRow => Same(table[k], idents'[k])
  BY <1>3, <1>4, <1>5, AssignedTable
<1> QED BY <1>1, <1>2, <1>3, <1>6, <1>7 DEF TakenBy

\* Of every step: what it does to the rows.
LEMMA WhatComes ==
  ASSUME IInv, Next
  PROVE  \/ UNCHANGED idents
         \/ Keeps /\ (NoComer \/ \E u \in User : Comers(u))
         \/ \E r \in Req : DisconnectDelete(r) \/ RemoveCommit(r)
<1> DEFINE Fine ==
      \/ UNCHANGED idents
      \/ Keeps /\ (NoComer \/ \E u \in User : Comers(u))
      \/ \E r \in Req : DisconnectDelete(r) \/ RemoveCommit(r)
<1>1. ASSUME NEW r \in Req,
             \/ \E i \in Ident : ReleaseFind(r, i)
             \/ ReleaseNone(r)
             \/ \E a \in Address : SignUp(r, a)
             \/ \E u \in User, a \in Address : EmailAdd(r, u, a)
             \/ \E u \in User, i \in Ident : Resend(r, u, i)
             \/ \E l \in Link : TokenInsert(r, l) \/ VerifyOpen(r, l) \/ HandoverOpen(r, l)
                                \/ NotMine(r, l)
             \/ \E a \in Address : MagicOpen(r, a)
             \/ MagicFound(r)
             \/ \E u \in User : MagicSignUp(r, u)
      PROVE  UNCHANGED idents
  BY <1>1 DEF ReleaseFind, ReleaseNone, SignUp, EmailAdd, Resend, TokenInsert, VerifyOpen,
              HandoverOpen, NotMine, MagicOpen, MagicFound, MagicSignUp
<1>2. ASSUME NEW r \in Req,
             \/ \E g \in Sub, a \in Address, b \in BOOLEAN : OAuthLogin(r, g, a, b)
             \/ \E u \in User, g \in Sub, a \in Address \cup {None} : Connect(r, u, g, a)
             \/ \E i \in Ident : AssignRead(r, i)
             \/ AssignNone(r)
             \/ \E u \in User, i \in Ident : Disconnect(r, u, i) \/ Remove(r, u, i)
             \/ Abort(r)
      PROVE  UNCHANGED idents
  BY <1>2 DEF OAuthLogin, Connect, AssignRead, AssignNone, Disconnect, Remove, Abort
<1>3. ASSUME NEW l \in Link, ExpireLink(l) PROVE UNCHANGED idents
  BY <1>3 DEF ExpireLink
<1>4. ASSUME NEW r \in Req, VerifyCommit(r) \/ ConnectVerify(r) \/ HandoverCommit(r) PROVE Fine
  BY <1>4, ConfirmKeeps
<1>5. ASSUME NEW r \in Req, NEW i \in Ident,
             \/ \E u \in User, b \in BOOLEAN : SignUpInsert(r, u, i, b)
             \/ \E u \in User, j \in Ident : OAuthSignUp(r, u, i, j)
             \/ EmailAddInsert(r, i) \/ MagicInsert(r, i)
             \/ ConnectInsert(r, i) \/ ConnectEmail(r, i)
      PROVE  Fine
  BY <1>5, InsertKeeps
<1>6. ASSUME NEW r \in Req, ReleaseDelete(r) \/ AssignWrite(r) PROVE Fine
  BY <1>6, ReleaseKeeps, AssignWriteKeeps
<1>7. ASSUME NEW r \in Req, DisconnectDelete(r) PROVE Fine
  BY <1>7
<1>8. ASSUME NEW r \in Req, RemoveCommit(r) PROVE Fine
  BY <1>8
<1>9. UNCHANGED idents => Fine
  OBVIOUS
<1> HIDE DEF Fine
<1>10. Fine
  BY <1>1, <1>2, <1>3, <1>4, <1>5, <1>6, <1>7, <1>8, <1>9 DEF Next
<1> QED BY <1>10 DEF Fine

\* Whatever the order of its statements and of those of the others, only a
\* removal takes a confirmed address, and only off the account it is of.
THEOREM ConfirmedStays == Spec => ConfirmedNeverYields
<1> DEFINE Stays ==
      \A i \in Rows :
        idents[i].value \in Address /\ idents[i].verified /\ idents'[i] = NoRow
        => \E r \in Req : /\ reqs[r].step = "remove" /\ reqs'[r].step = "idle"
                          /\ reqs[r].user = idents[i].user
<1>1. IInv /\ [Next]_vars => [Stays]_vars
  <2> SUFFICES ASSUME IInv, Next PROVE Stays
    OBVIOUS
  <2>1. CASE UNCHANGED idents
    BY <2>1 DEF Rows
  <2>2. CASE Keeps
    BY <2>2 DEF Keeps, Sure, Rows
  <2>3. ASSUME NEW r \in Req, DisconnectDelete(r) PROVE Stays
    BY <2>3, DisconnectTakes, Constants DEF TakenBy, Rows
  <2>4. ASSUME NEW r \in Req, RemoveCommit(r) PROVE Stays
    BY <2>4, RemoveTakes DEF TakenBy, Rows
  <2> QED BY <2>1, <2>2, <2>3, <2>4, WhatComes
<1> QED BY <1>1, Invariant, PTL DEF Spec, ConfirmedNeverYields

-----------------------------------------------------------------------------
(* Refinement                                                              *)

Value == Address \cup Sub

\* A pair is held by a row, of the values and the accounts there are.
LEMMA HeldRows ==
  ASSUME IInv, NEW v, NEW u
  PROVE  <<v, u>> \in Held <=>
           \E i \in Ident : Sure(idents[i]) /\ idents[i].value = v /\ idents[i].user = u
<1>1. idents \in Tables
  BY DEF IInv, TypeOK, Tables
<1>2. \A i \in Ident : idents[i] # NoRow => idents[i].value \in Value /\ idents[i].user \in User
  BY <1>1 DEF Tables, Row, Value
<1> QED BY <1>2 DEF Held, Sure, At, Rows, Value

LEMMA HeldRowsNext ==
  ASSUME IInv', NEW v, NEW u
  PROVE  <<v, u>> \in Held' <=>
           \E i \in Ident : Sure(idents'[i]) /\ idents'[i].value = v /\ idents'[i].user = u
<1>1. idents' \in Tables
  BY DEF IInv, TypeOK, Tables
<1>2. \A i \in Ident : idents'[i] # NoRow => idents'[i].value \in Value /\ idents'[i].user \in User
  BY <1>1 DEF Tables, Row, Value
<1> QED BY <1>2 DEF Held, Sure, At, Rows, Value

LEMMA HeldPairs ==
  /\ \A p \in Held : p = <<p[1], p[2]>> /\ p[1] \in Value /\ p[2] \in User
  /\ \A p \in Held' : p = <<p[1], p[2]>> /\ p[1] \in Value /\ p[2] \in User
  BY DEF Held, Value

\* If all that is held stays and nothing comes, nothing changes hands.
LEMMA NothingComes ==
  ASSUME IInv, IInv', Keeps, NoComer PROVE UNCHANGED Held
<1>1. ASSUME NEW v, NEW u PROVE <<v, u>> \in Held <=> <<v, u>> \in Held'
  <2>1. \A i \in Ident :
          Sure(idents[i]) /\ idents[i].value = v /\ idents[i].user = u
          <=> Sure(idents'[i]) /\ idents'[i].value = v /\ idents'[i].user = u
    BY DEF Keeps, NoComer
  <2> QED BY <2>1, HeldRows, HeldRowsNext
<1> QED BY <1>1, HeldPairs

\* If it stays and some comes to u, what comes was nobody's: the indexes hold
\* of the rows that come together with those that stay.
LEMMA SomeComes ==
  ASSUME IInv, IInv', Keeps, NEW u \in User, Comers(u)
  PROVE  \E values \in SUBSET Value : Owned!Claim(u, values)
<1> DEFINE values == {v \in Value : <<v, u>> \in Held' /\ <<v, u>> \notin Held}
<1>1. Admitted(idents')
  BY DEF IInv, TypeOK, Admitted
<1>2. ASSUME NEW v \in values, NEW w, <<v, w>> \in Held PROVE FALSE
  <2>1. PICK i \in Ident : Sure(idents[i]) /\ idents[i].value = v /\ idents[i].user = w
    BY <1>2, HeldRows
  <2>2. Sure(idents'[i]) /\ idents'[i].value = v /\ idents'[i].user = w
    BY <2>1 DEF Keeps
  <2>3. PICK j \in Ident : Sure(idents'[j]) /\ idents'[j].value = v /\ idents'[j].user = u
    BY <1>2, HeldRowsNext
  <2>4. i = j
    BY <1>1, <2>2, <2>3 DEF Admitted, Sure
  <2>5. w = u
    BY <2>2, <2>3, <2>4
  <2> QED BY <1>2, <2>5
<1>3. ASSUME NEW v, NEW w, <<v, w>> \in Held PROVE <<v, w>> \in Held'
  BY <1>3, HeldRows, HeldRowsNext DEF Keeps
<1>4. ASSUME NEW v, NEW w, <<v, w>> \in Held', <<v, w>> \notin Held
      PROVE  w = u /\ v \in values
  <2>1. PICK i \in Ident : Sure(idents'[i]) /\ idents'[i].value = v /\ idents'[i].user = w
    BY <1>4, HeldRowsNext
  <2>2. ~Sure(idents[i])
    BY <1>4, <2>1, HeldRows DEF Keeps
  <2>3. w = u
    BY <2>1, <2>2 DEF Comers
  <2>4. v \in Value
    BY <1>4, HeldPairs
  <2> QED BY <1>4, <2>3, <2>4
<1>5. \A v, w : <<v, w>> \in Held' <=> <<v, w>> \in Held \cup (values \X {u})
  BY <1>3, <1>4
<1>6. \A p \in Held \cup (values \X {u}) : p = <<p[1], p[2]>>
  BY HeldPairs
<1>7. Held' = Held \cup (values \X {u})
  BY <1>5, <1>6, HeldPairs
<1>8. values \in SUBSET Value
  OBVIOUS
<1> HIDE DEF values
<1> QED BY <1>2, <1>7, <1>8 DEF Owned!Claim, Owned!Nobodys

\* If one row goes, what it held leaves its own account, and nothing else does.
LEMMA OneGoes ==
  ASSUME IInv, IInv', NEW r \in Req, reqs[r].step \in {"disconnect", "remove"}, TakenBy(r)
  PROVE  UNCHANGED Held \/ \E u \in User, v \in Value : Owned!Yield(u, v)
<1> DEFINE k == reqs[r].ident
           u == reqs[r].user
           v == idents[k].value
<1>1. /\ k \in Ident /\ u \in User /\ idents'[k] = NoRow
      /\ idents[k] # NoRow => idents[k].user = u
      /\ \A i \in Ident \ {k} :
           /\ Sure(idents'[i]) <=> Sure(idents[i])
           /\ Sure(idents[i]) => /\ idents'[i].value = idents[i].value
                                 /\ idents'[i].user = idents[i].user
  BY DEF TakenBy, Same, Sure
<1>2. Admitted(idents)
  BY Known
<1>3. u \in Leaving
  BY <1>1 DEF Leaving
<1> HIDE DEF k, u
<1>4. CASE ~Sure(idents[k])
  <2>1. ASSUME NEW x, NEW w PROVE <<x, w>> \in Held <=> <<x, w>> \in Held'
    <3>1. ~Sure(idents'[k])
      BY <1>1 DEF Sure
    <3>2. \A i \in Ident :
            Sure(idents[i]) /\ idents[i].value = x /\ idents[i].user = w
            <=> Sure(idents'[i]) /\ idents'[i].value = x /\ idents'[i].user = w
      BY <1>1, <1>4, <3>1
    <3> QED BY <3>2, HeldRows, HeldRowsNext
  <2> QED BY <2>1, HeldPairs
<1>5. CASE Sure(idents[k])
  <2>1. <<v, u>> \in Held
    BY <1>1, <1>5, HeldRows DEF Sure
  <2>2. ASSUME NEW x, NEW w
        PROVE  <<x, w>> \in Held' <=> <<x, w>> \in Held /\ x # v
    <3>1. \A i \in Ident \ {k} : Sure(idents[i]) => idents[i].value # v
      BY <1>1, <1>2, <1>5 DEF Admitted, Sure
    <3>2. ~Sure(idents'[k])
      BY <1>1 DEF Sure
    <3> QED BY <1>1, <3>1, <3>2, HeldRows, HeldRowsNext
  <2>3. ASSUME NEW w, <<v, w>> \in Held PROVE w = u
    <3>1. \A i \in Ident : Sure(idents[i]) /\ idents[i].value = v => i = k
      BY <1>1, <1>2, <1>5 DEF Admitted, Sure
    <3> QED BY <1>1, <1>5, <2>3, <3>1, HeldRows DEF Sure
  <2> HIDE DEF v
  <2>4. \A x, w : <<x, w>> \in Held' <=> <<x, w>> \in Held \ {<<v, u>>}
    BY <2>2, <2>3
  <2>5. Held' = Held \ {<<v, u>>}
    BY <2>4, HeldPairs
  <2>6. v \in Value
    BY <2>1, HeldPairs
  <2> QED BY <1>1, <1>3, <2>1, <2>5, <2>6 DEF Owned!Yield
<1> QED BY <1>4, <1>5

\* An address or a provider's account comes to an account only while no other
\* has it confirmed, and leaves one only while that account takes something
\* off, however the steps of the handlers interleave: the tables implement
\* the abstract ownership.
THEOREM Refinement == Spec => ImplementsOwnership
<1>1. Init => Owned!Init
  BY DEF Init, Owned!Init, Held, Leaving, At, Rows, Idle
<1>2. ASSUME IInv, IInv', [Next]_vars PROVE [Owned!Next]_<<Held, Leaving>>
  <2>1. Leaving' \in SUBSET User
    BY DEF Leaving
  <2>2. UNCHANGED idents => UNCHANGED Held
    BY DEF Held, At, Rows
  <2>3. CASE UNCHANGED vars
    BY <2>2, <2>3 DEF vars, Leaving
  <2>4. CASE Next
    <3>1. \/ UNCHANGED Held
          \/ \E u \in User, values \in SUBSET Value : Owned!Claim(u, values)
          \/ \E u \in User, v \in Value : Owned!Yield(u, v)
      <4>1. ASSUME NEW r \in Req, DisconnectDelete(r) \/ RemoveCommit(r)
            PROVE  reqs[r].step \in {"disconnect", "remove"} /\ TakenBy(r)
        BY <1>2, <4>1, DisconnectTakes, RemoveTakes DEF DisconnectDelete
      <4> QED BY <1>2, <2>2, <2>4, <4>1, WhatComes, NothingComes, SomeComes, OneGoes
    <3> QED BY <2>1, <3>1 DEF Owned!Next, Value
  <2> QED BY <1>2, <2>3, <2>4
<1>3. IInv /\ [Next]_vars => IInv'
  BY NextInv
<1> QED BY <1>1, <1>2, <1>3, Invariant, PTL DEF Spec, ImplementsOwnership, Owned!Spec
=============================================================================
