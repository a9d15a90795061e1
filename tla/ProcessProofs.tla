--------------------------- MODULE ProcessProofs ----------------------------
(***************************************************************************)
(* What holds of a process: of its sockets (WsLease), for any number of    *)
(* sockets, credentials and failures, and of its start and stop beside     *)
(* others (Startup), for any number of processes, starts, attempts,        *)
(* migrations and names.                                                   *)
(***************************************************************************)
EXTENDS WsLease, Startup, TLAPS

(***************************************************************************)
(* The inductive invariant.  SocketsInv: what the lease knows came in with *)
(* a credential.  FoundInv: a credential that is good was found as soon as *)
(* its table was read.  PromisedInv: a socket some finished request asked  *)
(* to end lost its credential, is still known or closed, and no check that *)
(* matters to it was lost.                                                 *)
(***************************************************************************)
SocketsInv ==
  /\ \A s \in Socket : handler[s] # "none" => cred[s] \in Cred
  /\ \A s \in entries \cup list \cup destroyed : handler[s] = "proxied"

FoundInv ==
  /\ running = "pats" =>
       \A s \in list : cred[s] \in Session \cap live => cred[s] \in found
  /\ running = "decide" =>
       \A s \in list : cred[s] \in live => cred[s] \in found

PromisedInv ==
  /\ finishing \cap live = {}
  /\ \A s \in promised : cred[s] \notin live /\ handler[s] = "proxied"
  /\ promised \subseteq entries \cup closed
  /\ NoCheckIsLost

IInv ==
  /\ TypeOK
  /\ SocketsInv
  /\ TimerCoversEntries
  /\ FoundInv
  /\ OnlyDeadAreDestroyed
  /\ PromisedInv
-----------------------------------------------------------------------------
(* The steps of the invariant's parts                                      *)

\* Nothing leaves its type, and nothing is asked for when no check runs.
LEMMA TypeStep == TypeOK /\ SocketsInv /\ [Next]_vars => TypeOK'
<1> SUFFICES ASSUME TypeOK, SocketsInv, [Next]_vars PROVE TypeOK'
  OBVIOUS
<1> USE WsLeaseAssumption DEF TypeOK, SocketsInv, Cred, socket_vars, check_vars
<1>1. ASSUME NEW s \in Socket, NEW c \in Cred, Authenticate(s, c) PROVE TypeOK'
  BY <1>1 DEF Authenticate
<1>2. ASSUME NEW s \in Socket, Add(s) PROVE TypeOK'
  BY <1>2 DEF Add
<1>3. ASSUME NEW s \in Socket, Close(s) PROVE TypeOK'
  BY <1>3 DEF Close
<1>4. ASSUME NEW c \in Cred, Revoke(c) PROVE TypeOK'
  BY <1>4 DEF Revoke
<1>5. ASSUME NEW c \in Cred, Lapse(c) PROVE TypeOK'
  BY <1>5 DEF Lapse
<1>6. ASSUME NEW c \in Cred, Finish(c) PROVE TypeOK'
  BY <1>6 DEF Finish, Check, Start
<1>7. ASSUME NEW c \in Cred, Break(c) PROVE TypeOK'
  BY <1>7 DEF Break
<1>8. CASE TimerFires
  BY <1>8 DEF TimerFires, Check, Start
<1>9. CASE ReadSessions
  BY <1>9 DEF ReadSessions
<1>10. CASE ReadPats
  BY <1>10 DEF ReadPats
<1>11. CASE Decide
  BY <1>11 DEF Decide, Over, Start
<1>12. CASE Fail
  <2>1. failures' \in 0..MaxFailures
    BY <1>12 DEF Fail
  <2>2. running' \in {"no", "sessions"} /\ again' = FALSE /\ list' \subseteq Socket
        /\ found' = {} /\ (running' = "no" => list' = {})
    BY <1>12 DEF Fail, Over, Start
  <2>3. QED
    BY <1>12, <2>1, <2>2 DEF Fail
<1>13. CASE UNCHANGED vars
  BY <1>13 DEF vars
<1>14. QED
  BY <1>1, <1>2, <1>3, <1>4, <1>5, <1>6, <1>7, <1>8, <1>9, <1>10, <1>11, <1>12, <1>13 DEF Next

\* A socket is known, listed or destroyed only after it was let in.
LEMMA SocketsStep == TypeOK /\ SocketsInv /\ [Next]_vars => SocketsInv'
<1> SUFFICES ASSUME TypeOK, SocketsInv, [Next]_vars PROVE SocketsInv'
  OBVIOUS
<1> USE WsLeaseAssumption DEF TypeOK, SocketsInv, socket_vars, check_vars
<1>1. ASSUME NEW s \in Socket, NEW c \in Cred, Authenticate(s, c) PROVE SocketsInv'
  BY <1>1 DEF Authenticate
<1>2. ASSUME NEW s \in Socket, Add(s) PROVE SocketsInv'
  BY <1>2 DEF Add
<1>3. ASSUME NEW s \in Socket, Close(s) PROVE SocketsInv'
  BY <1>3 DEF Close
<1>4. ASSUME NEW c \in Cred, Revoke(c) PROVE SocketsInv'
  BY <1>4 DEF Revoke
<1>5. ASSUME NEW c \in Cred, Lapse(c) PROVE SocketsInv'
  BY <1>5 DEF Lapse
<1>6. ASSUME NEW c \in Cred, Finish(c) PROVE SocketsInv'
  BY <1>6 DEF Finish, Check, Start
<1>7. ASSUME NEW c \in Cred, Break(c) PROVE SocketsInv'
  BY <1>7 DEF Break
<1>8. CASE TimerFires
  BY <1>8 DEF TimerFires, Check, Start
<1>9. CASE ReadSessions
  BY <1>9 DEF ReadSessions
<1>10. CASE ReadPats
  BY <1>10 DEF ReadPats
<1>11. CASE Decide
  BY <1>11 DEF Decide, Over, Start
<1>12. CASE Fail
  BY <1>12 DEF Fail, Over, Start
<1>13. CASE UNCHANGED vars
  BY <1>13 DEF vars
<1>14. QED
  BY <1>1, <1>2, <1>3, <1>4, <1>5, <1>6, <1>7, <1>8, <1>9, <1>10, <1>11, <1>12, <1>13 DEF Next

\* Whoever adds a socket sets the timer, and the last one to close clears it.
LEMMA TimerStep == TypeOK /\ TimerCoversEntries /\ [Next]_vars => TimerCoversEntries'
<1> SUFFICES ASSUME TypeOK, TimerCoversEntries, [Next]_vars PROVE TimerCoversEntries'
  OBVIOUS
<1> USE WsLeaseAssumption DEF TypeOK, TimerCoversEntries, socket_vars, check_vars
<1>1. ASSUME NEW s \in Socket, NEW c \in Cred, Authenticate(s, c) PROVE TimerCoversEntries'
  BY <1>1 DEF Authenticate
<1>2. ASSUME NEW s \in Socket, Add(s) PROVE TimerCoversEntries'
  BY <1>2 DEF Add
<1>3. ASSUME NEW s \in Socket, Close(s) PROVE TimerCoversEntries'
  BY <1>3 DEF Close
<1>4. ASSUME NEW c \in Cred, Revoke(c) PROVE TimerCoversEntries'
  BY <1>4 DEF Revoke
<1>5. ASSUME NEW c \in Cred, Lapse(c) PROVE TimerCoversEntries'
  BY <1>5 DEF Lapse
<1>6. ASSUME NEW c \in Cred, Finish(c) PROVE TimerCoversEntries'
  BY <1>6 DEF Finish, Check, Start
<1>7. ASSUME NEW c \in Cred, Break(c) PROVE TimerCoversEntries'
  BY <1>7 DEF Break
<1>8. CASE TimerFires
  BY <1>8 DEF TimerFires, Check, Start
<1>9. CASE ReadSessions
  BY <1>9 DEF ReadSessions
<1>10. CASE ReadPats
  BY <1>10 DEF ReadPats
<1>11. CASE Decide
  BY <1>11 DEF Decide, Over, Start
<1>12. CASE Fail
  BY <1>12 DEF Fail, Over, Start
<1>13. CASE UNCHANGED vars
  BY <1>13 DEF vars
<1>14. QED
  BY <1>1, <1>2, <1>3, <1>4, <1>5, <1>6, <1>7, <1>8, <1>9, <1>10, <1>11, <1>12, <1>13 DEF Next

\* What a check has not found is gone: credentials are never restored.
LEMMA FoundStep == TypeOK /\ SocketsInv /\ FoundInv /\ [Next]_vars => FoundInv'
<1> SUFFICES ASSUME TypeOK, SocketsInv, FoundInv, [Next]_vars PROVE FoundInv'
  OBVIOUS
<1> USE WsLeaseAssumption DEF TypeOK, SocketsInv, FoundInv, Cred, socket_vars, check_vars
<1>1. ASSUME NEW s \in Socket, NEW c \in Cred, Authenticate(s, c) PROVE FoundInv'
  BY <1>1 DEF Authenticate
<1>2. ASSUME NEW s \in Socket, Add(s) PROVE FoundInv'
  BY <1>2 DEF Add
<1>3. ASSUME NEW s \in Socket, Close(s) PROVE FoundInv'
  BY <1>3 DEF Close
<1>4. ASSUME NEW c \in Cred, Revoke(c) PROVE FoundInv'
  BY <1>4 DEF Revoke
<1>5. ASSUME NEW c \in Cred, Lapse(c) PROVE FoundInv'
  BY <1>5 DEF Lapse
<1>6. ASSUME NEW c \in Cred, Finish(c) PROVE FoundInv'
  BY <1>6 DEF Finish, Check, Start
<1>7. ASSUME NEW c \in Cred, Break(c) PROVE FoundInv'
  BY <1>7 DEF Break
<1>8. CASE TimerFires
  BY <1>8 DEF TimerFires, Check, Start
<1>9. CASE ReadSessions
  BY <1>9 DEF ReadSessions
<1>10. CASE ReadPats
  BY <1>10 DEF ReadPats
<1>11. CASE Decide
  BY <1>11 DEF Decide, Over, Start
<1>12. CASE Fail
  BY <1>12 DEF Fail, Over, Start
<1>13. CASE UNCHANGED vars
  BY <1>13 DEF vars
<1>14. QED
  BY <1>1, <1>2, <1>3, <1>4, <1>5, <1>6, <1>7, <1>8, <1>9, <1>10, <1>11, <1>12, <1>13 DEF Next

\* A check destroys the sockets of its own list only, by what it found.
LEMMA DestroyedStep == TypeOK /\ SocketsInv /\ FoundInv /\ OnlyDeadAreDestroyed /\ [Next]_vars => OnlyDeadAreDestroyed'
<1> SUFFICES ASSUME TypeOK, SocketsInv, FoundInv, OnlyDeadAreDestroyed, [Next]_vars PROVE OnlyDeadAreDestroyed'
  OBVIOUS
<1> USE WsLeaseAssumption DEF TypeOK, SocketsInv, FoundInv, OnlyDeadAreDestroyed, socket_vars, check_vars
<1>1. ASSUME NEW s \in Socket, NEW c \in Cred, Authenticate(s, c) PROVE OnlyDeadAreDestroyed'
  BY <1>1 DEF Authenticate
<1>2. ASSUME NEW s \in Socket, Add(s) PROVE OnlyDeadAreDestroyed'
  BY <1>2 DEF Add
<1>3. ASSUME NEW s \in Socket, Close(s) PROVE OnlyDeadAreDestroyed'
  BY <1>3 DEF Close
<1>4. ASSUME NEW c \in Cred, Revoke(c) PROVE OnlyDeadAreDestroyed'
  BY <1>4 DEF Revoke
<1>5. ASSUME NEW c \in Cred, Lapse(c) PROVE OnlyDeadAreDestroyed'
  BY <1>5 DEF Lapse
<1>6. ASSUME NEW c \in Cred, Finish(c) PROVE OnlyDeadAreDestroyed'
  BY <1>6 DEF Finish, Check, Start
<1>7. ASSUME NEW c \in Cred, Break(c) PROVE OnlyDeadAreDestroyed'
  BY <1>7 DEF Break
<1>8. CASE TimerFires
  BY <1>8 DEF TimerFires, Check, Start
<1>9. CASE ReadSessions
  BY <1>9 DEF ReadSessions
<1>10. CASE ReadPats
  BY <1>10 DEF ReadPats
<1>11. CASE Decide
  BY <1>11 DEF Decide, Over, Start
<1>12. CASE Fail
  BY <1>12 DEF Fail, Over, Start
<1>13. CASE UNCHANGED vars
  BY <1>13 DEF vars
<1>14. QED
  BY <1>1, <1>2, <1>3, <1>4, <1>5, <1>6, <1>7, <1>8, <1>9, <1>10, <1>11, <1>12, <1>13 DEF Next

\* Coalesced or not, the check a finished request asked for takes place.
LEMMA PromisedStep == TypeOK /\ SocketsInv /\ PromisedInv /\ [Next]_vars => PromisedInv'
<1> SUFFICES ASSUME TypeOK, SocketsInv, PromisedInv, [Next]_vars PROVE PromisedInv'
  OBVIOUS
<1> USE WsLeaseAssumption DEF TypeOK, SocketsInv, PromisedInv, NoCheckIsLost, socket_vars, check_vars
<1>1. ASSUME NEW s \in Socket, NEW c \in Cred, Authenticate(s, c) PROVE PromisedInv'
  BY <1>1 DEF Authenticate
<1>2. ASSUME NEW s \in Socket, Add(s) PROVE PromisedInv'
  BY <1>2 DEF Add
<1>3. ASSUME NEW s \in Socket, Close(s) PROVE PromisedInv'
  BY <1>3 DEF Close
<1>4. ASSUME NEW c \in Cred, Revoke(c) PROVE PromisedInv'
  BY <1>4 DEF Revoke
<1>5. ASSUME NEW c \in Cred, Lapse(c) PROVE PromisedInv'
  BY <1>5 DEF Lapse
<1>6. ASSUME NEW c \in Cred, Finish(c) PROVE PromisedInv'
  BY <1>6 DEF Finish, Check, Start
<1>7. ASSUME NEW c \in Cred, Break(c) PROVE PromisedInv'
  BY <1>7 DEF Break
<1>8. CASE TimerFires
  BY <1>8 DEF TimerFires, Check, Start
<1>9. CASE ReadSessions
  BY <1>9 DEF ReadSessions
<1>10. CASE ReadPats
  BY <1>10 DEF ReadPats
<1>11. CASE Decide
  BY <1>11 DEF Decide, Over, Start
<1>12. CASE Fail
  BY <1>12 DEF Fail, Over, Start
<1>13. CASE UNCHANGED vars
  BY <1>13 DEF vars
<1>14. QED
  BY <1>1, <1>2, <1>3, <1>4, <1>5, <1>6, <1>7, <1>8, <1>9, <1>10, <1>11, <1>12, <1>13 DEF Next

LEMMA Invariant == Spec => []IInv
<1>1. Init => IInv
  <2> SUFFICES ASSUME Init PROVE IInv
    OBVIOUS
  <2>1. TypeOK
    <3>1. cred \in [Socket -> Cred \cup {None}]
      BY DEF Init
    <3>2. handler \in [Socket -> {"none", "admitted", "proxied"}]
      BY DEF Init
    <3>3. failures \in 0..MaxFailures
      BY WsLeaseAssumption DEF Init
    <3>4. QED
      BY <3>1, <3>2, <3>3 DEF Init, TypeOK
  <2>2. SocketsInv
    <3>1. \A s \in Socket : handler[s] = "none"
      BY DEF Init
    <3>2. entries \cup list \cup destroyed = {}
      BY DEF Init
    <3>3. QED
      BY <3>1, <3>2 DEF SocketsInv
  <2>3. TimerCoversEntries /\ FoundInv /\ OnlyDeadAreDestroyed
    BY DEF Init, TimerCoversEntries, FoundInv, OnlyDeadAreDestroyed
  <2>4. PromisedInv
    BY DEF Init, PromisedInv, NoCheckIsLost
  <2>5. QED
    BY <2>1, <2>2, <2>3, <2>4 DEF IInv
<1>2. IInv /\ [Next]_vars => IInv'
  BY TypeStep, SocketsStep, TimerStep, FoundStep, DestroyedStep, PromisedStep DEF IInv
<1>3. QED
  BY <1>1, <1>2, PTL DEF Spec

-----------------------------------------------------------------------------
(* The theorems                                                            *)

\* The sockets, the map and the check keep their types.
THEOREM TypeCorrect == Spec => []TypeOK
  BY Invariant, PTL DEF IInv

\* As long as the lease knows a socket its timer runs, so that every lost
\* credential is looked up again, whatever was added and closed meanwhile.
THEOREM LeaseStaysSet == Spec => []TimerCoversEntries
  BY Invariant, PTL DEF IInv

\* No interleaving of upgrades, revocations and reads makes a check end a
\* socket whose credential is good.
THEOREM GoodSocketsStay == Spec => []OnlyDeadAreDestroyed
  BY Invariant, PTL DEF IInv

\* However many requests end while a check runs, none of the sockets they
\* asked to end is missed, short of a failing read.
THEOREM CoalescingIsSafe == Spec => []NoCheckIsLost
  BY Invariant, PTL DEF IInv, PromisedInv

\* A check that will not find the socket's credential.
Doomed(s) == running # "no" /\ s \in list /\ cred[s] \notin live \cup found

\* What becomes of a known socket whose credential is gone.
Dies(s) ==
  /\ s \in closed' \/ (s \in entries' /\ cred'[s] \notin live')
  /\ TimerFires => Doomed(s)' \/ again'
  /\ again /\ (Decide \/ Fail) => Doomed(s)'
  /\ Doomed(s) => Doomed(s)' \/ s \in destroyed' \/ failures' = failures + 1
  /\ Doomed(s) /\ Decide => s \in destroyed'

\* What brings every dead socket to its end, step by step: it stays known until
\* it is closed; the timer has it listed, or asks for a check that will; and a
\* check that lists it destroys it unless a read fails (make_ws_lease).
THEOREM DeadSocketsAreCaught ==
  Spec => [][\A s \in entries : cred[s] \notin live => Dies(s)]_vars
<1>1. ASSUME IInv, Next, NEW s \in entries, cred[s] \notin live PROVE Dies(s)
  <2>1. /\ s \in Socket /\ handler[s] = "proxied"
        /\ cred \in [Socket -> Cred \cup {None}]
        /\ handler \in [Socket -> {"none", "admitted", "proxied"}]
        /\ running = "no" => ~again /\ list = {}
    BY <1>1 DEF IInv, TypeOK, SocketsInv
  <2>2. cred'[s] = cred[s] /\ live' \subseteq live
    <3>1. ASSUME NEW q \in Socket, NEW c \in Cred, Authenticate(q, c)
          PROVE  cred'[s] = cred[s] /\ live' \subseteq live
      BY <2>1, <3>1 DEF Authenticate
    <3>2. CASE UNCHANGED <<cred, live>>
      BY <3>2
    <3>3. ASSUME NEW c \in Cred, Revoke(c) \/ Lapse(c)
          PROVE  cred'[s] = cred[s] /\ live' \subseteq live
      BY <3>3 DEF Revoke, Lapse, socket_vars
    <3>4. QED
      BY <1>1, <3>1, <3>2, <3>3 DEF Next, Add, Close, Finish, Break, TimerFires, ReadSessions,
         ReadPats, Decide, Fail, socket_vars
  <2>3. s \in closed' \/ s \in entries'
    <3>1. ASSUME NEW q \in Socket, Add(q) \/ Close(q) PROVE s \in closed' \/ s \in entries'
      BY <1>1, <3>1 DEF Add, Close
    <3>2. CASE UNCHANGED entries
      BY <1>1, <3>2
    <3>3. QED
      BY <1>1, <3>1, <3>2 DEF Next, Authenticate, Revoke, Lapse, Finish, Break, TimerFires,
         ReadSessions, ReadPats, Decide, Fail
  <2>4. Start /\ UNCHANGED entries => Doomed(s)'
    BY <1>1, <2>2 DEF Start, Doomed
  <2>5. TimerFires => Doomed(s)' \/ again'
    BY <1>1, <2>4 DEF TimerFires, Check
  <2>6. again /\ (Decide \/ Fail) => Doomed(s)'
    BY <2>4 DEF Decide, Fail, Over
  <2>7. Doomed(s) => Doomed(s)' \/ s \in destroyed' \/ failures' = failures + 1
    <3> SUFFICES ASSUME Doomed(s)
                 PROVE  Doomed(s)' \/ s \in destroyed' \/ failures' = failures + 1
      OBVIOUS
    <3>1. CASE UNCHANGED <<running, list, found>>
      BY <2>2, <3>1 DEF Doomed
    <3>2. CASE ReadSessions \/ ReadPats
      BY <2>2, <3>2 DEF ReadSessions, ReadPats, Doomed
    <3>3. CASE Decide
      BY <3>3 DEF Decide, Doomed
    <3>4. CASE Fail
      BY <3>4 DEF Fail
    <3>5. ASSUME Check PROVE UNCHANGED <<running, list, found>>
      BY <3>5 DEF Check, Doomed
    <3>6. QED
      BY <1>1, <3>1, <3>2, <3>3, <3>4, <3>5 DEF Next, Authenticate, Add, Close, Revoke, Lapse,
         Finish, Break, TimerFires, check_vars
  <2>8. Doomed(s) /\ Decide => s \in destroyed'
    BY DEF Doomed, Decide
  <2>9. QED
    BY <1>1, <2>2, <2>3, <2>5, <2>6, <2>7, <2>8 DEF Dies
<1>2. IInv /\ [Next]_vars => [\A s \in entries : cred[s] \notin live => Dies(s)]_vars
  BY <1>1
<1>3. QED
  BY <1>2, Invariant, PTL DEF Spec

-----------------------------------------------------------------------------
(* Startup                                                                 *)

(***************************************************************************)
(* The inductive invariant.  StartedInv: who runs was started, and so has  *)
(* a name for what it makes.  SecretInv: whoever has a secret has the      *)
(* file's, and while one process writes the file it is empty, so nobody    *)
(* has any.  MigrationsInv: the loop over the migrations goes on at least  *)
(* as often as there are some left; a migration picked before another      *)
(* process applied it is one round too many.  SeedInv: who is about to     *)
(* insert names finds them all held, or those that accounts of the seed    *)
(* hold held by its own.                                                   *)
(***************************************************************************)
StartedInv ==
  /\ \A p \in Process : phase[p] # "off" => start[p] \in Made
  /\ \A p \in Process : phase[p] \in {"insert", "primary"} => seed[p] # Absent

SecretInv ==
  /\ \A p \in Process : secret[p] # Absent => secret[p] = file
  /\ \A p \in Process : phase[p] = "write" => file = Empty
  /\ \A p, q \in Process : phase[p] = "write" /\ phase[q] = "write" => p = q

Settled == {"find", "make", "insert", "primary", "listen"} \cup Up

MigrationsInv ==
  \A p \in Process :
    /\ phase[p] \in {"pick", "lock", "apply"} =>
         tries[p] > 0 /\ Migrations <= applied + tries[p]
    /\ phase[p] \in {"lock", "apply"} =>
         /\ picked[p] <= applied + 1
         /\ picked[p] <= applied => Migrations < applied + tries[p]
    /\ phase[p] \in Settled => applied = Migrations

AllHeld == \A n \in Names : owner[n] # Absent

SeedInv ==
  dropped \/
  \A p \in Process :
    /\ phase[p] = "make" => AllHeld \/ \A n \in Names : owner[n] \notin Made
    /\ phase[p] = "insert" =>
         AllHeld \/ seed[p] = Stranger \/ \A n \in Names : owner[n] \in Made => owner[n] = seed[p]

StartupInv ==
  /\ StartupTypeOK /\ StartedInv /\ SecretInv /\ MigrationsInv /\ SeedInv /\ SeedStaysTogether

-----------------------------------------------------------------------------
(* Its steps                                                               *)

\* What each step of a process assigns keeps the types.
LEMMA StartupTypeStep ==
  ASSUME StartupTypeOK, StartedInv, MigrationsInv, [StartupNext]_startupVars
  PROVE  StartupTypeOK'
<1> USE StartupAssumption
<1>1. ASSUME NEW p \in Process, StartProcess(p) PROVE StartupTypeOK'
  BY <1>1 DEF StartProcess, Goto, StartupTypeOK, Starting
<1>2. ASSUME NEW p \in Process, Forget(p), UNCHANGED <<file, applied, owner, primary, dropped>>,
             lock' \in Process \cup {Absent}
      PROVE  StartupTypeOK'
  BY <1>2 DEF Forget, Goto, StartupTypeOK
<1>3. ASSUME NEW p \in Process, Load(p), file \notin {Absent, Empty} PROVE StartupTypeOK'
  BY <1>3 DEF Load, Goto, StartupTypeOK, Starting, Memory, Database
<1>4. ASSUME NEW p \in Process, ReadSecret(p) PROVE StartupTypeOK'
  <2>1. CASE file \notin {Absent, Empty}
    BY <1>3, <1>4, <2>1 DEF ReadSecret
  <2>2. CASE file = Empty
    BY <1>2, <1>4, <2>2 DEF ReadSecret, StartupTypeOK, Database
  <2>3. CASE file = Absent
    BY <1>4, <2>3 DEF ReadSecret, Goto, StartupTypeOK, Starting, Memory, Database
  <2>4. QED
    BY <2>1, <2>2, <2>3
<1>5. ASSUME NEW p \in Process, CreateFile(p) PROVE StartupTypeOK'
  BY <1>5 DEF CreateFile, Goto, StartupTypeOK, Starting, Memory, Database
<1>6. ASSUME NEW p \in Process, WriteSecret(p) PROVE StartupTypeOK'
  <2>1. start[p] \in Made
    BY <1>6 DEF WriteSecret, StartedInv
  <2>2. QED
    BY <1>6, <2>1 DEF WriteSecret, Goto, StartupTypeOK, Starting, Memory, Database
<1>7. ASSUME NEW p \in Process, Connect(p) PROVE StartupTypeOK'
  <2>1. CASE Goto(p, "list") /\ UNCHANGED <<secret, tries, Memory>>
    BY <1>7, <2>1 DEF Connect, Goto, StartupTypeOK, Starting, Memory, Database
  <2>2. CASE /\ tries[p] > 1 /\ tries' = [tries EXCEPT ![p] = @ - 1]
             /\ UNCHANGED <<phase, secret, Memory>>
    BY <1>7, <2>2 DEF Connect, StartupTypeOK, Memory, Database
  <2>3. CASE Forget(p)
    BY <1>2, <1>7, <2>3 DEF Connect, StartupTypeOK, Database
  <2>4. QED
    BY <1>7, <2>1, <2>2, <2>3 DEF Connect
<1>8. ASSUME NEW p \in Process, ListMigrations(p) PROVE StartupTypeOK'
  <2>1. Migrations - applied \in Nat
    BY DEF StartupTypeOK
  <2>2. QED
    BY <1>8, <2>1 DEF ListMigrations, Migrating, Goto, StartupTypeOK, Starting, Memory, Database
<1>9. ASSUME NEW p \in Process, PickMigration(p) PROVE StartupTypeOK'
  BY <1>9 DEF PickMigration, Goto, StartupTypeOK, Starting, Database
<1>10. ASSUME NEW p \in Process, LockMigrations(p) PROVE StartupTypeOK'
  <2>1. CASE lock = Absent
    BY <1>10, <2>1 DEF LockMigrations, Goto, StartupTypeOK, Starting, Memory
  <2>2. CASE lock # Absent
    BY <1>2, <1>10, <2>2 DEF LockMigrations, StartupTypeOK
  <2>3. QED
    BY <2>1, <2>2
<1>11. ASSUME NEW p \in Process, ApplyMigration(p) PROVE StartupTypeOK'
  <2>1. tries[p] - 1 \in Nat
    BY <1>11 DEF ApplyMigration, MigrationsInv, StartupTypeOK
  <2>2. QED
    BY <1>11, <2>1 DEF ApplyMigration, Migrating, Goto, StartupTypeOK, Starting
<1>12. ASSUME NEW p \in Process, FindSeed(p) PROVE StartupTypeOK'
  BY <1>12 DEF FindSeed, Holders, Goto, StartupTypeOK, Starting, Database
<1>13. ASSUME NEW p \in Process, MakeAccount(p) PROVE StartupTypeOK'
  BY <1>13 DEF MakeAccount, StartedInv, Goto, StartupTypeOK, Starting, Database
<1>14. ASSUME NEW p \in Process, InsertNames(p) PROVE StartupTypeOK'
  BY <1>14 DEF InsertNames, Goto, StartupTypeOK, Starting, Memory
<1>15. ASSUME NEW p \in Process, AssignPrimary(p) PROVE StartupTypeOK'
  BY <1>15 DEF AssignPrimary, Goto, StartupTypeOK, Starting
<1>16. ASSUME NEW p \in Process, Listen(p) PROVE StartupTypeOK'
  <2>1. CASE Forget(p)
    BY <1>2, <1>16, <2>1 DEF Listen, StartupTypeOK, Database
  <2>2. CASE ~Forget(p)
    BY <1>16, <2>2 DEF Listen, Goto, StartupTypeOK, Up, Memory, Database
  <2>3. QED
    BY <2>1, <2>2
<1>17. ASSUME NEW p \in Process, Closed(p) \/ TimeUp(p) PROVE StartupTypeOK'
  BY <1>2, <1>17 DEF Closed, TimeUp, StartupTypeOK, Database
<1>18. ASSUME NEW p \in Process, Signal(p) PROVE StartupTypeOK'
  BY <1>18 DEF Signal, Goto, StartupTypeOK, Up, Memory, Database
<1>19. ASSUME NEW p \in Process, Client(p) PROVE StartupTypeOK'
  BY <1>19 DEF Client, StartupTypeOK, Database
<1>20. ASSUME NEW p \in Process, Die(p) PROVE StartupTypeOK'
  BY <1>2, <1>20 DEF Die, StartupTypeOK
<1>21. ASSUME NEW n \in Names, TakeName(n) \/ GiveUpName(n) PROVE StartupTypeOK'
  BY <1>21 DEF TakeName, GiveUpName, StartupTypeOK
<1>22. CASE UNCHANGED startupVars
  BY <1>22 DEF startupVars, StartupTypeOK
<1>23. QED
  BY <1>1, <1>4, <1>5, <1>6, <1>7, <1>8, <1>9, <1>10, <1>11, <1>12, <1>13, <1>14, <1>15, <1>16,
     <1>17, <1>18, <1>19, <1>20, <1>21, <1>22 DEF StartupNext, Step, StartupTypeOK

\* A process that runs has the name of its start, and one that inserts has an
\* account to insert for.
LEMMA StartedStep ==
  ASSUME StartupTypeOK, StartedInv, [StartupNext]_startupVars PROVE StartedInv'
<1> USE StartupAssumption
<1>1. ASSUME NEW p \in Process, StartProcess(p) PROVE StartedInv'
  <2>1. starts + 1 \in Made
    BY <1>1 DEF StartProcess, StartupTypeOK, Made
  <2>2. QED
    BY <1>1, <2>1 DEF StartProcess, Goto, StartupTypeOK, StartedInv
<1>2. ASSUME NEW p \in Process, Forget(p) PROVE StartedInv'
  BY <1>2 DEF Forget, Goto, StartupTypeOK, StartedInv
<1>3. ASSUME NEW p \in Process, phase[p] # "off", UNCHANGED <<start, seed>>,
             NEW next \in (Starting \cup Up) \ {"insert"}, Goto(p, next),
             next = "primary" => phase[p] = "insert"
      PROVE  StartedInv'
  BY <1>3 DEF Goto, StartupTypeOK, StartedInv
<1>4. ASSUME NEW p \in Process, ReadSecret(p) PROVE StartedInv'
  BY <1>2, <1>3, <1>4 DEF ReadSecret, Load, Starting, Memory
<1>5. ASSUME NEW p \in Process, CreateFile(p) \/ WriteSecret(p) PROVE StartedInv'
  BY <1>3, <1>5 DEF CreateFile, WriteSecret, Starting, Memory
<1>6. ASSUME NEW p \in Process, Connect(p) PROVE StartedInv'
  <2>1. CASE Goto(p, "list") /\ UNCHANGED <<secret, tries, Memory>>
    BY <1>3, <1>6, <2>1 DEF Connect, Starting, Memory
  <2>2. CASE UNCHANGED <<phase, secret, Memory>>
    BY <2>2 DEF StartedInv, Memory
  <2>3. QED
    BY <1>2, <1>6, <2>1, <2>2 DEF Connect
<1>7. ASSUME NEW p \in Process, ListMigrations(p) \/ PickMigration(p) \/ ApplyMigration(p)
      PROVE  StartedInv'
  BY <1>3, <1>7 DEF ListMigrations, PickMigration, ApplyMigration, Migrating, Starting, Memory
<1>8. ASSUME NEW p \in Process, LockMigrations(p) PROVE StartedInv'
  BY <1>2, <1>3, <1>8 DEF LockMigrations, Starting, Memory
<1>9. ASSUME NEW p \in Process, FindSeed(p) PROVE StartedInv'
  <2>1. ASSUME Holders = {}, Goto(p, "make"), UNCHANGED seed PROVE StartedInv'
    BY <1>3, <1>9, <2>1 DEF FindSeed, Starting
  <2>2. ASSUME NEW account \in Holders, seed' = [seed EXCEPT ![p] = account], Goto(p, "insert")
        PROVE  StartedInv'
    <3>1. account # Absent
      BY DEF Holders
    <3>2. QED
      BY <1>9, <2>2, <3>1 DEF FindSeed, Goto, StartupTypeOK, StartedInv
  <2>3. QED
    BY <1>9, <2>1, <2>2 DEF FindSeed
<1>10. ASSUME NEW p \in Process, MakeAccount(p) PROVE StartedInv'
  <2>1. start[p] # Absent
    BY <1>10 DEF MakeAccount, StartedInv
  <2>2. QED
    BY <1>10, <2>1 DEF MakeAccount, Goto, StartupTypeOK, StartedInv
<1>11. ASSUME NEW p \in Process, InsertNames(p) PROVE StartedInv'
  BY <1>3, <1>11 DEF InsertNames, Starting, Memory
<1>12. ASSUME NEW p \in Process, AssignPrimary(p) PROVE StartedInv'
  BY <1>12 DEF AssignPrimary, Goto, StartupTypeOK, StartedInv
<1>13. ASSUME NEW p \in Process, Listen(p) \/ Closed(p) \/ TimeUp(p) \/ Signal(p) \/ Die(p)
      PROVE  StartedInv'
  BY <1>2, <1>3, <1>13 DEF Listen, Closed, TimeUp, Signal, Die, Up, Memory
<1>14. ASSUME NEW p \in Process, Client(p) PROVE StartedInv'
  BY <1>14 DEF Client, StartedInv
<1>15. ASSUME NEW n \in Names, TakeName(n) \/ GiveUpName(n) PROVE StartedInv'
  BY <1>15 DEF TakeName, GiveUpName, StartedInv
<1>16. CASE UNCHANGED startupVars
  BY <1>16 DEF startupVars, StartedInv
<1>17. QED
  BY <1>1, <1>4, <1>5, <1>6, <1>7, <1>8, <1>9, <1>10, <1>11, <1>12, <1>13, <1>14, <1>15, <1>16
     DEF StartupNext, Step

\* The file is written by the one process that made it, before any has read it.
LEMMA SecretStep ==
  ASSUME StartupTypeOK, StartedInv, SecretInv, [StartupNext]_startupVars PROVE SecretInv'
<1> USE StartupAssumption
<1>1. ASSUME NEW p \in Process, Forget(p), UNCHANGED file PROVE SecretInv'
  BY <1>1 DEF Forget, Goto, StartupTypeOK, SecretInv
<1>2. ASSUME NEW p \in Process, NEW next \in (Starting \cup Up) \ {"write"}, Goto(p, next),
             UNCHANGED <<secret, file>>
      PROVE  SecretInv'
  BY <1>2 DEF Goto, StartupTypeOK, SecretInv
<1>3. ASSUME NEW p \in Process, ReadSecret(p) PROVE SecretInv'
  <2>1. CASE file \notin {Absent, Empty}
    BY <1>3, <2>1 DEF ReadSecret, Load, Goto, StartupTypeOK, SecretInv
  <2>2. CASE file \in {Absent, Empty}
    BY <1>1, <1>2, <1>3, <2>2 DEF ReadSecret, Starting
  <2>3. QED
    BY <2>1, <2>2
<1>4. ASSUME NEW p \in Process, CreateFile(p) PROVE SecretInv'
  <2>1. CASE file # Absent
    BY <1>2, <1>4, <2>1 DEF CreateFile, Starting
  <2>2. CASE file = Absent
    <3>1. \A q \in Process : secret[q] = Absent /\ phase[q] # "write"
      BY <2>2 DEF SecretInv
    <3>2. QED
      BY <1>4, <2>2, <3>1 DEF CreateFile, Goto, StartupTypeOK, SecretInv
  <2>3. QED
    BY <2>1, <2>2
<1>5. ASSUME NEW p \in Process, WriteSecret(p) PROVE SecretInv'
  <2>1. \A q \in Process : secret[q] = Absent
    <3>1. file = Empty
      BY <1>5 DEF WriteSecret, SecretInv
    <3>2. QED
      BY <3>1 DEF StartupTypeOK, SecretInv
  <2>2. \A q \in Process : phase[q] = "write" => q = p
    BY <1>5 DEF WriteSecret, SecretInv
  <2>3. QED
    BY <1>5, <2>1, <2>2 DEF WriteSecret, Goto, StartupTypeOK, SecretInv
<1>6. ASSUME NEW p \in Process, StartProcess(p) PROVE SecretInv'
  BY <1>2, <1>6 DEF StartProcess, Starting
<1>7. ASSUME NEW p \in Process, Connect(p) PROVE SecretInv'
  <2>1. CASE Goto(p, "list") /\ UNCHANGED <<secret, tries, Memory>>
    BY <1>2, <1>7, <2>1 DEF Connect, Starting
  <2>2. CASE UNCHANGED <<phase, secret, Memory>>
    BY <1>7, <2>2 DEF Connect, SecretInv
  <2>3. QED
    BY <1>1, <1>7, <2>1, <2>2 DEF Connect
<1>8. ASSUME NEW p \in Process, ListMigrations(p) \/ PickMigration(p) \/ ApplyMigration(p)
      PROVE  SecretInv'
  BY <1>2, <1>8 DEF ListMigrations, PickMigration, ApplyMigration, Migrating, Starting
<1>9. ASSUME NEW p \in Process, LockMigrations(p) PROVE SecretInv'
  BY <1>1, <1>2, <1>9 DEF LockMigrations, Starting
<1>10. ASSUME NEW p \in Process,
              FindSeed(p) \/ MakeAccount(p) \/ InsertNames(p) \/ AssignPrimary(p)
       PROVE  SecretInv'
  BY <1>2, <1>10 DEF FindSeed, MakeAccount, InsertNames, AssignPrimary, Starting
<1>11. ASSUME NEW p \in Process, Listen(p) \/ Closed(p) \/ TimeUp(p) \/ Signal(p) \/ Die(p)
       PROVE  SecretInv'
  BY <1>1, <1>2, <1>11 DEF Listen, Closed, TimeUp, Signal, Die, Up
<1>12. ASSUME NEW p \in Process, Client(p) PROVE SecretInv'
  BY <1>12 DEF Client, SecretInv
<1>13. ASSUME NEW n \in Names, TakeName(n) \/ GiveUpName(n) PROVE SecretInv'
  BY <1>13 DEF TakeName, GiveUpName, SecretInv
<1>14. CASE UNCHANGED startupVars
  BY <1>14 DEF startupVars, SecretInv
<1>15. QED
  BY <1>3, <1>4, <1>5, <1>6, <1>7, <1>8, <1>9, <1>10, <1>11, <1>12, <1>13, <1>14
     DEF StartupNext, Step

\* Whoever applies a migration another has applied meanwhile loses a round of
\* its loop, and has one to spare.
LEMMA MigrationsStep ==
  ASSUME StartupTypeOK, MigrationsInv, [StartupNext]_startupVars PROVE MigrationsInv'
<1> USE StartupAssumption
<1>1. ASSUME NEW p \in Process, Forget(p), UNCHANGED applied PROVE MigrationsInv'
  BY <1>1 DEF Forget, Goto, StartupTypeOK, MigrationsInv, Settled, Up
<1>2. ASSUME NEW p \in Process, NEW next, next \notin {"pick", "lock", "apply"},
             next \in Settled => phase[p] \in Settled, Goto(p, next),
             UNCHANGED <<picked, applied>>,
             \A q \in Process \ {p} : tries'[q] = tries[q]
      PROVE  MigrationsInv'
  BY <1>2 DEF Goto, StartupTypeOK, MigrationsInv
<1>3. ASSUME NEW p \in Process,
             StartProcess(p) \/ ReadSecret(p) \/ CreateFile(p) \/ WriteSecret(p)
      PROVE  MigrationsInv'
  BY <1>1, <1>2, <1>3
     DEF StartProcess, ReadSecret, Load, CreateFile, WriteSecret, StartupTypeOK, Settled, Up,
         Memory, Database
<1>4. ASSUME NEW p \in Process, Connect(p) PROVE MigrationsInv'
  <2>1. CASE Goto(p, "list") /\ UNCHANGED <<secret, tries, Memory>>
    BY <1>2, <1>4, <2>1 DEF Connect, Settled, Up, Memory, Database
  <2>2. CASE tries' = [tries EXCEPT ![p] = @ - 1] /\ UNCHANGED <<phase, secret, Memory>>
    BY <1>4, <2>2 DEF Connect, StartupTypeOK, MigrationsInv, Settled, Up, Memory, Database
  <2>3. QED
    BY <1>1, <1>4, <2>1, <2>2 DEF Connect, Database
<1>5. ASSUME NEW p \in Process, ListMigrations(p) PROVE MigrationsInv'
  BY <1>5 DEF ListMigrations, Migrating, Goto, StartupTypeOK, MigrationsInv, Settled, Up, Memory,
              Database
<1>6. ASSUME NEW p \in Process, PickMigration(p) PROVE MigrationsInv'
  BY <1>6 DEF PickMigration, Goto, StartupTypeOK, MigrationsInv, Settled, Up, Database
<1>7. ASSUME NEW p \in Process, LockMigrations(p) PROVE MigrationsInv'
  <2>1. CASE lock = Absent
    BY <1>7, <2>1 DEF LockMigrations, Goto, StartupTypeOK, MigrationsInv, Settled, Up, Memory
  <2>2. CASE lock # Absent
    BY <1>1, <1>7, <2>2 DEF LockMigrations
  <2>3. QED
    BY <2>1, <2>2
<1>8. ASSUME NEW p \in Process, ApplyMigration(p) PROVE MigrationsInv'
  <2>1. /\ tries[p] \in Nat \ {0}
        /\ picked[p] \in 0..Migrations
        /\ Migrations <= applied + tries[p]
        /\ picked[p] <= applied + 1
        /\ picked[p] <= applied => Migrations < applied + tries[p]
    BY <1>8 DEF ApplyMigration, StartupTypeOK, MigrationsInv
  <2>2. /\ applied \in 0..Migrations
        /\ applied' \in {applied, applied + 1}
        /\ applied' <= Migrations
        /\ Migrations <= applied' + tries[p] - 1
    BY <1>8, <2>1 DEF ApplyMigration, StartupTypeOK
  <2>3. tries[p] - 1 = 0 => applied' = Migrations
    BY <2>1, <2>2
  <2>4. /\ phase'[p] \in {"pick", "find"}
        /\ tries'[p] = tries[p] - 1
        /\ phase'[p] = "pick" => tries'[p] # 0
        /\ phase'[p] = "find" => tries'[p] = 0
    BY <1>8 DEF ApplyMigration, Migrating, Goto, StartupTypeOK
  <2>5. /\ phase'[p] = "pick" => tries'[p] > 0 /\ Migrations <= applied' + tries'[p]
        /\ phase'[p] \notin {"lock", "apply"}
        /\ phase'[p] \in Settled => applied' = Migrations
    BY <2>1, <2>2, <2>3, <2>4 DEF Settled, Up
  <2>6. ASSUME NEW q \in Process, q # p
        PROVE  /\ phase'[q] = phase[q] /\ tries'[q] = tries[q] /\ picked'[q] = picked[q]
               /\ tries[q] \in Nat /\ picked[q] \in Nat
    BY <1>8, <2>6 DEF ApplyMigration, Goto, StartupTypeOK
  <2>7. QED
    BY <2>2, <2>4, <2>5, <2>6 DEF MigrationsInv, StartupTypeOK
<1>9. ASSUME NEW p \in Process,
             FindSeed(p) \/ MakeAccount(p) \/ InsertNames(p) \/ AssignPrimary(p)
      PROVE  MigrationsInv'
  BY <1>2, <1>9 DEF FindSeed, MakeAccount, InsertNames, AssignPrimary, Settled, Up, Memory, Database
<1>10. ASSUME NEW p \in Process, Listen(p) \/ Closed(p) \/ TimeUp(p) \/ Signal(p) \/ Die(p)
       PROVE  MigrationsInv'
  BY <1>1, <1>2, <1>10 DEF Listen, Closed, TimeUp, Signal, Die, Settled, Up, Memory, Database
<1>11. ASSUME NEW p \in Process, Client(p) PROVE MigrationsInv'
  BY <1>11 DEF Client, MigrationsInv, Database
<1>12. ASSUME NEW n \in Names, TakeName(n) \/ GiveUpName(n) PROVE MigrationsInv'
  BY <1>12 DEF TakeName, GiveUpName, MigrationsInv
<1>13. CASE UNCHANGED startupVars
  BY <1>13 DEF startupVars, MigrationsInv
<1>14. QED
  BY <1>3, <1>4, <1>5, <1>6, <1>7, <1>8, <1>9, <1>10, <1>11, <1>12, <1>13 DEF StartupNext, Step

\* What was given up while a process was seeding is not forgotten.
LEMMA DroppedStays == ASSUME [StartupNext]_startupVars, dropped PROVE dropped'
<1>1. ASSUME NEW p \in Process, StartProcess(p) \/ Step(p) \/ Signal(p) \/ TimeUp(p) \/ Client(p)
                                  \/ Die(p)
      PROVE  dropped' = dropped
  BY <1>1 DEF StartProcess, Step, ReadSecret, Load, CreateFile, WriteSecret, Connect,
              ListMigrations, PickMigration, LockMigrations, ApplyMigration, FindSeed,
              MakeAccount, InsertNames, AssignPrimary, Listen, Closed, TimeUp, Signal, Client,
              Die, Memory, Database
<1>2. QED
  BY <1>1 DEF StartupNext, TakeName, GiveUpName, startupVars

\* Who makes an account found no name held; whoever inserts before it inserts
\* them all, so that it comes to insert none.
LEMMA SeedStep ==
  ASSUME StartupTypeOK, StartedInv, SeedInv, SeedStaysTogether, [StartupNext]_startupVars
  PROVE  SeedInv' /\ SeedStaysTogether'
<1> USE StartupAssumption
<1>1. CASE dropped /\ dropped'
  BY <1>1 DEF SeedInv, SeedStaysTogether
<1>2. ASSUME ~dropped, UNCHANGED owner,
             NEW p \in Process, \A q \in Process \ {p} : phase'[q] = phase[q] /\ seed'[q] = seed[q],
             phase'[p] \notin {"make", "insert"}
      PROVE  SeedInv' /\ SeedStaysTogether'
  BY <1>2 DEF SeedInv, SeedStaysTogether, AllHeld
<1>3. ASSUME ~dropped, NEW p \in Process, Forget(p), UNCHANGED owner
      PROVE  SeedInv' /\ SeedStaysTogether'
  BY <1>2, <1>3 DEF Forget, Goto, StartupTypeOK
<1>4. ASSUME ~dropped, NEW p \in Process, NEW next, next \notin {"make", "insert"}, Goto(p, next),
             UNCHANGED <<owner, seed>>
      PROVE  SeedInv' /\ SeedStaysTogether'
  BY <1>2, <1>4 DEF Goto, StartupTypeOK
<1>5. ASSUME ~dropped, UNCHANGED <<phase, seed, owner>> PROVE SeedInv' /\ SeedStaysTogether'
  BY <1>5 DEF SeedInv, SeedStaysTogether, AllHeld
<1>6. ASSUME ~dropped, NEW p \in Process,
             \/ StartProcess(p) \/ ReadSecret(p) \/ CreateFile(p) \/ WriteSecret(p)
             \/ Connect(p) \/ ListMigrations(p) \/ PickMigration(p) \/ LockMigrations(p)
             \/ ApplyMigration(p)
      PROVE  SeedInv' /\ SeedStaysTogether'
  BY <1>3, <1>4, <1>5, <1>6
     DEF StartProcess, ReadSecret, Load, CreateFile, WriteSecret, Connect, ListMigrations,
         PickMigration, LockMigrations, ApplyMigration, Migrating, Memory, Database
<1>7. ASSUME ~dropped, NEW p \in Process, FindSeed(p) PROVE SeedInv' /\ SeedStaysTogether'
  <2>1. ASSUME Holders = {}, Goto(p, "make"), UNCHANGED <<seed, owner>>
        PROVE  SeedInv' /\ SeedStaysTogether'
    <3>1. \A n \in Names : owner[n] \notin Made
      BY <2>1 DEF Holders
    <3>2. QED
      BY <1>7, <2>1, <3>1 DEF Goto, StartupTypeOK, SeedInv, SeedStaysTogether, AllHeld
  <2>2. ASSUME NEW account \in Holders, seed' = [seed EXCEPT ![p] = account], Goto(p, "insert"),
               UNCHANGED owner
        PROVE  SeedInv' /\ SeedStaysTogether'
    <3>1. account = Stranger \/ \A n \in Names : owner[n] \in Made => owner[n] = account
      BY <1>7 DEF Holders, StartupTypeOK, SeedStaysTogether
    <3>2. QED
      BY <1>7, <2>2, <3>1 DEF Goto, StartupTypeOK, SeedInv, SeedStaysTogether, AllHeld
  <2>3. QED
    BY <1>7, <2>1, <2>2 DEF FindSeed, Database
<1>8. ASSUME ~dropped, NEW p \in Process, MakeAccount(p) PROVE SeedInv' /\ SeedStaysTogether'
  <2>1. AllHeld \/ \A n \in Names : owner[n] \notin Made
    BY <1>8 DEF MakeAccount, SeedInv
  <2>2. QED
    BY <1>8, <2>1 DEF MakeAccount, Goto, StartupTypeOK, SeedInv, SeedStaysTogether, AllHeld, Database
<1>9. ASSUME ~dropped, NEW p \in Process, InsertNames(p) PROVE SeedInv' /\ SeedStaysTogether'
  <2>1. AllHeld'
    BY <1>9 DEF InsertNames, StartedInv, AllHeld, Memory
  <2>2. SeedInv'
    BY <2>1 DEF SeedInv
  <2>3. \/ AllHeld
        \/ seed[p] = Stranger
        \/ \A n \in Names : owner[n] \in Made => owner[n] = seed[p]
    BY <1>9 DEF InsertNames, SeedInv
  <2>4. SeedStaysTogether'
    BY <1>9, <2>3 DEF InsertNames, SeedStaysTogether, AllHeld
  <2>5. QED
    BY <2>2, <2>4
<1>10. ASSUME ~dropped, NEW p \in Process, AssignPrimary(p) PROVE SeedInv' /\ SeedStaysTogether'
  BY <1>2, <1>10 DEF AssignPrimary, Goto, StartupTypeOK
<1>11. ASSUME ~dropped, NEW p \in Process,
              Listen(p) \/ Closed(p) \/ TimeUp(p) \/ Signal(p) \/ Die(p)
       PROVE  SeedInv' /\ SeedStaysTogether'
  BY <1>3, <1>4, <1>11 DEF Listen, Closed, TimeUp, Signal, Die, Memory, Database
<1>12. ASSUME ~dropped, NEW p \in Process, Client(p) PROVE SeedInv' /\ SeedStaysTogether'
  BY <1>5, <1>12 DEF Client, Database
<1>13. ASSUME ~dropped, NEW n \in Names, TakeName(n) PROVE SeedInv' /\ SeedStaysTogether'
  BY <1>13 DEF TakeName, StartupTypeOK, SeedInv, SeedStaysTogether, AllHeld
<1>14. ASSUME ~dropped, ~dropped', NEW n \in Names, GiveUpName(n)
       PROVE  SeedInv' /\ SeedStaysTogether'
  <2>1. \A p \in Process : phase'[p] \notin {"make", "insert"}
    BY <1>14 DEF GiveUpName
  <2>2. SeedInv'
    BY <2>1 DEF SeedInv
  <2>3. SeedStaysTogether'
    BY <1>14 DEF GiveUpName, StartupTypeOK, SeedStaysTogether
  <2>4. QED
    BY <2>2, <2>3
<1>15. CASE ~dropped /\ UNCHANGED startupVars
  BY <1>5, <1>15 DEF startupVars
<1>16. CASE dropped'
  BY <1>16 DEF SeedInv, SeedStaysTogether
<1>17. QED
  BY <1>6, <1>7, <1>8, <1>9, <1>10, <1>11, <1>12, <1>13, <1>14, <1>15, <1>16, DroppedStays
     DEF StartupNext, Step

LEMMA StartupInvariant == StartupSpec => []StartupInv
<1>1. StartupInit => StartupInv
  <2> SUFFICES ASSUME StartupInit PROVE StartupInv
    OBVIOUS
  <2>1. StartupTypeOK
    <3>1. /\ phase \in [Process -> {"off"} \cup Starting \cup Up]
          /\ start \in [Process -> 0..MaxStarts]
          /\ tries \in [Process -> Nat]
          /\ picked \in [Process -> 0..Migrations]
      BY StartupAssumption DEF StartupInit
    <3>2. /\ secret \in [Process -> Made \cup {Absent}]
          /\ seed \in [Process -> Made \cup {Stranger, Absent}]
          /\ owner \in [Names -> Made \cup {Stranger, Absent}]
          /\ open \in [Process -> BOOLEAN]
      BY DEF StartupInit
    <3>3. starts \in 0..MaxStarts /\ applied \in 0..Migrations
      BY StartupAssumption DEF StartupInit
    <3>4. QED
      BY <3>1, <3>2, <3>3 DEF StartupInit, StartupTypeOK
  <2>2. \A p \in Process : phase[p] = "off" /\ secret[p] = Absent
    BY DEF StartupInit
  <2>3. StartedInv /\ SecretInv /\ MigrationsInv
    BY <2>2 DEF StartedInv, SecretInv, MigrationsInv, Settled, Up
  <2>4. SeedInv
    BY <2>2 DEF SeedInv
  <2>5. SeedStaysTogether
    BY StartupAssumption DEF StartupInit, SeedStaysTogether
  <2>6. QED
    BY <2>1, <2>3, <2>4, <2>5 DEF StartupInv
<1>2. StartupInv /\ [StartupNext]_startupVars => StartupInv'
  BY StartupTypeStep, StartedStep, SecretStep, MigrationsStep, SeedStep DEF StartupInv
<1>3. QED
  BY <1>1, <1>2, PTL DEF StartupSpec

-----------------------------------------------------------------------------
(* The theorems                                                            *)

\* What processes and the database keep has its types.
THEOREM StartupTypeCorrect == StartupSpec => []StartupTypeOK
  BY StartupInvariant, PTL DEF StartupInv

\* Whoever makes the file, and wherever whoever dies, processes that run with a
\* secret run with the same one (load_secret).
THEOREM SecretIsShared == StartupSpec => []SecretsAgree
<1>1. StartupInv => SecretsAgree
  BY DEF StartupInv, SecretInv, SecretsAgree
<1>2. QED
  BY <1>1, StartupInvariant, PTL

\* However many processes apply the migrations together, and wherever they
\* die, none seeds or serves before all are applied (bootstrap_database).
THEOREM MigratedBeforeServing == StartupSpec => []ServesMigrated
<1>1. StartupInv => ServesMigrated
  BY DEF StartupInv, MigrationsInv, ServesMigrated, Settled
<1>2. QED
  BY <1>1, StartupInvariant, PTL

\* However many processes seed together, the seed's names are not shared out
\* between accounts they made, unless one was given up meanwhile
\* (bootstrap_users).
THEOREM SeedIsOne == StartupSpec => []SeedStaysTogether
  BY StartupInvariant, PTL DEF StartupInv

-----------------------------------------------------------------------------
(* A start comes to an end                                                 *)

\* How many steps a start has ahead of it, at most.
Left(p) ==
  CASE phase[p] = "read" -> 3 * Migrations + MaxAttempts + 10
    [] phase[p] = "create" -> 3 * Migrations + MaxAttempts + 9
    [] phase[p] \in {"write", "again"} -> 3 * Migrations + MaxAttempts + 8
    [] phase[p] = "connect" -> 3 * Migrations + tries[p] + 7
    [] phase[p] = "list" -> 3 * Migrations + 6
    [] phase[p] = "pick" -> 3 * tries[p] + 5
    [] phase[p] = "lock" -> 3 * tries[p] + 4
    [] phase[p] = "apply" -> 3 * tries[p] + 3
    [] phase[p] = "find" -> 5
    [] phase[p] = "make" -> 4
    [] phase[p] = "insert" -> 3
    [] phase[p] = "primary" -> 2
    [] phase[p] = "listen" -> 1
    [] OTHER -> 0

\* A process looks for the file again only when it was there, and it stays.
AgainInv == \A p \in Process : phase[p] = "again" => file # Absent

LEMMA FileStays ==
  ASSUME StartupTypeOK, StartedInv, [StartupNext]_startupVars, file # Absent PROVE file' # Absent
<1>1. ASSUME NEW p \in Process, WriteSecret(p) PROVE file' # Absent
  <2>1. start[p] \in Made
    BY <1>1 DEF WriteSecret, StartedInv
  <2>2. QED
    BY <1>1, <2>1, StartupAssumption DEF WriteSecret
<1>2. ASSUME NEW p \in Process, CreateFile(p) PROVE file' # Absent
  BY <1>2 DEF CreateFile
<1>3. QED
  BY <1>1, <1>2 DEF StartupNext, Step, StartProcess, ReadSecret, Load, Connect, ListMigrations,
     PickMigration, LockMigrations, ApplyMigration, FindSeed, MakeAccount, InsertNames,
     AssignPrimary, Listen, Closed, Signal, TimeUp, Client, Die, TakeName, GiveUpName, startupVars

\* Whoever finds the file there when it would make it looks again.
LEMMA AgainStep ==
  ASSUME StartupTypeOK, StartedInv, AgainInv, [StartupNext]_startupVars PROVE AgainInv'
<1>1. SUFFICES ASSUME NEW p \in Process, phase'[p] = "again", file' = Absent PROVE FALSE
  BY DEF AgainInv
<1>2. file = Absent
  BY <1>1, FileStays
<1>3. phase[p] # "again"
  BY <1>2 DEF AgainInv
<1>4. ASSUME NEW q \in Process, NEW next, next # "again", Goto(q, next) PROVE phase'[p] # "again"
  BY <1>3, <1>4 DEF Goto, StartupTypeOK
<1>5. ASSUME NEW q \in Process, CreateFile(q) PROVE FALSE
  <2>1. Goto(q, "write")
    BY <1>2, <1>5 DEF CreateFile
  <2>2. QED
    BY <1>1, <1>4, <2>1
<1>6. ASSUME NEW q \in Process, Forget(q) PROVE FALSE
  BY <1>1, <1>4, <1>6 DEF Forget
<1>7. ASSUME NEW q \in Process, NEW n, Goto(q, Migrating(n)) PROVE FALSE
  BY <1>1, <1>4, <1>7 DEF Migrating
<1>8. ASSUME NEW q \in Process, StartProcess(q) \/ Signal(q) \/ TimeUp(q) \/ Client(q) \/ Die(q)
      PROVE  FALSE
  BY <1>1, <1>3, <1>4, <1>6, <1>8 DEF StartProcess, Signal, TimeUp, Client, Die
<1>9. ASSUME NEW q \in Process, ReadSecret(q) \/ WriteSecret(q) \/ Connect(q) \/ ListMigrations(q)
      PROVE  FALSE
  BY <1>1, <1>2, <1>3, <1>4, <1>6, <1>7, <1>9 DEF ReadSecret, WriteSecret, Connect, ListMigrations
<1>10. ASSUME NEW q \in Process, PickMigration(q) \/ LockMigrations(q) \/ ApplyMigration(q)
       PROVE  FALSE
  BY <1>1, <1>4, <1>6, <1>7, <1>10 DEF PickMigration, LockMigrations, ApplyMigration
<1>11. ASSUME NEW q \in Process, FindSeed(q) \/ MakeAccount(q) \/ InsertNames(q) \/ AssignPrimary(q)
       PROVE  FALSE
  BY <1>1, <1>4, <1>11 DEF FindSeed, MakeAccount, InsertNames, AssignPrimary
<1>12. ASSUME NEW q \in Process, Listen(q) \/ Closed(q) PROVE FALSE
  BY <1>1, <1>4, <1>6, <1>12 DEF Listen, Closed
<1>13. CASE UNCHANGED phase
  BY <1>1, <1>3, <1>13
<1>14. QED
  BY <1>5, <1>8, <1>9, <1>10, <1>11, <1>12, <1>13 DEF StartupNext, Step, TakeName, GiveUpName,
     startupVars

\* Who starts has steps ahead.
LEMMA LeftToDo ==
  ASSUME StartupTypeOK, NEW p \in Process, phase[p] \in Starting
  PROVE  Left(p) \in Nat /\ Left(p) > 0
<1>1. MaxAttempts \in Nat /\ Migrations \in Nat /\ tries[p] \in Nat
  BY StartupAssumption DEF StartupTypeOK
<1>2. /\ phase[p] = "read" => Left(p) = 3 * Migrations + MaxAttempts + 10
      /\ phase[p] = "create" => Left(p) = 3 * Migrations + MaxAttempts + 9
      /\ phase[p] \in {"write", "again"} => Left(p) = 3 * Migrations + MaxAttempts + 8
      /\ phase[p] = "connect" => Left(p) = 3 * Migrations + tries[p] + 7
      /\ phase[p] = "list" => Left(p) = 3 * Migrations + 6
  BY DEF Left
<1>3. /\ phase[p] = "pick" => Left(p) = 3 * tries[p] + 5
      /\ phase[p] = "lock" => Left(p) = 3 * tries[p] + 4
      /\ phase[p] = "apply" => Left(p) = 3 * tries[p] + 3
      /\ phase[p] = "find" => Left(p) = 5
      /\ phase[p] = "make" => Left(p) = 4
      /\ phase[p] = "insert" => Left(p) = 3
      /\ phase[p] = "primary" => Left(p) = 2
      /\ phase[p] = "listen" => Left(p) = 1
  BY DEF Left
<1>4. QED
  BY <1>1, <1>2, <1>3 DEF Starting

\* What a process does by itself brings it on.
LEMMA OwnStep ==
  ASSUME StartupTypeOK, MigrationsInv, AgainInv, NEW p \in Process, phase[p] \in Starting, Step(p)
  PROVE  Left(p)' < Left(p)
<1>1. MaxAttempts \in Nat /\ Migrations \in Nat /\ applied \in 0..Migrations
      /\ tries[p] \in Nat /\ phase \in [Process -> {"off"} \cup Starting \cup Up]
      /\ tries \in [Process -> Nat]
  BY StartupAssumption DEF StartupTypeOK
<1>2. Left(p) \in Nat /\ Left(p) > 0
  BY LeftToDo
<1>3. ASSUME Forget(p) PROVE Left(p)' < Left(p)
  <2>1. phase'[p] = "off"
    BY <1>1, <1>3 DEF Forget, Goto
  <2>2. Left(p)' = 0
    BY <2>1 DEF Left
  <2>3. QED
    BY <1>2, <2>2
<1>4. ASSUME NEW next, Goto(p, next) PROVE phase'[p] = next
  BY <1>1, <1>4 DEF Goto
<1>5. CASE ReadSecret(p)
  <2>1. CASE Load(p)
    BY <1>1, <1>4, <1>5, <2>1 DEF ReadSecret, Load, Left
  <2>2. CASE file = Absent /\ Goto(p, "create") /\ UNCHANGED tries
    <3>1. phase[p] = "read"
      BY <1>5, <2>2 DEF ReadSecret, AgainInv
    <3>2. QED
      BY <1>1, <1>4, <2>2, <3>1 DEF Left
  <2>3. QED
    BY <1>3, <1>5, <2>1, <2>2 DEF ReadSecret
<1>6. CASE CreateFile(p) \/ WriteSecret(p)
  BY <1>1, <1>4, <1>6 DEF CreateFile, WriteSecret, Left
<1>7. CASE Connect(p)
  <2>1. CASE Goto(p, "list")
    BY <1>1, <1>4, <1>7, <2>1 DEF Connect, Left
  <2>2. CASE tries[p] > 1 /\ tries' = [tries EXCEPT ![p] = @ - 1] /\ UNCHANGED phase
    BY <1>1, <1>7, <2>2 DEF Connect, Left
  <2>3. QED
    BY <1>3, <1>7, <2>1, <2>2 DEF Connect
<1>8. CASE ListMigrations(p)
  <2>1. phase[p] = "list" /\ tries'[p] = Migrations - applied /\ Migrations - applied \in Nat
    BY <1>1, <1>8 DEF ListMigrations
  <2>2. phase'[p] = Migrating(Migrations - applied)
    BY <1>4, <1>8 DEF ListMigrations
  <2>3. QED
    BY <1>1, <2>1, <2>2 DEF Migrating, Left
<1>9. CASE PickMigration(p)
  BY <1>1, <1>4, <1>9 DEF PickMigration, Left
<1>10. CASE LockMigrations(p)
  BY <1>1, <1>3, <1>4, <1>10 DEF LockMigrations, Left
<1>11. CASE ApplyMigration(p)
  <2>1. phase[p] = "apply" /\ tries[p] > 0 /\ tries'[p] = tries[p] - 1
    BY <1>1, <1>11 DEF ApplyMigration, MigrationsInv
  <2>2. phase'[p] = Migrating(tries[p] - 1)
    BY <1>4, <1>11 DEF ApplyMigration
  <2>3. QED
    BY <1>1, <2>1, <2>2 DEF Migrating, Left
<1>12. CASE FindSeed(p) \/ MakeAccount(p)
  BY <1>4, <1>12 DEF FindSeed, MakeAccount, Left
<1>13. CASE InsertNames(p) \/ AssignPrimary(p)
  BY <1>4, <1>13 DEF InsertNames, AssignPrimary, Left
<1>14. CASE Listen(p)
  BY <1>3, <1>4, <1>14 DEF Listen, Left
<1>15. CASE Closed(p)
  BY <1>3, <1>15 DEF Closed
<1>16. QED
  BY <1>5, <1>6, <1>7, <1>8, <1>9, <1>10, <1>11, <1>12, <1>13, <1>14, <1>15 DEF Step

\* What anyone else does leaves it where it is, or ends it.
LEMMA OthersStep ==
  ASSUME StartupTypeOK, NEW p \in Process, phase[p] \in Starting, StartupNext, ~Step(p)
  PROVE  phase'[p] = "off" \/ (phase'[p] = phase[p] /\ tries'[p] = tries[p])
<1>1. phase \in [Process -> {"off"} \cup Starting \cup Up] /\ tries \in [Process -> Nat]
  BY DEF StartupTypeOK
<1>2. ASSUME NEW q \in Process, q # p, NEW next, Goto(q, next) PROVE phase'[p] = phase[p]
  BY <1>1, <1>2 DEF Goto
<1>3. ASSUME NEW q \in Process, Forget(q), q # p
      PROVE  phase'[p] = phase[p] /\ tries'[p] = tries[p]
  BY <1>1, <1>2, <1>3 DEF Forget
<1>4. ASSUME NEW q \in Process, q # p, Step(q)
      PROVE  phase'[p] = phase[p] /\ tries'[p] = tries[p]
  <2>1. CASE ReadSecret(q) \/ CreateFile(q) \/ WriteSecret(q)
    BY <1>1, <1>2, <1>3, <1>4, <2>1 DEF ReadSecret, Load, CreateFile, WriteSecret
  <2>2. CASE Connect(q) \/ ListMigrations(q) \/ PickMigration(q)
    BY <1>1, <1>2, <1>3, <1>4, <2>2 DEF Connect, ListMigrations, PickMigration
  <2>3. CASE LockMigrations(q) \/ ApplyMigration(q)
    BY <1>1, <1>2, <1>3, <1>4, <2>3 DEF LockMigrations, ApplyMigration
  <2>4. CASE FindSeed(q) \/ MakeAccount(q) \/ InsertNames(q) \/ AssignPrimary(q)
    BY <1>1, <1>2, <1>4, <2>4 DEF FindSeed, MakeAccount, InsertNames, AssignPrimary
  <2>5. CASE Listen(q) \/ Closed(q)
    BY <1>1, <1>2, <1>3, <1>4, <2>5 DEF Listen, Closed
  <2>6. QED
    BY <1>4, <2>1, <2>2, <2>3, <2>4, <2>5 DEF Step
<1>5. ASSUME NEW q \in Process, StartProcess(q) \/ Signal(q) \/ TimeUp(q) \/ Client(q)
      PROVE  phase'[p] = phase[p] /\ tries'[p] = tries[p]
  <2>1. phase[p] \notin {"off", "up", "closing"}
    BY DEF Starting
  <2>2. q # p \/ (UNCHANGED <<phase, tries>>)
    BY <1>5, <2>1 DEF StartProcess, Signal, TimeUp, Client, Up
  <2>3. QED
    BY <1>1, <1>2, <1>3, <1>5, <2>2 DEF StartProcess, Signal, TimeUp, Client
<1>6. ASSUME NEW q \in Process, Die(q)
      PROVE  phase'[p] = "off" \/ (phase'[p] = phase[p] /\ tries'[p] = tries[p])
  BY <1>1, <1>3, <1>6 DEF Die, Forget, Goto
<1>7. ASSUME NEW n \in Names, TakeName(n) \/ GiveUpName(n)
      PROVE  phase'[p] = phase[p] /\ tries'[p] = tries[p]
  BY <1>7 DEF TakeName, GiveUpName
<1>8. QED
  BY <1>4, <1>5, <1>6, <1>7 DEF StartupNext

\* Why a start comes to an end, for any number of attempts and migrations and
\* whatever other processes do: every step of its own leaves it less to do, and
\* nobody's gives it more (load_secret, bootstrap_database, bootstrap_users).
THEOREM StartsGoOn ==
  StartupSpec => [][\A p \in Process : phase[p] \in Starting =>
                      Left(p)' < Left(p) \/ (~Step(p) /\ Left(p)' = Left(p))]_startupVars
<1>1. StartupInit => AgainInv
  BY DEF StartupInit, AgainInv
<1>2. StartupInv /\ AgainInv /\ [StartupNext]_startupVars => AgainInv'
  BY AgainStep DEF StartupInv
<1>3. ASSUME StartupInv, AgainInv, StartupNext, NEW p \in Process, phase[p] \in Starting
      PROVE  Left(p)' < Left(p) \/ (~Step(p) /\ Left(p)' = Left(p))
  <2>1. CASE Step(p)
    BY <1>3, <2>1, OwnStep DEF StartupInv
  <2>2. CASE ~Step(p) /\ phase'[p] = phase[p] /\ tries'[p] = tries[p]
    BY <2>2 DEF Left
  <2>3. CASE ~Step(p) /\ phase'[p] = "off"
    <3>1. Left(p)' = 0
      BY <2>3 DEF Left
    <3>2. Left(p) > 0
      BY <1>3, LeftToDo DEF StartupInv
    <3>3. QED
      BY <3>1, <3>2
  <2>4. QED
    BY <1>3, <2>1, <2>2, <2>3, OthersStep DEF StartupInv
<1>4. StartupInv /\ AgainInv /\ [StartupNext]_startupVars =>
        [\A p \in Process : phase[p] \in Starting =>
           Left(p)' < Left(p) \/ (~Step(p) /\ Left(p)' = Left(p))]_startupVars
  BY <1>3
<1>5. QED
  BY <1>1, <1>2, <1>4, StartupInvariant, PTL DEF StartupSpec

=============================================================================
