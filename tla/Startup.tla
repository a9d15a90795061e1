------------------------------ MODULE Startup -------------------------------
(***************************************************************************)
(* Processes that start and stop beside one database and one data          *)
(* directory: the root secret is loaded or made (load_secret), migrations  *)
(* are applied (bootstrap_database), the seed account is found or made     *)
(* (bootstrap_users), and a server runs until it is told to stop           *)
(* (express_run).  A process may die at any step and be started again.     *)
(***************************************************************************)
EXTENDS Naturals, FiniteSets

CONSTANTS
  Process,
  MaxStarts,      \* bound: how often processes are started
  MaxAttempts,    \* how often the database is tried
  Migrations,     \* how many there are
  Names,          \* of the seed: its username and addresses
  Emails,         \* those of them that are addresses
  Stranger,       \* an account nobody seeded
  Absent,           \* no secret, no account, no holder
  Empty           \* the content of a file that was only opened

\* A start makes at most one secret and one account, named after it.
Made == 1..MaxStarts

ASSUME StartupAssumption ==
  /\ MaxStarts \in Nat
  /\ MaxAttempts \in Nat \ {0}
  /\ Migrations \in Nat
  /\ Emails \subseteq Names
  /\ Absent \notin Made \cup Process \cup {Stranger, Empty}
  /\ {Stranger, Empty} \cap Made = {}

VARIABLES
  phase,    \* per process: what it does next
  starts,   \* how often processes were started
  start,    \* per process: the last start of it
  secret,   \* per process: the root secret it runs with
  file,     \* secret.key: Absent, Empty or the secret in it
  tries,    \* per process: attempts, then migrations, that are left
  picked,   \* per process: the migration it is about to apply
  applied,  \* how many migrations the database has had
  lock,     \* who holds the lock on migrations
  seed,     \* per process: the account its seed names
  owner,    \* per name: the account that holds it
  primary,  \* the names that are the primary address of their account
  open,     \* per process: whether a client keeps a connection open
  dropped   \* whether a name was given up while a process was seeding

startupVars == <<phase, starts, start, secret, file, tries, picked, applied, lock, seed, owner,
                 primary, open, dropped>>

Starting == {"read", "create", "write", "again", "connect", "list", "pick", "lock", "apply",
             "find", "make", "insert", "primary", "listen"}
Up == {"up", "closing"}

StartupInit ==
  /\ phase = [p \in Process |-> "off"]
  /\ starts = 0
  /\ start = [p \in Process |-> 0]
  /\ secret = [p \in Process |-> Absent]
  /\ file = Absent
  /\ tries = [p \in Process |-> 0]
  /\ picked = [p \in Process |-> 0]
  /\ applied = 0
  /\ lock = Absent
  /\ seed = [p \in Process |-> Absent]
  /\ owner = [n \in Names |-> Absent]
  /\ primary = {}
  /\ open = [p \in Process |-> FALSE]
  /\ dropped = FALSE

Goto(p, next) == phase' = [phase EXCEPT ![p] = next]

\* What a process keeps in memory is gone when it ends.
Forget(p) ==
  /\ Goto(p, "off")
  /\ secret' = [secret EXCEPT ![p] = Absent]
  /\ tries' = [tries EXCEPT ![p] = 0]
  /\ picked' = [picked EXCEPT ![p] = 0]
  /\ seed' = [seed EXCEPT ![p] = Absent]
  /\ open' = [open EXCEPT ![p] = FALSE]
  /\ start' = [start EXCEPT ![p] = 0]
  /\ UNCHANGED starts

StartProcess(p) ==
  /\ phase[p] = "off"
  /\ starts < MaxStarts
  /\ starts' = starts + 1
  /\ start' = [start EXCEPT ![p] = starts + 1]
  /\ Goto(p, "read")
  /\ UNCHANGED <<secret, file, tries, picked, applied, lock, seed, owner, primary, open, dropped>>

-----------------------------------------------------------------------------
(* The root secret                                                         *)

Database == <<applied, lock, owner, primary, dropped>>
Memory == <<starts, start, picked, seed, open>>

Load(p) ==
  /\ secret' = [secret EXCEPT ![p] = file]
  /\ tries' = [tries EXCEPT ![p] = MaxAttempts]
  /\ Goto(p, "connect")
  /\ UNCHANGED <<file, Memory, Database>>

\* An empty file is too short a secret: the process ends.
ReadSecret(p) ==
  /\ phase[p] \in {"read", "again"}
  /\ \/ /\ file \notin {Absent, Empty}
        /\ Load(p)
     \/ /\ file = Empty
        /\ Forget(p)
        /\ UNCHANGED <<file, Database>>
     \/ /\ file = Absent
        /\ Goto(p, "create")
        /\ UNCHANGED <<secret, tries, file, Memory, Database>>

\* Mutant of CreateFile: the file is opened whether it exists or not.
CreateFileAnyway(p) ==
  /\ phase[p] = "create"
  /\ file' = Empty
  /\ Goto(p, "write")
  /\ UNCHANGED <<secret, tries, Memory, Database>>

\* writeFileSync with flag "wx": one process opens the file ...
CreateFile(p) ==
  /\ phase[p] = "create"
  /\ \/ /\ file = Absent
        /\ file' = Empty
        /\ Goto(p, "write")
     \/ /\ file # Absent
        /\ Goto(p, "again")
        /\ UNCHANGED file
  /\ UNCHANGED <<secret, tries, Memory, Database>>

\* ... and then writes its secret to it.
WriteSecret(p) ==
  /\ phase[p] = "write"
  /\ file' = start[p]
  /\ secret' = [secret EXCEPT ![p] = start[p]]
  /\ tries' = [tries EXCEPT ![p] = MaxAttempts]
  /\ Goto(p, "connect")
  /\ UNCHANGED <<Memory, Database>>

-----------------------------------------------------------------------------
(* The database                                                            *)

\* Mutant of Connect: after the last attempt the count starts over.
ConnectForever(p) ==
  /\ phase[p] = "connect"
  /\ \/ Goto(p, "list") /\ UNCHANGED tries
     \/ /\ tries' = [tries EXCEPT ![p] = IF @ > 1 THEN @ - 1 ELSE MaxAttempts]
        /\ UNCHANGED phase
  /\ UNCHANGED <<secret, file, Memory, Database>>

\* SELECT 1 succeeds or not; the last failure ends the process.
Connect(p) ==
  /\ phase[p] = "connect"
  /\ \/ /\ Goto(p, "list")
        /\ UNCHANGED <<secret, tries, Memory>>
     \/ /\ tries[p] > 1
        /\ tries' = [tries EXCEPT ![p] = @ - 1]
        /\ UNCHANGED <<phase, secret, Memory>>
     \/ /\ tries[p] = 1
        /\ Forget(p)
  /\ UNCHANGED <<file, Database>>

\* Where the loop over the listed migrations goes on.
Migrating(left) == IF left = 0 THEN "find" ELSE "pick"

ListMigrations(p) ==
  /\ phase[p] = "list"
  /\ tries' = [tries EXCEPT ![p] = Migrations - applied]
  /\ Goto(p, Migrating(Migrations - applied))
  /\ UNCHANGED <<secret, file, Memory, Database>>

\* knex's migrate.up: the first migration not applied is chosen, ...
PickMigration(p) ==
  /\ phase[p] = "pick"
  /\ picked' = [picked EXCEPT ![p] = IF applied < Migrations THEN applied + 1 ELSE 0]
  /\ Goto(p, "lock")
  /\ UNCHANGED <<starts, start, secret, file, tries, seed, open, Database>>

\* Mutant of LockMigrations: a lock that is taken is passed by.
LockMigrationsOrPass(p) ==
  /\ phase[p] = "lock"
  /\ \/ /\ lock = Absent
        /\ lock' = p
        /\ Goto(p, "apply")
        /\ UNCHANGED tries
     \/ /\ lock # Absent
        /\ tries' = [tries EXCEPT ![p] = @ - 1]
        /\ Goto(p, Migrating(tries[p] - 1))
        /\ UNCHANGED lock
  /\ UNCHANGED <<secret, Memory, file, applied, owner, primary, dropped>>

\* ... the lock is taken, if need be after a wait for whoever holds it, or found
\* taken, which ends the process, ...
LockMigrations(p) ==
  /\ phase[p] = "lock"
  /\ \/ /\ lock = Absent
        /\ lock' = p
        /\ Goto(p, "apply")
        /\ UNCHANGED <<secret, tries, Memory>>
     \/ /\ lock # Absent
        /\ Forget(p)
        /\ UNCHANGED lock
  /\ UNCHANGED <<file, applied, owner, primary, dropped>>

\* ... and the migration is applied, unless it was meanwhile.
ApplyMigration(p) ==
  /\ phase[p] = "apply"
  /\ applied' = IF picked[p] > applied THEN picked[p] ELSE applied
  /\ picked' = [picked EXCEPT ![p] = 0]
  /\ lock' = Absent
  /\ tries' = [tries EXCEPT ![p] = @ - 1]
  /\ Goto(p, Migrating(tries[p] - 1))
  /\ UNCHANGED <<starts, start, secret, file, seed, open, owner, primary, dropped>>

-----------------------------------------------------------------------------
(* The seed                                                                *)

Holders == {owner[n] : n \in Names} \ {Absent}

\* One of the accounts that hold a name of the seed, if there is any.
FindSeed(p) ==
  /\ phase[p] = "find"
  /\ \/ \E account \in Holders :
          /\ seed' = [seed EXCEPT ![p] = account]
          /\ Goto(p, "insert")
     \/ /\ Holders = {}
        /\ Goto(p, "make")
        /\ UNCHANGED seed
  /\ UNCHANGED <<starts, start, secret, file, tries, picked, open, Database>>

\* users_create
MakeAccount(p) ==
  /\ phase[p] = "make"
  /\ seed' = [seed EXCEPT ![p] = start[p]]
  /\ Goto(p, "insert")
  /\ UNCHANGED <<starts, start, secret, file, tries, picked, open, Database>>

\* Mutant of InsertNames: each name is inserted by a statement of its own.
InsertNamesSingly(p) ==
  /\ phase[p] = "insert"
  /\ \/ \E n \in Names :
          /\ owner[n] = Absent
          /\ owner' = [owner EXCEPT ![n] = seed[p]]
          /\ UNCHANGED phase
     \/ /\ \A n \in Names : owner[n] # Absent
        /\ Goto(p, "primary")
        /\ UNCHANGED owner
  /\ UNCHANGED <<secret, file, tries, Memory, applied, lock, primary, dropped>>

\* One insert of all the names, those that are taken left to whom they belong.
InsertNames(p) ==
  /\ phase[p] = "insert"
  /\ owner' = [n \in Names |-> IF owner[n] = Absent THEN seed[p] ELSE owner[n]]
  /\ Goto(p, "primary")
  /\ UNCHANGED <<secret, file, tries, Memory, applied, lock, primary, dropped>>

Held(account) == {n \in Names : owner[n] = account}

\* assign_primary_email
AssignPrimary(p) ==
  /\ phase[p] = "primary"
  /\ \/ \E n \in Held(seed[p]) \cap Emails :
          /\ Held(seed[p]) \cap primary = {}
          /\ primary' = primary \cup {n}
     \/ /\ Held(seed[p]) \cap Emails = {} \/ Held(seed[p]) \cap primary # {}
        /\ UNCHANGED primary
  /\ seed' = [seed EXCEPT ![p] = Absent]
  /\ Goto(p, "listen")
  /\ UNCHANGED <<starts, start, secret, file, tries, picked, open, applied, lock, owner, dropped>>

-----------------------------------------------------------------------------
(* The server                                                              *)

\* The port is free, or it is not and the process ends.
Listen(p) ==
  /\ phase[p] = "listen"
  /\ \/ /\ Goto(p, "up")
        /\ UNCHANGED <<secret, tries, Memory>>
     \/ Forget(p)
  /\ UNCHANGED <<file, Database>>

Signal(p) ==
  /\ phase[p] = "up"
  /\ Goto(p, "closing")
  /\ UNCHANGED <<secret, file, tries, Memory, Database>>

\* server.close: no new connections, and the end once none is open.
Closed(p) ==
  /\ phase[p] = "closing"
  /\ ~open[p]
  /\ Forget(p)
  /\ UNCHANGED <<file, Database>>

\* Mutant of TimeUp: the timer only ends a server that has closed.
TimeUpIdle(p) ==
  /\ phase[p] = "closing"
  /\ ~open[p]
  /\ Forget(p)
  /\ UNCHANGED <<file, Database>>

\* Ten seconds after the signal.
TimeUp(p) ==
  /\ phase[p] = "closing"
  /\ Forget(p)
  /\ UNCHANGED <<file, Database>>

-----------------------------------------------------------------------------
(* The environment                                                         *)

\* A client connects, or hangs up.
Client(p) ==
  /\ \/ phase[p] = "up" /\ ~open[p]
     \/ phase[p] \in Up /\ open[p]
  /\ open' = [open EXCEPT ![p] = ~@]
  /\ UNCHANGED <<phase, starts, start, secret, file, tries, picked, seed, Database>>

\* Killed, or out of memory, at any step: the database takes the lock back, or
\* it stays taken where a migration does not run in a transaction.
Die(p) ==
  /\ phase[p] \in Starting \cup Up
  /\ Forget(p)
  /\ lock' \in IF lock = p THEN {Absent, p} ELSE {lock}
  /\ UNCHANGED <<file, applied, owner, primary, dropped>>

\* Requests another process serves: a name is taken, or given up.
Serving == \E p \in Process : phase[p] \in Up

TakeName(n) ==
  /\ Serving
  /\ owner[n] = Absent
  /\ owner' = [owner EXCEPT ![n] = Stranger]
  /\ UNCHANGED <<phase, starts, start, secret, file, tries, picked, applied, lock, seed, primary,
                 open, dropped>>

GiveUpName(n) ==
  /\ Serving
  /\ owner[n] # Absent
  /\ owner' = [owner EXCEPT ![n] = Absent]
  /\ primary' = primary \ {n}
  /\ dropped' = (dropped \/ \E p \in Process : phase[p] \in {"make", "insert"})
  /\ UNCHANGED <<phase, starts, start, secret, file, tries, picked, applied, lock, seed, open>>

\* What a process does by itself.
Step(p) ==
  \/ ReadSecret(p) \/ CreateFile(p) \/ WriteSecret(p)
  \/ Connect(p) \/ ListMigrations(p) \/ PickMigration(p) \/ LockMigrations(p) \/ ApplyMigration(p)
  \/ FindSeed(p) \/ MakeAccount(p) \/ InsertNames(p) \/ AssignPrimary(p)
  \/ Listen(p) \/ Closed(p)

StartupNext ==
  \/ \E p \in Process : StartProcess(p) \/ Step(p) \/ Signal(p) \/ TimeUp(p) \/ Client(p) \/ Die(p)
  \/ \E n \in Names : TakeName(n) \/ GiveUpName(n)

\* A process runs on, and a timer that is set goes off.
StartupSpec ==
  /\ StartupInit
  /\ [][StartupNext]_startupVars
  /\ \A p \in Process : WF_startupVars(Step(p)) /\ WF_startupVars(TimeUp(p))

-----------------------------------------------------------------------------
(* Properties                                                              *)

\* The types.
StartupTypeOK ==
  /\ phase \in [Process -> {"off"} \cup Starting \cup Up]
  /\ starts \in 0..MaxStarts
  /\ start \in [Process -> 0..MaxStarts]
  /\ secret \in [Process -> Made \cup {Absent}]
  /\ file \in Made \cup {Absent, Empty}
  /\ tries \in [Process -> Nat]
  /\ picked \in [Process -> 0..Migrations]
  /\ applied \in 0..Migrations
  /\ lock \in Process \cup {Absent}
  /\ seed \in [Process -> Made \cup {Stranger, Absent}]
  /\ owner \in [Names -> Made \cup {Stranger, Absent}]
  /\ primary \in SUBSET Emails
  /\ open \in [Process -> BOOLEAN]
  /\ dropped \in BOOLEAN

\* Processes that share a data directory run with one secret, so that a session
\* or a signature of one is good at the others: whichever of them makes the
\* file, whoever dies on the way (load_secret).
SecretsAgree ==
  \A p, q \in Process : secret[p] # Absent /\ secret[q] # Absent => secret[p] = secret[q]

\* No process seeds or serves before the database has every migration, however
\* many processes apply them together (bootstrap_database).
ServesMigrated ==
  \A p \in Process :
    phase[p] \in {"find", "make", "insert", "primary", "listen"} \cup Up => applied = Migrations

\* Processes that seed together do not share the seed out between accounts they
\* made: that takes a name given up while one of them was about to insert
\* (bootstrap_users).
SeedStaysTogether ==
  dropped \/ \A m, n \in Names : {owner[m], owner[n]} \subseteq Made => owner[m] = owner[n]

\* Whoever starts gets to serve or ends, though the database may be away, the
\* lock on migrations taken and the file empty (bootstrap_database).
StartEnds == \A p \in Process : phase[p] \in Starting ~> phase[p] \in {"off"} \cup Up

\* A process that was told to stop ends, whatever its clients do (express_run).
ClosingEnds == \A p \in Process : phase[p] = "closing" ~> phase[p] = "off"
=============================================================================
