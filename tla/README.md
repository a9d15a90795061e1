# Verification of authwall

authwall is a self-hosted authentication wall: a Node.js (Express) process that
signs people in (password, magic link, OAuth), keeps their sessions in MySQL,
lets them manage their addresses, providers and personal access tokens, and
lets requests and WebSockets through to the application behind it.  Several
processes may share one database.  Nothing in the process is locked: what two
requests may do to each other is decided by single SQL statements, by a few
transactions, and by the order in which a handler reads, awaits and writes.
That is what these modules are about.

Throughout, one action is one statement of the database (or one transaction,
`db/index.js` binds every query inside one to it) together with the local steps
of the request that issued it; anything may happen between two actions.

## The system

| Component | State | Operations | What makes it correct |
|---|---|---|---|
| Session store (`helpers/SessionStore.js`, `replace_session.js`) | rows of `sessions`; `req.session`, a copy per request | get, set, touch, destroy; regenerate + save at sign-in; end-of-response save or touch by express-session | a revoked row never returns; a session never changes hands; use never extends a deadline |
| Session management (`routes/sessions.js`) | the same rows | revoke one, revoke all others, sign out | revocation is final |
| Password (`routes/password.js`, `actions/*`) | `users.password_hash`, `password_reset_tokens` | sign in, sign up, reset request and confirm, change | nothing minted under an old password outlives a recovery that completed, but what was in flight; one link, one reset |
| Personal access tokens (`routes/personal_access_tokens.js`) | rows of `personal_access_tokens` | create, revoke, authenticate | revoked with the password; expiry; confirmation before creation |
| Addresses (`routes/email_*.js`, `assign_primary_email.js`) | `user_identities` of type email, `email_verify_tokens`, `email_change_tokens` | add, verify (link or code), change (request, approve, confirm), remove, handover | primary = a verified address; links die with the address they were mailed to |
| Identities (`make_oauth_flow.js`, `magic_link.js`) | `user_identities`, `magic_link_tokens`, OAuth state in the session | OAuth start, callback, connect, disconnect; magic link request, open, code | a person's verified address is theirs; no account loses its last way in |
| Step-up confirmation (`routes/confirm.js`, `record_`, `spend_`, `require_confirmation.js`) | a stamp in the session, a code in the database | ask, answer, spend | one answer, one action, one session; five wrong answers lock |
| Codes and limits (`spend_attempt.js`, `is_code_budget_spent.js`, `consume_one_time_token.js`, `make_failure_counter.js`, `rate_limit_middleware.js`) | attempt counters in rows and in memory | ask, guess, spend, count, block, consume | a burst never exceeds a cap, nor a limit on what is counted by more than itself; a row takes effect once |
| WebSocket lease (`create_app.js`) | a map of open sockets, an interval, a coalesced check | upgrade, add, close, check | no dead socket stays, no good one is destroyed |
| Doors (`create_app.js`, `routes/status.js`, `email_verification_required.js`) | a per-process cache of access answers, a snapshot in the session's row | proxy, sidecar, bearer token, WebSocket, pages of a held user | every door passes the same people, and only people who stood |
| Request targets (`canonical_path.js`, `target_path.js`) | none | judge a target public, optional or private | no upstream reads a public target otherwise |
| Configuration (`config/make_config.js`) | read once; `secret.key` | resolve or refuse; load or make the secret | no combination offers a flow it cannot serve or admits an unproven address; one secret |
| Start and stop (`index.js`, `bootstrap_database.js`, `bootstrap_users.js`, `express_run.js`) | the list of migrations and its lock, the seed account | attempt, migrate, seed, listen, close | serves only a migrated database; one seed; starts and stops end |
| Mailer, HTTP clients of the providers, logger, renderers, front end | none | I/O | not modelled |

The components meet in the database: a recovery deletes rows of sessions, links
and tokens that other requests hold copies of; a removed address kills links
that another request is inserting; a revoked session must close sockets in
every process.  `PROJECT.json` lists every hazard we know of, with its line.

## The modules

| Module | Models | Composes |
|---|---|---|
| `SessionStore` | rows of `sessions` and the copy of one that each request works on | implements `SessionLife`, the abstract life of a session id |
| `Recovery` | one account's password with the sessions, tokens and reset links minted under it | the store (its late save), sign-in, reset, change, profile, tokens |
| `EmailLinks` | one account's addresses and the reset, verification and change links mailed to them | the three kinds of links with add, change and remove |
| `Identities` | several accounts and what each can be signed in with; implements `Ownership`, whom an address or a provider's account belongs to | sign-up, magic links, OAuth, verification, handover, release, removal |
| `Confirmation` | the confirmation a session keeps and the requests of that session | the store's copies with `confirm.js`, `require_confirmation`, the provider's callback |
| `WsLease` | the sockets of one process and the check that ends them | upgrades, revocations, the timer, the two lookups |
| `OneTimeCodes` | the rows of codes mailed to one address (or account), and the guesses at them | implements `CodeLife`, the abstract life of a code; asking, guessing, links, `consume_one_time_token`, the budget, the counter in memory |
| `Doors` | one account at the doors of one process | the order of the gates at each door, the cached answers, the snapshots, addresses that change, restarts with other rules |
| `Gates` | one request at every door, under every configuration | `Settings`, `RequestPath`, the sign-in by each flow, the three doors' answers, the headers sent on |
| `Settings` | `make_config` over the settings that interact | used by `Gates` |
| `RequestPath` | `canonical_path` and its callers, and how upstreams read a target | used by `Gates` |
| `Startup` | processes starting and stopping beside one database and data directory | the secret, migrations, the seed, listening and closing |

`MC<Module>` extends a module with the symmetry of its model values.  Each
module keeps the names of the code for its operations; `PROJECT.json` maps
every definition to its lines.

### SessionStore

`sessions` is the table, `copies[r]` is `req.session` of request `r`: the row
it was loaded from, whether this request generated it (`fresh`: it carries no
uid of a row), whether the end of the response will save it, and the times the
expiry is computed from.  `Load`, `Generate`, `Modify`, `Save`,
`ReplaceSession`/`SaveReplaced`, `DestroySession`, `SendHeaders` and
`EndResponse` are the life of a copy; `SetRow`, `TouchRow` and `Without` are
what `SessionStore.js` does to the table; `RevokeOne`, `RevokeOthers` and
`RevokeUser` are the statements of others.  `RowExpiresAt` is `row_expires_at`
with its three times.  History: whose an id was first (`owner`), which rows a
revocation deleted (`revoked`) and which of those had no open request
(`settled`).

### Recovery

A password is its version.  Sign-in is `SignInCompare` then
`ReplaceSession`; a reset is `ResetFind` then the transaction `ResetCommit`;
a change is the chain `ChangeCompare`, `ChangeWrite`, `ChangeReplace`,
`ChangeSessions`, `ChangeLinks`, `ChangePats` of
`complete_password_change.js`, one statement each, and `Fail` stops it
anywhere.  `EndResponse` is the late save of a session made in the request.
"late" marks what was in flight while a revoking statement ran.

### EmailLinks

Rows of addresses and of links, each link with the address it was mailed to
and, in the history, the number of the sealing it was issued after (a sealing
is a statement that kills every link).  Reading a link and consuming it are two
actions; `ResetCommit`, `VerifyCommit`, `ChangeCommit` and `RemoveCommit` are
the transactions.

### Identities

`idents` is `user_identities` (without the usernames, a set of accounts),
`links` is `email_verify_tokens`.  A request goes through the steps of its
handler: `SignUp`, `EmailAdd`, `MagicOpen`, `OAuthLogin`, `ConnectInsert` and
`NotMine` all pass through `release_pending_email` (`ReleaseFind`,
`ReleaseNone`, `ReleaseDelete`), as in the code.  `HandoverOpen` reads whether
the account has another way in, `HandoverCommit` is the transaction.
`assign_primary_email` is one step inside a transaction (`Assigned`) and two
outside (`AssignRead`, `AssignWrite`).  `Admitted` is the unique indexes.

### Confirmation

`session` is the row, `reqs[r].copy` what a request loaded.  `Act` finds the
confirmation and spends it (`ActDo`) or asks for it (`ActRefused`); `Answer`,
`AnswerCount`, `AnswerRight`, `AnswerWrong` are `POST /auth/confirm` and the
provider's callback; `Visit` is any other request of the session; `EndSaved`
writes a modified copy back.

### WsLease

`entries`, `timer`, `running`, `again` are the variables of
`make_ws_lease`; `list` and `found` are the locals of a running check, which
waits at "sessions", "pats" and "decide".  `Authenticate` and `Add` are the two
ends of the upgrade handler, with awaits between them.

### OneTimeCodes

The variable `kind` says whose rows these are: `magic_links` (the guess is at
the row this browser asked for), `email_verify_tokens` and the codes of a
confirmation (the newest row).  `AskRead` and `AskInsert` are the two ends of a
request for a code, with bcrypt between them; `AskSave` is the end of its
response.  A guess is `GuessAdmit` (the counter in memory and the budget,
`is_code_budget_spent`), `GuessRead`, `SpendAttempt` (one UPDATE that counts
and checks the cap), `CompareRight` or `CompareWrong`, and `Consume`.
`OpenLink` comes to the same `Consume` without a guess, and `Revoke` is the
statement of a recovery, a change or a removal.  A confirmation counts failures
as events in the database instead (`RecordFailure`, a statement of its own).

### Doors

A request arrives at a door with a copy of its session's row and meets the two
gates in the order of that door (`First`, `After`): the access rules
(`RulesKnown` when `account_access_refusal` has an answer; `RulesAsk` and
`RulesKeep` around its read when it has none) and the verification gate
(`Verify`, which reads the addresses only if the copy has no
`email_verified_at`, and heals the copy).  Meanwhile `Add`, `VerifyAddress`,
`Connect`, `RemoveRead`/`RemoveCommit`, `ChangeRequest` and `ChangeConfirm`
change the addresses, and `Restart` brings other rules and an empty cache.
History: what the account was at any moment of a request (`seen`), which
addresses were pending or in a change link at the restart (`old`), whether a
denied address left since (`lost`), whether any was ever verified (`ever`).

### Gates, Settings and RequestPath

`Gates` asks of each configuration whether the process starts (`Configure`),
and of each request what it meets: `Judge` of its target, the sign-in its
session came from (`ComeSignedIn`, or `ComeOlder` from before this
configuration), and the answers of the proxy (`ProxyAnswer`), the sidecar
(`SidecarAnswer`) and the upgrade (`AuthenticateWs`) to the same credentials.
`Settings` resolves or refuses what is set, in the order of `make_config`.  In
`RequestPath` a target is a sequence of tokens, with single and double
encodings as tokens of their own; `Served` is the path an upstream acts on that
decodes twice, reads a backslash as a slash, drops `;params` or keeps a
fragment, in every combination.  The path is resolved and its `;params` dropped
by functions on its length (`DotsResolved`, `Bare`), one token at a time.  A
header name is words and separators.

### Startup

`phase` is how far a process is.  `ReadSecret`, `CreateFile` and `WriteSecret`
are `load_secret`: the exclusive open and the write are two steps, and another
process may read, or this one die, in between.  `Connect` is the loop of
attempts; `ListMigrations`, `PickMigration`, `LockMigrations` and
`ApplyMigration` are the loop over the migrations, the last three from how
knex behaves; `FindSeed`, `MakeAccount`, `InsertNames` and `AssignPrimary` are
`bootstrap_users`; `Signal`, `Closed` and `TimeUp` are `express_run`.  `Die` is
possible at any step, and leaves the lock on migrations taken or not; requests
of a process that already serves take and give up the seed's names
(`TakeName`, `GiveUpName`).

## The runs

A run that passes checks every property of its line; a run that ends in a
violation checks one sentence of the documents, of a comment or of a message.

| Run | Question | Bounds, and why they are enough |
|---|---|---|
| `session_store` | may a stale copy bring a session back, change its owner or lengthen it? | 2 requests over 3 ids (a visitor's, the one signed in to, one more), 1 account beside the anonymous owner, 2 ticks of a session's life and 1 of an anonymous one's, so that every one of the three times is the least in some state |
| `recovery` | what made under an old password survives a recovery? | 2 requests, 3 sessions, 1 token, 2 links, 2 passwords written: a race of any two handlers, one of them recovering, with a link left over |
| `email_links` | which links outlive the address they were mailed to, and is the primary one a verified address? | 2 requests, 2 links, 3 addresses and rows (the one held, the one changed to, a third), 3 sealings |
| `second_change` | "a second change link cannot undo the first" | the same; violated |
| `identities` | may a confirmed address be taken off or belong to two, may an older way in survive a handover, may an account lose its primary? | 2 accounts that want 1 address and 1 provider, 3 rows, 1 link, 2 requests, 1 handover each |
| `last_way_kept` | "it is your only sign-in method": may both the address and the provider go? | the same; violated |
| `confirmation` | is an action ever done without its confirmation, or with an old one? | 2 requests of one session, an action with one factor and one with two, 3 ways, a window of one tick and a clock of two moments, 2 right answers, a budget of one wrong answer |
| `ws_lease` | does a check lose a socket, end a good one, or stop? | 2 sockets, a session and a token, 1 failing check |
| `one_time_codes` | does a burst of guesses exceed a cap or the limit on what is counted, does a row take effect twice? | 2 requests, 2 rows, a cap, a budget and a limit of 2 each, a clock of 3 moments with windows of 1 and 2: a guess of one row races with one of the other, and both windows end within the run |
| `doors` | who passes a door, and who is turned away, on what was kept from before? | 2 requests, 2 addresses (one denied and one not), 1 restart with any other rules |
| `gates` | do the doors agree, under every configuration that starts? | 96768 settings over 2 providers (one vouches for addresses, one does not), all targets of up to two tokens (or three of the six that combine) after a public path, 16 kinds of credentials, every header of `FORWARDED_HEADERS` in every spelling, and names of one word or three |
| `startup` | one secret, one seed, only a migrated database served, and an end to every start and stop? | 2 processes started 3 times in all, so that one is started again after it died at any step; 2 attempts, 2 migrations, a username and an address |

Every module's types are proved.  `gates` runs them as well, since its
`GatesTypeOK` says more: a session was opened by a flow that is offered.

Three modules are shown to implement an abstract one, in runs and by proof.
`SessionLife`: a session id goes from unborn to open to settled, and only an open
one gets a row.  `CodeLife`: a code is unborn, out, then over; it takes effect
in the step that ends it, and is compared with no more guesses than its cap.
`Ownership`: what a person signs in with belongs to one account at most, comes
to an account while it is nobody's and leaves it while that account gives
something up.  The mappings are `Life` in `SessionStore` and `OneTimeCodes`, and
`Owned` in `Identities`.

Two requests are enough for every race the hazards name: each is a read of one
handler overtaken by a statement of another, and an ended request is reused, so
the sequences are not bounded by two.  Deadlock is checked except where the
system may stop: in `SessionStore` when the clock is at its bound and the ids
are used up, in `WsLease` when every socket is closed, in `OneTimeCodes` when
the clock is at its bound and the codes are used up or blocked, in `Gates` when
the process refused to start, in `Startup` when the starts are used up.

Symmetry is used for sets of interchangeable model values in runs of safety
and action properties; the runs with liveness (`ws_lease`, `startup`) have
none.

### Fairness

Two modules state any.  In `WsLease` the timer of `setInterval` fires while it is set
(`WF(TimerFires)`); a query is answered or fails (`WF(ReadSessions)`,
`WF(ReadPats)`, `WF(Decide)`, with the failures bounded by `MaxFailures`: "while the
database answers again some day"); a socket that was destroyed emits "close"
(`WF` of `Close` for it).  Nothing is assumed of clients, of revocations, or
of sockets that were not destroyed.

In `Startup` a process runs on (`WF` of each process's `Step`: its own awaits
end, with success or failure), and the timer of ten seconds that a signal sets
goes off (`WF(TimeUp)`).  Nothing is assumed of clients, of signals, of deaths
or of restarts.

## What is proved

The theorems hold for every number of rows, accounts, requests and ticks that
the assumptions of the modules allow, and `Gates` for every configuration over
any providers.  The assumptions are one for each module, named after it:
values that stand for "no row" are not rows, bounds are naturals, in
`Confirmation` and `OneTimeCodes` the ways and the requests are finite sets, an
address is no provider's subject (`Identities`), a secret or an account a start
makes is none that stands for another (`Startup`), the providers that vouch
for addresses are no other flow (`Settings`), and targets, paths and header names
are sequences of tokens (`RequestPath`, `Gates`).

Every proof has one shape: the invariant `IInv` (or `GatesInv`,
`StartupInv`, since one proof module extends two components there and their
names must differ) holds initially, each action preserves it, and it implies
the claim.  TLC checked each of them on the run's states before it was proved.

**SessionStoreProofs.**  `TypeCorrect`, `RevocationIsFinal`, `OwnerIsFixed`,
`UseIsCapped`, and `Refinement`: the store implements `SessionLife`.  The
inductive invariant is `IInv == TypeOK /\ IdsInv /\ OwnerInv /\ AgeInv`.
That a revoked row never returns needs `IdsInv` (an id with a row or a copy
was minted; no request holds a fresh copy of a settled id); that a session
keeps its owner needs `OwnerInv` (every copy of an id agrees with its first
owner, and one request at most holds it fresh); the cap on its expiry needs
`AgeInv` (no copy is younger than its row).

**RecoveryProofs.**  `TypeCorrect`, `RecoveryEndsTheOld`
(`SurvivorsWereInFlight`) and `RecoveryCannotBeUndone` (`RecoveryIsFinal`).
`IInv == TypeOK /\ LinksInv /\ BoundInv /\ OwnInv /\ PassedInv`: a link that is
out was issued after the last sealing; nothing is under a password not written
yet; a change keeps exactly the session it made; and the claim itself holds
already between the statements of a change (`PassedInv`), which is what makes
it inductive.

**EmailLinksProofs.**  `TypeCorrect`, `PrimaryStaysVerified`
(`PrimaryIsVerified`), `StrayLinksAreRare` (`StrayLinksWereInFlight`) and
`LinksEndOnce` (`ConsumedAlive`).  `IInv == TypeOK /\ RowsInv /\ HeldInv /\
LinksInv /\ StrayInv`.  `RowsInv` adds the unique indexes to the claim about the
primary: without them a second primary could be the unverified one.  `HeldInv`:
a handler holds what it read.  `LinksInv`: every link that is out was issued
since the last kill, and a handler's copy says when.  `StrayInv`: the claim
about stray links, of the requests about to insert one too.  `Assigned` is what
`assign_primary_email()` promises of any table.

**IdentitiesProofs.**  `TypeCorrect`, `OlderWays` (`OlderWaysWereInFlight`),
`PrimaryAssigned` (`PrimaryUnlessFailed`), `ConfirmedStays`
(`ConfirmedNeverYields`) and `Refinement`: the tables implement `Ownership`.  `IInv == TypeOK /\ RowsInv /\ LinksInv /\ FreshInv /\
ReqsInv /\ PrimaryInv`.  `RowsInv`: a row belongs to an account there is, a
primary address is a verified one, and a verified row made before the last
handover is one that was late.  `ReqsInv` says what a request knows at each
step: the row it read is still that row or gone or changed as the statements
of others may change it (`HeldOK`), and while the link of a handover is out,
its account has no other way in but late ones (`HandOK`).  `PrimaryInv` is the claim, with the
requests that are about to assign the primary; without the unique indexes
(`Admitted`), which the rows keep under every insert, it would not be
inductive.  `ConfirmedStays` needs `HeldOK`: a disconnect and a
removal delete by the id of a row they read a statement before.  The refinement
rests on what a step does to the rows (`WhatComes`): it keeps all that is
confirmed and confirms rows of one account at most, or takes one row, of the
account that asked.  What comes was nobody's because the unique indexes hold
of it together with what stayed.

**ProcessProofs.**  Of a serving process, `WsLease`: `TypeCorrect`,
`LeaseStaysSet`, `GoodSocketsStay` and `CoalescingIsSafe`.  `IInv` adds that a
running check has found what is good of its list so far (`FoundInv`), and that
a socket whose end was promised is dead and known (`PromisedInv`).  Of a
starting one, `Startup`: `StartupTypeCorrect`, `SecretIsShared`
(`SecretsAgree`), `MigratedBeforeServing` (`ServesMigrated`) and `SeedIsOne`
(`SeedStaysTogether`).  Of both, what their liveness rests on:
`DeadSocketsAreCaught` and `StartsGoOn` (below).
`StartupInv == StartupTypeOK /\ StartedInv /\ SecretInv /\ MigrationsInv /\
SeedInv /\ SeedStaysTogether`.  `SecretInv`: one process at most is between
making the file and writing it, and the file is empty then.  `MigrationsInv`:
the rounds a process has left are as many as there are migrations left, and
one round more when the one it picked has been applied meanwhile; so the loop,
which counts what it listed at its start, cannot end early.  `SeedInv`: whoever
is about to insert names finds them all held, or those that a seed holds held
by its own account; the names are inserted in one statement, which leaves those
that are held, so the first seed to insert one inserts all that are free.

**ConfirmationProofs.**  `TypeCorrect`, `ActionsAreConfirmed`
(`ActionsWereConfirmed`), `LastAnswersAreRecent` (`LastAnswerIsRecent`) and
`WrongAnswersStayBounded` (`WrongAnswersAreBounded`).  `IInv == TypeOK /\ KeptInv /\
BudgetInv`.  `KeptInv`: whatever any copy of the session claims, the owner did
give, for that ask; it must be said of every copy, since any of them may be
written back.  `BudgetInv`: the answers that were let in and not judged yet
hold their place in the budget; it is what the bound of the wrong answers
rests on, since by themselves they may jump past it.

**OneTimeCodesProofs.**  `TypeCorrect`, `CapsHold` (`CapHolds`), `CodesEndOnce`
(`EndsOnce`), `FailuresStayBounded` (`FailuresBounded`),
`CountedGuessesStayBounded` (`CountedGuessesBounded`) and `Refinement`: the rows
implement `CodeLife`.  `IInv == TypeOK /\ CapInv /\ EndInv /\ FailInv /\
BudgetInv`.  `CapInv` counts a code's guesses with the requests
that have spent one and not compared it; `EndInv` says that a row that took
effect, or was revoked, is used, and that a revoked one never took effect;
`FailInv` is the same argument as `BudgetInv` above, over the requests between
their admission and their failure.  `BudgetInv` is that argument over all the
rows of one address that the code counts, unused and within the window: the
requests that were let in and have not spent their guess hold their place below
the budget, and a row that leaves the sum only lowers it.  The sum of the rows'
counters, which the code asks of SQL, is the number of pairs of a row and a
guess at it (`Guesses`), since the provers see nothing in a fold over them.

**DoorsProofs.**  `TypeCorrect`, `AnswersAreHonest`
(`StaleAnswersPredateRules`), `PassersStood` (`WhoPassesStood`) and
`TurnedAwayFell` (`WhoIsTurnedAwayFell`).  `IInv == TypeOK /\ RulesInv /\ EverInv
/\ SeenInv`.  `RulesInv`: no address under way is denied but one that was under
way at the restart; it is why an answer goes wrong no other way.  `EverInv`: a
snapshot that says verified was true once.  `SeenInv` is about each request: it
has seen what the account is now, has passed the gates before the one it is at,
and carries an answer that was honest.  All of it is stated of a record
(`World`) of what the claims depend on, so that one lemma (`AccountStep`)
serves every change of addresses and one (`LocalStep`) every step of a request.

Of `Gates`, in the same module: `GatesTypeCorrect`, `DoorsAnswerAlike`
(`DoorsAgree`), `EntrantsAreProven` (`WhoEntersIsProven`), `OfferedIsServed`
(`FlowsAreServed`), `PublicToUpstreams`, `OptionalToUpstreams` and `NobodyPretends`.  `GatesInv == GatesTypeOK /\ ConfigInv /\ ToldInv /\
SessionInv`.  `ConfigInv` is what `make_config` promises of what it accepts:
each flow has what it needs, and a flow that lets somebody in before an address
is proven holds them when there is an allow list.  `ToldInv`: the sidecar is
told the class of the target, or a stricter one.  `SessionInv`: whom a sign-in
of this configuration let in has proven an address, or is held until they do.
That the proxy and the sidecar answer alike is then two lemmas, each with an
answer's cases on one side (`SidecarIsProxy`, `UpgradeIsProxy`).  Writing them
found four definitions whose CASE guards overlapped: TLC takes the first branch
that holds, as the code does, but the meaning of such a CASE is any of them.
They are nested conditions now, in the order of the code.

What an upstream acts on is computed token by token, so `PublicToUpstreams`
(`PublicAsServed`) and `OptionalToUpstreams` are inductions over a target.  The
library's induction theorems take operators, which no installed prover
instantiates; but the naturals are well-founded (`NatLessThanWellFounded`), which
`WFMin` says of sets, and from it follow induction over the set of numbers a
claim holds of (`SetInduction`) and that a function defined by recursion exists
(`Recursion`).  That is why `RequestPath` is written in recursive functions whose
steps have names (`OutStep`, `KeptStep`).  The argument is then the code's own: a
path `canonical_path` takes decodes to itself (`DecodedOnce`), resolving the dots
of a normal path leaves it as it is (`NormalResolves`), and dropping ";params"
leaves what comes before the first ";" (`BareKeeps`), so what a plain entry
matches it still matches.  Both theorems say "if no path holds a ;" of upstreams
that drop ";params": `parse_paths` splits a text at ";" but takes a list of
`settings.yml` as it is, and such an entry would be served as another path.
`NobodyPretends` (`NothingIsPretended`) holds of any names a client may send: a
name that reads as one of Authwall's when its dashes are read as underscores is,
or begins with, that one when its underscores are read as dashes, since none of
Authwall's holds an underscore (`FoldedBegins`, `ReadAsFolded`).

Only model-checked: the liveness `DeadSocketsEnd`, `StartEnds` and `ClosingEnds`,
which need fairness and `ENABLED`, and the violations, which are
counterexamples.  Of the first two, the part that is not about fairness is
proved, as action properties.  `StartsGoOn`: each step of a starting process
lowers the number of steps it has ahead (`Left`), for any number of attempts and
migrations, and nobody else's step raises it; it needs that a file once there
stays (`AgainInv`).  `DeadSocketsAreCaught`: a dead socket stays known until it
is closed, the timer has it listed or asks for a check that will, and a check
that lists it destroys it unless a read fails.  What TLC adds is that the steps
are taken.

## What the runs found

Each is a `findings` entry of `PROJECT.json`, with the line where it bites and
the sentence it contradicts.

- Two change links opened at once both take effect (`SecondChangeCannotUndo`).
- A removal and a disconnect, each counting the other's row, leave an account
  with no way in (`LastWayIsKept`).

The passing properties say how far each race reaches: what survives a recovery,
a handover or a removal is only what was in flight while it took place
(`SurvivorsWereInFlight`, `OlderWaysWereInFlight`, `StrayLinksWereInFlight`).

Behaviours the models contain that disagree with a sentence of the documents,
or may surprise, and that have no run of their own:

- A sign-in that compared the old password writes its session after a reset
  (`password.js:324-325`: "Nothing observes the new password beside a surviving
  old credential").
- A socket whose upgrade is in flight stays open after the request that revoked
  its session is done, until the timer (`docs/config.md:319-321`: "close it as
  soon as that request is done").
- Two requests that loaded one confirmation both spend it
  (`docs/security.md:159-160`: "that action spends it, and the next one asks
  again"), and the first of two ways may be older than the window
  (`docs/security.md:158-159`: "within ten minutes"): `ActionsWereConfirmed` and
  `LastAnswerIsRecent` exclude neither.
- A remembered answer may be wrong after an address that was pending at a
  restart with other rules is verified (`account_access_refusal.js:11-13`:
  "every address is checked against them before it joins an account");
  `StaleAnswersPredateRules` says for which addresses.
- The budget of an address is not kept the way the documents say: "10 wrong
  sign-in codes, or 10 wrong verification codes, per hour.  After that every
  code for the address is refused, the right one too, until the wrong guesses
  are an hour old" (`docs/security.md:107-111`; "counted across all its codes",
  `tests/api/stories/code_guessing_budget.md:10-13`).
  `is_code_budget_spent.js:11-18` sums the attempts of the rows that are unused
  and were made within the hour.  Wrong guesses at a row leave the sum when its
  link is opened, its code guessed or the row revoked
  (`revoke_pending_tokens.js:11`), and a guess late in a code's life leaves it
  with the row, before the guess is an hour old; a code can then be tried though
  ten wrong ones were, within the hour.  Besides, a burst exceeds the budget by
  as many guesses as are let in together.  `CountedGuessesBounded` says how far
  a burst reaches, of the guesses the code counts; of the wrong guesses of an
  hour it says nothing: those are bounded by the caps of the rows and, of one
  client in one process, by the counter in memory.
- What a password change that failed half way leaves of the old password's
  sessions, links and tokens stays (`complete_password_change.js:28`);
  `SurvivorsWereInFlight` is about recoveries that completed.
- With any provider configured, `AUTHWALL_FLOWS=auto` enables the providers and
  nothing else (`Settings.EnabledFlows`; `docs/config.md:914`: "every flow whose
  prerequisites are already in place is enabled").
- `AUTHWALL_CONFIRM_EMAIL=off` with confirmation required, and Facebook with an
  allow list and no mailer, both start and then hold users who have no way to
  confirm.
- A process that dies between opening `secret.key` and writing it leaves an
  empty file, at which every later start ends until somebody removes it.
- A removal that found an address unverified deletes it by its id, though it
  was verified meanwhile (`email_remove.js:81`).
- A session revoked before the response of the request that made it ended is
  written again at that end (`SessionLife` leaves an open id free to do so); a
  reset link inserted after its address left still resets the password; and a
  provider connected while a handover is decided stays with the account handed
  over.

## Abstractions

- A transaction is one action.  What a concurrent statement reads of an
  uncommitted transaction is what it read before it, as under MySQL's
  snapshot reads; two reads of one transaction see one state.
- Expiry is a clock where a property is about it (`SessionStore`,
  `Confirmation`) and otherwise an action that may happen at any time.
  Resend cooldowns and rate limits are left out: every request they refuse is a
  request that does nothing.
- The id of a row is reused once no row and no request has it; the database
  never reuses one, and no property tells the two apart.
- `Identities`: one provider; whether the confirmation window of a pending
  address has passed is left open (it may have); the two reads of
  `release_pending_email` are one step; a mailbox can be read at any time, so
  `magic_links` has no rows; the change of an address and the removal of an
  account are left out; a sign-up always has an address, and the run allows no
  username.  Whether a connect was confirmed by the owner is left to
  `Confirmation`.
- `Confirmation`: one session of one account; failures are never forgotten
  (the code forgets them after fifteen minutes, and starts the same budget
  anew); the code that was mailed is right or wrong; a provider's wrong answers
  are left out once the confirmation is locked.
- `Recovery`: one account; the fields, the access rules and the mails are left
  out.
- `WsLease`: one process; a credential that is gone stays gone.
- `OneTimeCodes`: rows of one address at a time; a guess is right or wrong;
  the timer that deletes a counter's entry is left out, since an entry whose
  window is over counts as none; the other rate limits are left out.
- `Doors`: one process, one account and one of its sessions; the rules are the
  set of addresses they deny; the approval of a change by the primary address
  and the confirmations are left out (`EmailLinks`, `Confirmation`).
- `Gates`: nothing interleaves; an account's addresses are "none verified", one
  the rules deny, or all pass; targets and header names are made of tokens, of
  which TLC is given a few and the proofs any; the rate limit of unknown tokens and the cookie's
  `same_site` are left out.
- `Startup`: `AUTHWALL_SECRET` set, processes with different seeds, and an older
  version beside a database with newer migrations are left out; a migration is
  applied whole.

Bounds that are in guards are `MaxTime`, `MaxAnswers`, `MaxVersion`,
`MaxSealed`, `MaxEra`, `MaxFailures`, `MaxCodes`, `MaxRestarts`, `MaxStarts`,
and in `Confirmation` the number of
failures, at most the budget with one for each request.

## What is not modelled

`PROJECT.json` lists each part with the reason.  The mailer, the HTTP clients
of the providers, the renderers, the logger, the command line and the front
end are input and output.  Of the configuration, the parsing of single values
is left out: it has no state and no interplay.  The removal of an account, a
sign-up with a username alone and the OAuth state parameter are not modelled
yet.

## Plan

1. Done: the modules above, and a proof of every invariant and action property
   the runs check.
2. The removal of an account, composed with sessions, tokens and identities.
3. A sign-up with a username alone, and the OAuth state with its two copies of
   the session.
