# Verification of card-issuer-api

TLA+ models of the card issuer's concurrent and fault-prone core: the batch
and expiry executor, the card commands with their credential vault, the
authorization verifier, staff sessions and what they permit, the reference
data that cards refer to and its lists, and the provisioning of banks. TLC
checks the models on small instances (`*.cfg`); TLAPS proves their safety
properties for every instance (section 4).

`PROJECT.json` lists components, runs, mutants, the map from definitions to
source lines, findings, hazards and theorems. Paths below are relative to the
repository.

## 1. The system

The API is a set of stateless Go processes over two kinds of PostgreSQL
databases: one *control* database (users, sessions, routes of banks,
idempotency of central commands) and *shard* databases (a bank's cards,
batches, expiry runs, audit). Everything that must survive or be agreed on is
in the tables; processes share nothing else, so what can go wrong is in the
order in which their transactions, their remote calls and their crashes fall.

| Component | State | Operations | Interacts with |
|---|---|---|---|
| Lifecycle (`internal/domain/lifecycle.go`) | none | `Transition`, `CanTransition` | used by commands and batches |
| Batches (`internal/batch`, `repository/shard`) | `card_status_batches`, items, operations | create, execute, cancel, retry | executor, cards |
| Executor (`internal/executor`, `executor_store.go`) | leases in the rows; slot counters and rotation in memory | recover, claim, authorize, apply, requeue, fail, drain at shutdown | control database (users, routes), cards |
| Daily expiry (`executor_store.go`, triggers) | `card_expiry_runs`, items | ensure run, claim, apply, requeue, recover, complete, manual retry | cards |
| Card commands (`internal/card`) | `cards`, history, `idempotency_records` | issue, activate, suspend, resume, close, replace | vault, expiry |
| Vault (`internal/vault`, `cmd/devvault`) | credentials by card UUID | provision, verify, revoke | commands, verifier |
| Authorization verifier (`internal/authorization`) | `authorization_verifications` | verify | vault, cards |
| Authentication (`internal/auth`) | `users`, `auth_sessions`, `refresh_tokens`; signed access tokens with the clients | login, refresh, logout, change password, validate | staff administration, every handler |
| Staff (`internal/staff`) | `users` | create, change role or status, set password | sessions through `auth_version` |
| Banks (`internal/bank`) | routes (control), entities (shard), `command_idempotency_records` | provision (a saga of three transactions), patch | executor and tenants through routes |
| Catalog (`internal/catalog`, `repository/shard`) | `card_products`, `clients`, `account_references` | create, patch | issuance of cards |
| Login admission (`internal/server/login_admission.go`) | attempts per address | allow | login |
| HTTP handlers and tenant (`internal/server`, `internal/tenant`) | cursors with the clients | role and scope checks, pages of a list | all services |
| OpenAPI, configuration, PKI | none | see "Not modelled" | |

What is hard, and where a test hardly gets, is the list of hazards in
`PROJECT.json`: stale workers and leases that run out inside a transaction,
commits whose acknowledgement is lost, reads in one database used in another,
write skew between transactions that look at each other's rows, compensation
of remote calls, sagas that stop half-way, slots shared by banks, a signal in
the middle of a cycle, tokens that outlive what they attest, and lists read
page by page while rows with earlier times are committed.

What makes each component correct:

- batches: all or nothing, applied once, final once settled, applied only for
  a requester who was seen to be entitled, settled in the end;
- expiry: a card is expired by exactly one item, retries are bounded, results
  are final, runs account for their items, items settle;
- commands: once per key and window, one answer per key, no lost or exposed
  credential, one card in another's place;
- verifier: one decision per reference, earned approvals only;
- sessions: families are chains, reuse revokes, nothing outlives a change of
  the user;
- access: a permission rests on a grant that its user has, or had within the
  lifetime of a token; logins are refused only for a reason;
- lists: a client that follows the cursors is given every row once;
- catalog: cards and accounts agree on their client, a configuration version
  names one configuration, references are created once;
- banks: not opened by the saga before they are complete, one bank per key, resumable;
- executor cycle: exact counters, no bank starves while slots come free, nothing claimed after a
  cancellation but what was under way, an end to every shutdown.

## 2. Modules

| Module | Models | Runs |
|---|---|---|
| `CardLifecycle` | transition tables | (used by the others) |
| `AtomicBatch` | abstract: what a batch promises | refinement target |
| `CardStatusBatch` | batches from request to verdict, under crashing executors | `batch_*` |
| `CardStatusBatchProofs` | theorems: leases, fencing, locked reads | TLAPS |
| `CardStatusBatchResults` | theorems: results, histories, retries, refinement, authorization | TLAPS |
| `ExpiryRun` | daily expiry with trigger guards | `expiry_*` |
| `ExpiryRunProofs` | theorems about it | TLAPS |
| `AtomicCommand` | abstract: what a card command promises its callers | refinement target |
| `CardCommands` | card commands, idempotency records, vault | `cards_commands` |
| `CardAuthorization` | the verifier, composed with `CardCommands` (EXTENDS) | `verify_decisions` |
| `CardCommandsProofs` | theorems about the commands and about the verifier beside them | TLAPS |
| `CardRowLocks` | `CardCommands` beside the row locks of one batch, and the history as it is read | (departures) |
| `AuthSession` | sessions and refresh tokens against staff changes | `auth_sessions` |
| `LoginAdmission` | the limiter of logins: its table as a value, `allow` as an operator | `auth_sessions` |
| `StaffAccess` | `AuthSession` and `LoginAdmission` composed, with access tokens and permissions | `auth_sessions` |
| `StaffAccessProofs` | theorems about sessions, permissions and refusals | TLAPS |
| `ReferenceCatalog` | products, clients, accounts and the cards issued for them | `catalog_references` |
| `ReferenceCatalogProofs` | theorems about it and about its lists | TLAPS |
| `Pages` | cursor pagination: order, cursor, page | `catalog_references` |
| `CatalogListing` | a client that pages through the lists of `ReferenceCatalog` | `catalog_references` |
| `BankProvisioning` | the two-database saga | `banks_saga` |
| `BankProvisioningProofs` | theorems about it | TLAPS |
| `BankListing` | an operator who pages through the banks of `BankProvisioning` | (departure) |
| `ExecutorCycle` | polling cycle, rotation, slots, shutdown | `cycle_slots` |
| `ExecutorCycleProofs` | theorems about it | TLAPS |

Each `MC*` module gives the constants of its instances (the banks need none). Definitions named as
a mutation ("Mutation of X: ...") are not part of any specification; they
are plausible faults of X against which the properties were tried.

### CardStatusBatch

`row` and `request` are the mutable and the immutable columns of
`card_status_batches`; `outcome` and `operation` belong to its items;
`worker[w]` is a `runBatch` goroutine with what it has in hand (claim, lease
version, verdict of the authorization, card states read); `cycle[e]` is the
daemon's place in its loop. `row[b].current` says whether `lease_expires_at`
is in the future. Each transaction is one action unless it waits or can be
interrupted in between: `ApplyBatch` is `ApplyVerify` (lease check, row lock),
`ApplyLockCards` (card locks, reads) and `ApplyCommit`; a worker in between
holds its locks, and every action that needs them waits (`BatchLocked`,
`CardLocked`) or, with SKIP LOCKED, passes by. `LeaseExpires` may happen at
any time, inside the transaction too. Errors are classified as `IsTransient`
does (`AfterError`), and the reports `FailBatch` and `RequeueBatch` can be
lost. `ApplyCommitUnacknowledged` commits and then follows the error path.
Dead daemons lose their goroutines and locks and start again.

Abstractions: serialization failures, deadlock aborts and broken connections
are the nondeterministic `ApplyError`; the claim order among due batches is
free; activation by an individual command takes card and predecessor at once.

### ExpiryRun

`run[d]` and `item[<<d, c>>]` are the rows of one UTC day; the guards of
`guard_expiry_run` and `guard_expiry_run_item` are conjuncts, and where the
trigger raises, a separate action (`ClaimRaises`, `EnsureRaises`,
`RecoverRaises`) ends the process as `Run` does. `worker` is a `runExpiry`
goroutine whose transaction stores its snapshot of the counts before it
commits, which is where READ COMMITTED lets two of them miss each other, and
where a manual retry (`RetryExpiryItem`, `RetryCommit`) slips in between.
`run[d].late` is a ghost: the cards whose retry found the run not yet
completed, since it was last reopened. `BeforeRetry` restores the status such
an item had, which is how the run may have counted it.
`EnsureExpiryRun` and `RecoverExpiryItems` are one step each.

### CardCommands and CardAuthorization

`req[r]` is a handler with its step, the locks it holds and its result;
`records` the committed idempotency records; `vault` what the vault holds for
a card UUID. The actor is part of the key; whether the references of an issue
are valid is an input. Vault calls may fail before or after they take effect;
the vault is durable. A request dies in `Crash`. `WindowCloses` ends a key's
replay window; no single request lasts longer than a window. The verifier
adds `decisions` and `ver`: it locks the reference, asks the vault, reads the
card without a lock and inserts the decision, which waits for a writer of the
card (foreign key); insertion and commit are one step.

`AtomicCommand` is the same seen by the callers: there a command takes effect
in one step, judged on the cards of that step (`Create`, `Replaceable`,
`Move`), not again while its key is remembered (`TakeEffect`), and a request
is told of what took effect under its key (`Tell`). The mapping takes the
outcomes from the completed records within their windows (`Outcomes`) and the
reports from the successful answers (`Reports`).

### AuthSession

All handlers take the user's row lock first, so the locks of session and
token that follow are not represented. `LookupRefresh` is the read before the
transaction. `Guarded` is the trigger that raises `auth_version`. Expiry of a
session is an event. A staff replay changes nothing and is a stuttering step.

### LoginAdmission and StaffAccess

`Allow` is the whole of `allow`, which runs under one mutex, as a function of
the table, the address and the time; the time is read in `Arrive`, before the
mutex, and used in `Admit`, so times reach the table out of order. A login of
`AuthSession` begins only when it was admitted (`MayBegin`), a change of
password only for the bearer of a valid access token. `access[q]` is the token
of handler q: it takes role and bank from what the transaction read
(`committed`), is signed in a later step (`Issue`), and is valid for
`AccessLifetime` from then (`Validate`). A member of `Roles` is here a role
with its bank. `Permitted` puts together the checks of the handlers
(`RoleAllows`) and of the tenant service (`CanRead`); `Entitles` is the table
of roles of `card-issuer-architecture.md:93`, written down independently, and
`held` remembers when a grant was lost. A change of password by the bearer is
another request of the same user. Tokens are unforgeable by construction.

### ReferenceCatalog

`product`, `client` and `account` are the committed rows, `cards` what cards
refer to. A workflow is one transaction under an idempotency key: claim, one
insert or update, commit; its write is kept in `req[r].write` until the commit
publishes it. Two kinds of row locks matter. A written row is locked for other
writers (`RowLocked`); the foreign key of a new card takes a key-share lock on
its account (`share`), which excludes an update only if that changes the
account's client, since (client, account) is the key referred to. Unique and
foreign keys that fail end the request. Issuance is reduced to what concerns
references: the validation without a lock, before the vault is called, and
the insert after it; the vault itself is in `CardCommands`. Names of products
and audit rows are left out.

### Pages, CatalogListing and BankListing

`PageOf` is `collection`: it orders nothing itself, looks for the first
element after the cursor in the order of creation time and id, cuts a page
and makes the next cursor of its last element. A cursor is bound to its
collection (`Serves`); that it is signed is left out. `CatalogListing` lets
one client walk through a list, with any page size at each page, while the
requests of `ReferenceCatalog` go on. Rows carry `now()`, the time their
transaction began, so a row may appear behind the client's cursor at any time.
What is promised is modest, and holds: every row that was there when the walk
began, none twice. `BankListing` does the same over `BankProvisioning`, where
the order of the list and the key of the cursor come from two tables.

### CardRowLocks

One batch locks its cards one by one in the order of their ids (`NextLock`)
while requests of `CardCommands` lock theirs; neither takes what the other
holds. PostgreSQL's deadlock detector aborts either side. `stamps` are the
`created_at` of the history. Lease, items and operations of the batch are in
`CardStatusBatch`.

### BankProvisioning

`req[r].pc` walks through the claim and the three commits; `StepFails` stops
anywhere, `CommitUnacknowledged` after a commit, `Retry` sends the request
again. The unique violation of a concurrent first claim is the failure branch
of `InsertRecord`. A patch may name any bank at any time: without a route it
is refused (`PatchRefused`); with one, which may still be provisioning, its
first commit sets the placement, and the shard then refuses it if the entity
is not there yet (`ShardRefuses`). Names of banks are left out; a provision
record is never committed in the state `{}`.

### ExecutorCycle

Only the amount of claimable work is kept. Reserving, claiming and handing on
a slot are separate steps, and goroutines end in between. `Cancel` (SIGTERM)
may come anywhere. After it a claim fails (`ClaimCancelled`), except that the
one under way (`inCall`) may still succeed, or commit and report the
cancellation (`ClaimForgotten`); `Run` ignores the error, drains
(`BeginDrain`), and returns when the goroutines have ended or the timeout has
passed (`EndDrain`). Any other error ends `Run` at once (`CycleFails`). The
process exits when the pools are closed, or is killed (`Exit`); the counters
start again at zero and leases bring work back. Lists of routes, scheduling
of expiry and recovery at the start of a cycle are one step.

## 3. Runs

`tlc -config <run>.cfg <module>`; module, properties and mutants of each run
are in `PROJECT.json`. Passing runs:

| Run | Question | Instance |
|---|---|---|
| `batch_fencing` | Are workers fenced, attempts past the limit owed to faults, results all-or-nothing, applied once and final, and is the whole an implementation of `AtomicBatch`? | one batch of up to two cards, two daemons, two faults |
| `batch_overlap` | Do histories chain, and chains of retries apply once when batches, retries, activation and expiry overlap? | two batches, a card and its replacement, two goroutines |
| `batch_settled` | Is a batch applied only under grants seen after its claim, and is every dispatched batch settled? | every kind of user row, pausing routes, two faults, fairness |
| `expiry_days` | Is a card expired exactly once over two days' runs, are attempts bounded, do completed runs account for their items beside manual retries, are results final? | a card due on each of two days, two daemons, an automatic and a manual retry per item, two faults |
| `expiry_run` | Do items settle? | one day, cards being closed, goroutines dying, fairness |
| `cards_commands` | Once per key and window with one answer, credentials accounted for, one card in another's place, connected history, no circular wait, and in all an implementation of `AtomicCommand`? | two requests, all six commands, a card with its successor and two free UUIDs, two keys, two bodies, two faults, one window end |
| `verify_decisions` | One decision per reference, earned approvals, no circular wait? | two verifications beside two commands with two bodies under one key |
| `auth_sessions` | Chains, reuse, no family outliving a change? Permissions only for grants held within a token's lifetime? Logins refused only for a reason? | three handlers of one user, two refresh tokens, an issuer and a bank role, two banks, two addresses for one place in the table, two units of time, one change, one fault |
| `catalog_references` | Do cards and their accounts keep the same client, does a version name one configuration, is a reference created once, is a list that is paged through meanwhile complete? | two requests of eleven kinds, two keys, pages of one and two rows, two times, a product, two clients and an account at first, one fault, one window end |
| `banks_saga` | Opened by the saga only when complete, no success for an incomplete bank, one bank per key, interrupted sagas completed by repetition? | three requests that provision or patch, one key, one fault, one window end, fairness |
| `cycle_slots` | Are the counters exact, does the rotation serve every bank as long as cycles begin with a free slot, are late claims bounded, does every shutdown end? | two banks that share two slots, either of which may take both, one SIGTERM, one failure or kill, fairness |

One run ends in a violation (a finding of `PROJECT.json`):

| Run | What happens |
|---|---|
| `expiry_poison` | an item of an earlier day whose card has since expired raises at every claim and ends every cycle, so other items of the bank never settle |

Each passing property is paired with a mutant: a plausible fault of one
mapped definition under which TLC finds the property violated.

### Departures

Thirteen more configurations, two rows with another invariant in place of the
one in the file, show that a statement of the repository, or what a reader takes
from it, is not what the code does. TLC reports the named property violated; they are kept so that a change of the code, followed
in the model, can be checked against them. Docs are in `docs/`.

| Configuration (property) | What the repository says | What the code does |
|---|---|---|
| `batch_attempts` (`AttemptsBounded`) | "Retries are bounded and use backoff." (`card-issuer-architecture-and-security-summary.md:25`) | recovery of an outlived lease requeues without looking at the attempt count (`executor_store.go:59`); only `RequeueBatch`'s caller does. `AttemptsAccounted` states the bound that holds |
| `batch_successor` (`SuccessorReplacesPredecessor`) | "The old card keeps its identity and history until activation of the successor closes it. Batch status updates use the same centrally validated lifecycle rules" (`database-design.md:92`) | a batch activates a replacement and leaves its predecessor as it is (`executor_store.go:122`) |
| `batch_bank` (`BankEligibleAtExecution`) | "start the shard execution transaction, lock the batch, verify worker ownership and bank eligibility" (`database-design.md:190`) | the route is read before, in the other database, and may be paused in between (`executor_store.go:204`) |
| `expiry_reopen` (`CompletedRunsAreExact`) | "Completed expiry runs require exact terminal item counts" (`database/migrations/shard/001_initial.sql:691`) | a manual retry that saw the run processing commits beside its completion: a completed run with a pending item (`repository/shard/reader.go:635`). `CompletedRunsAreSettled` states that nothing else can be missed |
| `expiry_skew` (`SettledRunsAreCounted`) | the aggregate is expected as soon as the items have their results (`internal/integration/environment_test.go:610`); "exact terminal aggregate counts" (`card-issuer-architecture.md:233`) | the last two items end at once, each sees the other open, nobody completes the run (`executor_store.go:420`) |
| `cards_commands`, with this as its invariant (`NoRemoteCallUnderLock`) | "Never hold a card-update transaction open while making remote service calls." (`database-design.md:198`) | replacement provisions the new credential with the old card locked (`internal/card/service.go:205`) |
| `cards_unacknowledged` (`CommittedCardsKeepCredentials`) | "Successful commits do not revoke credentials." (`list of improvements or follow ups.md:114`, in the root directory); the issuer "reconciles uncertain outcomes by card UUID" (`card-issuer-architecture.md:48`) | the deferred function revokes whenever `Commit` returned an error, also when only the acknowledgement was lost; a replay then reports a card without credential (`internal/card/service.go:104`) |
| `cards_deadlock` (`NoDeadlock`) | "the executor locks cards in deterministic UUID order" (`card-issuer-architecture.md:184`), which keeps batches out of deadlocks with each other | an activation locks the successor and then its predecessor, whatever their ids (`repository/shard/reader.go:595`); PostgreSQL aborts the batch, which is retried, or the command, which fails |
| `cards_history` (`HistoryReadsInOrder`) | the history is read by `created_at DESC, id DESC` (`database-design.md:235`), as the order of events | `created_at` is the time the transaction began, before it waited for the card: the later of two transitions can be listed as the earlier (`repository/shard/reader.go:113`) |
| `auth_stale` (`StalePermissionBounded`) | "The accepted stale-permission window is bounded by the remaining 15-minute access-token lifetime." (`database-design.md:394`) | the token is signed after the commit that read the user, with a lifetime that starts then; a change in between extends the window by the delay (`internal/auth/service.go:172`). `AuthorityWasHeld` states the bound that holds |
| `banks_listing` (`BankPagesComplete`) | "Cursors are opaque and ordered by immutable creation time plus ID." (`card-issuer-architecture.md:65`) | the directory is ordered by the creation of the routes, its cursor holds the creation of the entity: of two banks provisioned at once one can be passed over (`internal/bank/service.go:41`) |
| `banks_duplicate` (`PatchAppliedOnce`) | "repeated commands do not create duplicate records or duplicate business operations" (`card-issuer-architecture-and-security-summary.md:82`) | a patch repeated while the first is under way is applied and audited twice (`internal/bank/service.go:155`) |
| `banks_duplicate`, with this as its invariant (`EntityBeforeRoute`) | "Bank provisioning must complete its local shard setup before the control directory makes that bank routable." (`card-issuer-architecture-and-security-summary.md:49`) | a patch of the status of a bank that is still provisioning makes it routable, and then fails for want of the entity (`internal/bank/service.go:159`). No list shows the id of such a bank, but nothing checks it. `RoutableHasEntity` states what holds |
| `cycle_starvation` (`BusyBanksLeaveRoom`) | "A busy bank must not indefinitely starve others." (`database-design.md:292`) | with fewer slots than banks the rotation can meet a bank only when no slot is free (`internal/executor/service.go:251`). `BatchesServed` states what the rotation does achieve |
| `cycle_expiry` (`ItemsServed`) | "The executor runs three independently bounded loops" (`card-issuer-architecture.md:194`) | batches and expiry items share the slots; with one per bank, batches keep items waiting for ever (`internal/executor/service.go:106`) |

`CHECK_DEADLOCK FALSE` where every request is done, every bound used up or
every executor idle with nothing left: these systems may stop there. Circular
waits are looked for instead by `SomeoneCanProceed` (waits end, `WaitsEnd`, and
a handler under way that waits for nobody can take a step if a fresh UUID is
left) and by `VerifiersCanProceed` (a verification that waits has behind its
reference one that does not, or one that waits for a card command under way).

**Bounds.** `MaxFaults` bounds crashes, lost acknowledgements, failed calls
and leases that run out under a live worker: every scenario above needs one
or two. `MaxHistory` bounds card commands, `MaxWindows` ends of replay
windows, `MaxChanges` changes by staff or of routes, `MaxBacklog` waiting
work, `MaxManual` manual retries of an item, `MaxStops` SIGTERMs, `MaxTime`
the clock of tokens, logins and lists. `AutomaticRetries` is a constant
so that its exhaustion happens early; no property depends on its being 3. Two
workers are enough for a stale one and its successor, two requests under one
key for a race and the same request sent again for a replay, two days for a
card in two runs, two banks with a slot fewer than each could use for one to
starve the other (the limit per bank binds by itself in `cycle_expiry`, and in
the proofs), one kind of patch, of the status, in `banks_saga` (a rename changes
neither route nor status; the proofs include it), two creation times
and two rows with the same for a cursor to go wrong; a token's lifetime and a
login's period of one unit end within the clock. Symmetry is used in
`cards_*`, `verify_decisions`, `auth_sessions` and `catalog_references` alone,
where no liveness is checked and the constants are interchangeable.

**Fairness.** Only what the code's own loops and timers provide: an executor
keeps polling (`compose.yaml` restarts it), a goroutine whose next step is
possible takes it (the database answers, and locks are released when their
holder ends; statements have no timeout of their own), leases nobody holds and backoffs run out, and in
`BankProvisioning` a client that was told of an error repeats its request.
Handlers of `BankProvisioning` are strongly fair, since PostgreSQL queues the
waiters of a row lock and a handler that keeps losing a lock to others gets
it in the end. Nothing is assumed of clients otherwise, of administrators or
of faults. In `ExecutorCycle` nothing is assumed of goroutines while the
executor drains, so that `ShutdownCompletes` rests on the drain's timer; after
it, the pools close when the goroutines have given back their connections,
which they are assumed to do. `DispatchedIsSettled` is
conditional on a route that stays active, `BatchesServed` on cycles that begin
with a slot to spare; goroutines that outlast every cycle could keep all of them.

## 4. Proofs

`tlapm <module>.tla` checks a module's proofs. Every theorem is about the
specification that TLC checks and holds for all values of the constants that
satisfy the `ASSUME`s: any number of cards, batches, users, daemons,
goroutines, requests, banks and days, any limits and any number of faults.
Every invariant of the passing runs is proved, of `SomeoneCanProceed` the half
without ENABLED, and so are the action properties and the two refinements; what
is left to TLC is at the end.

| Module | Theorems (property) |
|---|---|
| `CardStatusBatchProofs` | `LeaseInvariant`, `Typing` (of `TypeOK`, which no run repeats), `Fencing` (`FencedTransactions`), `StableReads` (of `ReadsStayCurrent`, likewise), `AccountedAttempts` (`AttemptsAccounted`) |
| `CardStatusBatchResults` | `Finality` (`TerminalImmutable`), `ResultsInvariant`, `AllOrNothingHolds`, `ExactlyOnce` (`AppliedExactlyOnce`), `ChainedHistories` (`HistoryChains`), `RetriesApplyOnce` (`RetryChainAppliesOnce`), `Refinement` (`ImplementsAtomicBatch`), `AuthInvariant`, `AuthorizedOnly` (`AppliedOnlyIfAuthorized`) |
| `ExpiryRunProofs` | `ExpiryInvariant`, `CardExpiresOnce` (`ExpiredOnce`), `ClaimsBounded` (`RetriesBounded`), `FinalResults` (`FinalIsFinal`), `SettledRuns` (`CompletedRunsAreSettled`) |
| `CardCommandsProofs` | `CommandInvariant`, `EffectOnce` (`CommandTakesEffectOnce`), `SuccessorInPlace` (`OneCardInPlace`), `ConnectedTrails` (`TrailConnected`), `AccountedCredentials` (`CredentialsAccounted`), `NoCircularWait` (of `WaitsEnd`, in `SomeoneCanProceed`), `CommandRefinement` (`ImplementsAtomicCommand`); with the verifier `VerifierInvariant`, `OneDecision` (`OneDecisionPerReference`), `EarnedApprovals` (`ApprovalIsEarned`), `VerificationsProceed` (`VerifiersCanProceed`) |
| `StaffAccessProofs` | `SessionInvariant`, `LiveSessions` (`LiveSessionsMatchUser`), `Families` (`FamilyIsChain`), `DeadFamilies` (`DeadFamiliesStayDead`), `AccessInvariant`, `Authority` (`AuthorityWasHeld`), `Refusals` (`RefusalsJustified`) |
| `BankProvisioningProofs` | `SagaInvariant`, `RoutableBanksExist` (`RoutableHasEntity`), `OneBank` (`OneBankPerKey`) |
| `ReferenceCatalogProofs` | `CatalogInvariant`, `CardsMatch` (`CardsMatchAccounts`), `VersionsUnambiguous` (`VersionsNameConfigurations`), `CreatedOnce` (`ReferencesCreatedOnce`), `CompletePages` (`PagesComplete`) |
| `ExecutorCycleProofs` | `CycleInvariant`, `ExactCounters` (`CountersExact`), `LateClaims` (`LateClaimsBounded`) |

None of the properties is inductive as it stands; what each needs is the
argument for it.

**Batches.** Fencing needs to know why no second worker can pass the check:
versions only grow, and no two goroutines ever hold the same version of the
same batch. `LeaseInv` therefore joins to the type invariant that rows belong
to requests (`RequestsKnown`), that a worker's version was issued
(`WorkersKnown`), that claims are distinct (`ClaimsDistinct`), that a
transaction's row is held under the claimed version (`TransactionsHold`), that
card locks are exclusive (`LocksDisjoint`), and `ReadsStayCurrent`. Two workers
inside for one batch would both carry the row's version, against
`ClaimsDistinct`. `AttemptsInv` counts: a claim raises version and attempts, a
recovery the version, so their difference is the number of recoveries. A
goroutine under the row's version carries the row's attempts (`ClaimCurrent`);
a batch comes back to the queue with an attempt left or by a recovery; and one
that only recovery will bring back (`Adrift`) has a fault to its account that
no recovery has used yet. `ResultsInv` builds the results on it: what a transaction is
about to write are legal moves from what it has read (`LegalReads`), a batch
that is not settled has resolved nothing and left no entry in any history
(`Untouched`), and outcomes exist for the items asked for alone (`ItemsOnly`).
The refinement maps a row to the phase and the wanted cards that `AtomicBatch`
knows (`Phase`, `Wanted`); leases, goroutines and locks map to stuttering.
Authorization is read in two databases before the transaction: `GrantsNoted`
says that what is true now has been noted since the claim, `ChecksNoted` that
what a worker with the current claim has found was noted; a stale worker may
have found anything, and is fenced.

**Expiry.** `ExpiryInv` says of a goroutine (`WorkerOK`) that nobody else has
its version of the item, that under its locks the item is processing and the
card is as it was judged; of two goroutines that their locks are `Apart`; of
an item (`ItemOK`) that claims count attempts and are counted by retries; of a
card (`CardOK`) that its history is the one item that expired it. Every step
is shown to move items forward (`ForwardRow`), which is `FinalIsFinal`. For
`SettledRuns` a run counts its scheduled items (`RunOK`), and a completed one, or
a goroutine about to complete one (`ClosingOK`), accounts for the items by
statuses that are theirs or were theirs before a late retry (`Past`). Every
other step lets that day at most drift (`Drift`): an item may leave an open
status, which was then not the one counted, or `manual_retry_required` by a
retry that is late, and either way the same statuses still account for the
run. This needs that one goroutine at a time completes a run (`OneCloses`), and
that the run of a retry stays as the retry found it or the retry is late
(`RetryRun`).

**Card commands and verifier.** `CommandInv` gives each handler what it read
and still holds under its locks, separates the locks of different handlers,
ties a completed record to the one effect and the answers of its window, keeps
each row's history connected (`RowsInv`), and attributes every live credential
without a card to a request (`Attributed`). A commit is analysed row by row.
For the verifier, `AuthInv` adds that whoever holds a reference finds nothing
decided under it until it decides, that what is recorded is what was told, and
that rows only advance: a card that is out of use does not come back, so an
unlocked read is outdated in one direction only.

Waits end (`NoCircularWait`) by an order of locks: a handler waits for its key
before it has any row, for its card before it has any card, and for a
predecessor only while it activates an issued card. `OwnLocks` says that until
it has locked a predecessor a handler has at most its own card; so whoever holds the row of a predecessor works on a card that was in use when
it was replaced, or has all its locks; it waits for nobody. Hence at most three
waits in a row, of any number of requests. Verifications add one wait to the
front of such a chain. No command waits for them here, since a decision is
inserted and committed in one step; in the database a command may have to wait
for that commit, which itself waits for nobody.

For the refinement, a commit is the one step that callers can see of a command
that succeeds. `CommitIsCommand` needs the invariant's facts about locked reads:
what `Judge` found, before the remote call and the write, is still so at the
commit, and a UUID chosen for a new card is still free. `CommitRecorded` needs
that nothing is recorded under a claimed key, `ClaimPromised` that a replay has
the body of the record. `CommitUnacknowledged` is the same effect with no
report; all other steps of a handler, failures included, are invisible
(`StepUnseen`).

**Sessions, access and admission.** `SessionInv` relates sessions to versions
that only grow (`VersionsBounded`, `OutdatedBehind`), makes tokens of a session
a chain rooted in it, and gives a handler under the user's lock what it has
read. `AccessInv` adds that a token's grant was its user's when the transaction
was committed, and has been lost since then, if at all. `AdmissionInv` counts: a
window counts no more than the logins of its address admitted since it was
opened (`Counted`), and none is ahead of the clock; so a window that is not
over at the time the refused request has read stands for that many recent
admissions, whatever the order of times.

**Provisioning, catalog, cycle.** `SagaInv` states for each point of the saga
what its handler and the record agree on, that a key has one claim per window,
that whatever was answered has its entity, and that a route opened without one
stands as a status patch asked for it (`OpenAsPatched`). `CatalogInv` keeps the locks of a
transaction, that its prepared write still fits the committed rows, and that
configuration versions are those up to the current one. `CycleInv` accounts
for each reserved slot as the loop's or a goroutine's; the sum over banks is
the cardinality of a set of slots (`Slots`), so that one step changes it by
one element.

**Lists.** `PagesComplete` rests on what `Pages` does with any finite set of
elements. An element's place is one more than the number of those above it:
places rise strictly down the order (`PlacesRise`, by cardinalities of sets of
which one contains the other), so every place has one element and the listed
sequence has all of them in order (`ListedInOrder`). The start of a page is the
least position below the cursor, which exists by the well-foundedness of the
naturals (`LeastNumber`, `StartFound`); a page is then the part of the list that
directly follows the cursor (`PageCut`). `ListingInv` says of a walk
(`Halfway`) that what it has given is in order and ends at the cursor, and that
every row that was there at its first page and is above the cursor was given.
Rows committed meanwhile can only add elements; creation times and ids do not
change (`CommittedStays`, `CreationTimes`).

**Assumptions.** Besides types: `None`, which stands for NULL, is none of the
rows, records, tokens, times, decisions or references it may stand beside;
cards, banks, addresses, requests and catalog rows are finite sets where they are
counted; the ids of rows are ordered like numbers;
the rows a catalog starts with have their types; a card whose successor exists
at the start was in use, as `ReplaceCard` requires. TLC evaluates all of them
in the runs.

**Left to TLC.** Liveness (`DispatchedIsSettled`, `ItemsSettle`,
`ProvisioningCompletes`, `BatchesServed`, `ShutdownCompletes`), since fairness
is outside the prover's reach; and the second half of `SomeoneCanProceed`, that
a request which waits for nobody has a step ENABLED. `NoRemoteCallUnderLock`
and the other properties of departures are false and have no theorem.

## 5. Not modelled

HTTP parsing, validation and OpenAPI, reads other than the lists above,
row-level security and grants, password hashing and the bytes of tokens and
cursors, generation of card numbers, metrics and health endpoints,
configuration and PKI: pure functions or start-up I/O without a state that
several actors share. Clock skew between processes and databases is not
modelled; leases are judged by the database's clock alone, as in the code, and
access tokens by the clock of the API that issued them.

Noticed and not modelled: cursors of a card's operations and history are bound
to the bank and not to the card (`internal/server/card_handler.go:57` and
`:66`; those of batch items are, `batch.go:47`), against "Bind cursors to the
bank, filters, and ordering" (`database-design.md:253`) if the card counts as
a filter; and the directory of banks leaves out, without an error, a bank
whose entity cannot be read (`internal/bank/service.go:52`).

## 6. Plan

1. Done: `CardStatusBatch` with `AtomicBatch` and its proofs; `ExpiryRun`;
   `CardCommands` with `CardAuthorization` and `CardRowLocks`; `AuthSession`
   with `LoginAdmission` and `StaffAccess`; `ReferenceCatalog` and
   `BankProvisioning` with their lists; `ExecutorCycle` with its shutdown;
   `AtomicCommand`; theorems for every invariant and refinement of the runs.
2. Next models: the idempotency record of batches, whose reuse after its
   window meets a unique constraint; the route that a request's check has
   read, followed to the end of that request.
3. Next theorems: a bound on the patches that `banks_duplicate` repeats, as
   `AttemptsAccounted` is for `batch_attempts`; abstract specifications of the
   expiry and of the saga, with their refinements.
