-------------------------- MODULE CardStatusBatch --------------------------
(***************************************************************************)
(* The card-status batches of one bank: the API that submits, dispatches,  *)
(* cancels and retries them (internal/batch, repository/shard/reader.go)   *)
(* and the executor daemons that claim them under a lease and apply them   *)
(* (internal/executor, repository/shard/executor_store.go).                *)
(*                                                                         *)
(* The database is PostgreSQL at READ COMMITTED.  A transaction that takes *)
(* its row locks first and is not read by anybody before it commits is one *)
(* action.  ApplyBatch is three: it locks the batch row, then the cards,   *)
(* and commits later, and time, crashes, recovery and card commands go on  *)
(* in between.  Row locks are not a variable: a worker holds the locks its *)
(* program counter says it holds.                                          *)
(*                                                                         *)
(* Left out: the text of reasons and summaries, audit rows, timestamps     *)
(* (a lease is current or expired, a queued batch is due or backing off)   *)
(* and the idempotency record, whose replay changes nothing.               *)
(***************************************************************************)
EXTENDS CardLifecycle, Integers, FiniteSets, Sequences

CONSTANTS
  Cards,             \* cards of the bank
  Predecessor,       \* the card each one replaces, or NoCard
  NoCard,
  Batches,           \* identifiers of batches
  Users,             \* staff who request batches
  UserRows,          \* the rows a user may have in the control database
  Bank,              \* the bank (entity) all of this belongs to
  Executors,         \* executor identities (EXECUTOR_ID)
  Workers,           \* goroutine slots: MaxClaims / PerBankConcurrency
  Identity,          \* the executor each slot belongs to
  None,
  Targets,           \* target statuses requested in this instance
  Commands,          \* card actions asked for in this instance; "expire" is
                     \* the expiry worker's, the others are the API's
  BatchMaxAttempts,
  BatchSizeCap,
  MaxFaults,         \* bound: crashes, lost leases and failed calls
  MaxHistory         \* bound: status changes of one card by commands

BatchTargets == {"active", "suspended", "closed"}

ASSUME ConstantsAssumption ==
  /\ Predecessor \in [Cards -> Cards \cup {NoCard}] /\ NoCard \notin Cards
  /\ \A c \in Cards : Predecessor[c] # c
  /\ Identity \in [Workers -> Executors] /\ None \notin Executors
  /\ Targets \subseteq BatchTargets /\ Commands \subseteq CardActions
  /\ BatchMaxAttempts \in Nat \ {0} /\ BatchSizeCap \in Nat \ {0}
  /\ MaxFaults \in Nat /\ MaxHistory \in Nat
  /\ IsFiniteSet(Cards) /\ None \notin Batches

Roles == {"issuer_operator", "bank_operator", "viewer"}

ASSUME UserRowsAssumption ==
  \A u \in UserRows : /\ DOMAIN u = {"status", "role", "entity"}
                      /\ u.status \in {"enabled", "disabled", "missing"}
                      /\ u.role \in Roles

VARIABLES
  card,        \* bank.cards.status
  history,     \* bank.card_status_history of each card
  request,     \* immutable columns of a card_status_batches row
  row,         \* mutable columns of a card_status_batches row
  outcome,     \* card_status_batch_items.outcome of each card of a batch
  operation,   \* card_operations.status of each item
  users,       \* control database: the users
  routeActive, \* control database: the bank's route is active on this shard
  cycle,       \* where each executor's polling loop is, for this bank
  worker,      \* runBatch goroutines
  authSince,   \* ghost: grants that held at some moment since the claim
  faults       \* bound on the environment's failures

dbVars == <<card, history, request, row, outcome, operation>>
controlVars == <<users, routeActive>>
vars == <<card, history, request, row, outcome, operation, users, routeActive,
          cycle, worker, authSince, faults>>

-----------------------------------------------------------------------------
(* Types *)

BatchStates == {"none", "draft", "queued", "processing", "succeeded", "failed", "cancelled"}
Terminal == {"succeeded", "failed", "cancelled"}
Outcomes == {"none", "pending", "applied", "not_applied", "ignored"}
OperationStates == {"none", "queued", "succeeded", "failed"}
FailureCodes == {"none", "authorization_revoked", "retry_exhausted", "invalid_transition",
                 "control_unavailable", "dependency_unavailable"}

Request == [target : BatchTargets, items : SUBSET Cards, by : Users,
            retryOf : Batches \cup {None}]

ASSUME NoneAssumption == None \notin Request

Row == [status : BatchStates, owner : Executors \cup {None}, version : Nat,
        current : BOOLEAN, due : BOOLEAN, attempts : Nat, failure : FailureCodes,
        applied : Nat, ignored : Nat]

NewRow == [status |-> "none", owner |-> None, version |-> 0, current |-> FALSE,
           due |-> FALSE, attempts |-> 0, failure |-> "none", applied |-> 0, ignored |-> 0]

\* Entry of the status history: source is the batch, or None for a command.
Entry == [previous : CardStates, new : CardStates, source : Batches \cup {None}]

\* A goroutine: batch, version and attempts are the claim it was started with;
\* code is what it will report; userOK and read are what it has read so far.
Steps == {"idle", "claimed", "routing", "authorized", "verified", "locked", "retry", "fail"}
Worker == [pc : Steps, batch : Batches \cup {None}, version : Nat, attempts : Nat,
           code : FailureCodes, userOK : BOOLEAN, read : [Cards -> CardStates]]

NoReads == [c \in Cards |-> "pending"]
IdleWorker == [pc |-> "idle", batch |-> None, version |-> 0, attempts |-> 0,
               code |-> "none", userOK |-> FALSE, read |-> NoReads]

Grants == {"user", "route"}

TypeOK ==
  /\ card \in [Cards -> CardStates]
  /\ history \in [Cards -> Seq(Entry)]
  /\ request \in [Batches -> Request \cup {None}]
  /\ row \in [Batches -> Row]
  /\ outcome \in [Batches -> [Cards -> Outcomes]]
  /\ operation \in [Batches -> [Cards -> OperationStates]]
  /\ users \in [Users -> UserRows]
  /\ routeActive \in BOOLEAN
  /\ cycle \in [Executors -> {"waiting", "listed", "recovered"}]
  /\ worker \in [Workers -> Worker]
  /\ authSince \in [Batches -> SUBSET Grants]
  /\ faults \in Nat

\* A successor exists only because its predecessor was active or suspended
\* when the replacement issued it; other cards start anywhere but pending.
InitialCards ==
  {f \in [Cards -> {"issued", "active", "suspended"}] :
     \A c \in Cards : Predecessor[c] # NoCard => /\ f[c] = "issued"
                                                 /\ f[Predecessor[c]] # "issued"}

Init ==
  /\ card \in InitialCards
  /\ history = [c \in Cards |-> << >>]
  /\ request = [b \in Batches |-> None]
  /\ row = [b \in Batches |-> NewRow]
  /\ outcome = [b \in Batches |-> [c \in Cards |-> "none"]]
  /\ operation = [b \in Batches |-> [c \in Cards |-> "none"]]
  /\ users \in [Users -> UserRows]
  /\ routeActive = TRUE
  /\ cycle = [e \in Executors |-> "waiting"]
  /\ worker = [w \in Workers |-> IdleWorker]
  /\ authSince = [b \in Batches |-> {}]
  /\ faults = 0

-----------------------------------------------------------------------------
(* Row locks and leases *)

InTransaction(w) == worker[w].pc \in {"verified", "locked"}

\* Mutation of BatchLocked: recovery and verification do not lock the row.
BatchNeverLocked(b) == FALSE

BatchLocked(b) == \E w \in Workers : InTransaction(w) /\ worker[w].batch = b

Items(w) == request[worker[w].batch].items
Target(w) == request[worker[w].batch].target

\* Mutation of CardLocked: the cards are read without FOR UPDATE.
CardNeverLocked(c) == FALSE

CardLocked(c) == \E w \in Workers : worker[w].pc = "locked" /\ c \in Items(w)

\* Mutation of Holds: the lease version alone fences.
HoldsByVersion(w) == row[worker[w].batch].version = worker[w].version

\* The WHERE clause that fences every write of a worker (verifyBatchLease).
Holds(w) ==
  LET r == row[worker[w].batch] IN
  /\ r.status = "processing"
  /\ r.owner = Identity[w]
  /\ r.version = worker[w].version
  /\ r.current

\* A batch leaves "processing" together with its lease.
Released(r, status) ==
  [r EXCEPT !.status = status, !.owner = None, !.current = FALSE]

-----------------------------------------------------------------------------
(* API *)

\* insertCardStatusBatchItems: one item and one operation for each card.
ItemsOf(req, state) == [c \in Cards |-> IF c \in req.items THEN state ELSE "none"]

\* The new draft with its items.
Accept(b, req) ==
  /\ row[b].status = "none"
  /\ request' = [request EXCEPT ![b] = req]
  /\ row' = [row EXCEPT ![b].status = "draft"]
  /\ outcome' = [outcome EXCEPT ![b] = ItemsOf(req, "pending")]
  /\ operation' = [operation EXCEPT ![b] = ItemsOf(req, "queued")]
  /\ UNCHANGED <<card, history, controlVars, cycle, worker, authSince, faults>>

\* The caller is authorized by its access token alone, so no user row is read.
CreateCardStatusBatch(b, u) ==
  \E target \in Targets, items \in SUBSET Cards \ {{}} :
     Accept(b, [target |-> target, items |-> items, by |-> u, retryOf |-> None])

Dispatched(r) == [r EXCEPT !.status = "queued", !.due = TRUE]

\* Any other status is returned as it is.
ExecuteCardStatusBatch(b) ==
  /\ row[b].status = "draft"
  /\ row' = [row EXCEPT ![b] = Dispatched(row[b])]
  /\ UNCHANGED <<card, history, request, outcome, operation, controlVars,
                 cycle, worker, authSince, faults>>

CancelCardStatusBatch(b) ==
  /\ row[b].status \in {"draft", "queued"}
  /\ row' = [row EXCEPT ![b].status = "cancelled"]
  /\ UNCHANGED <<card, history, request, outcome, operation, controlVars,
                 cycle, worker, authSince, faults>>

\* The request of a retry: the same target and cards for another requester.
RetryOf(source, u) == [request[source] EXCEPT !.by = u, !.retryOf = source]

\* Mutation of RetryCardStatusBatch: any settled batch may be retried.
RetryAnySettledBatch(b, source, u) ==
  row[source].status \in Terminal /\ Accept(b, RetryOf(source, u))

RetryCardStatusBatch(b, source, u) ==
  row[source].status \in {"failed", "cancelled"} /\ Accept(b, RetryOf(source, u))

\* The card row is locked, judged and written in one transaction; activating
\* a replacement closes the card it replaces (closePredecessorOnActivation).
ClosesPredecessor(c, action) ==
  /\ action = "activate"
  /\ Predecessor[c] \in Cards
  /\ card[Predecessor[c]] \in {"active", "suspended"}

CardCommand(c, action) ==
  LET t == Transition(card[c], action)
      closed == IF ClosesPredecessor(c, action) THEN {Predecessor[c]} ELSE {}
      new(d) == IF d = c THEN t.target ELSE "closed"
  IN
  /\ Len(history[c]) < MaxHistory
  /\ t.valid /\ ~t.ignored
  /\ \A d \in {c} \cup closed : ~CardLocked(d)
  /\ card' = [d \in Cards |-> IF d \in {c} \cup closed THEN new(d) ELSE card[d]]
  /\ history' = [d \in Cards |->
        IF d \in {c} \cup closed
          THEN Append(history[d], [previous |-> card[d], new |-> new(d), source |-> None])
          ELSE history[d]]
  /\ UNCHANGED <<request, row, outcome, operation, controlVars, cycle, worker,
                 authSince, faults>>

-----------------------------------------------------------------------------
(* Control database: staff administration and route changes.  The ghost   *)
(* authSince collects, for every claimed batch, the grants seen to hold.   *)

Eligible(u) ==
  /\ u.status = "enabled"
  /\ u.role = "bank_operator" => u.entity = Bank
  /\ u.role \in {"issuer_operator", "bank_operator"}

GrantsNow(by, us, active) ==
  {g \in Grants : \/ g = "user" /\ Eligible(us[by])
                  \/ g = "route" /\ active}

Witnessed(us, active) ==
  [b \in Batches |-> IF row[b].status = "processing"
                       THEN authSince[b] \cup GrantsNow(request[b].by, us, active)
                       ELSE authSince[b]]

UpdateUser(u) ==
  /\ \E new \in UserRows \ {users[u]} : users' = [users EXCEPT ![u] = new]
  /\ authSince' = Witnessed(users', routeActive)
  /\ UNCHANGED <<dbVars, routeActive, cycle, worker, faults>>

SetBankRouteStatus ==
  /\ routeActive' = ~routeActive
  /\ authSince' = Witnessed(users, routeActive')
  /\ UNCHANGED <<dbVars, users, cycle, worker, faults>>

-----------------------------------------------------------------------------
(* The executor's polling loop, for this bank *)

\* activeBanks: the routes are read once, at the start of a cycle.
ListBanks(e) ==
  /\ cycle[e] = "waiting"
  /\ routeActive
  /\ cycle' = [cycle EXCEPT ![e] = "listed"]
  /\ UNCHANGED <<dbVars, controlVars, worker, authSince, faults>>

\* One statement over all expired leases, FOR UPDATE SKIP LOCKED.
Recoverable(b) == row[b].status = "processing" /\ ~row[b].current /\ ~BatchLocked(b)

RecoveredRow(r) ==
  [Released(r, "queued") EXCEPT !.version = r.version + 1, !.due = TRUE]

RecoverBatches(e) ==
  /\ cycle[e] = "listed"
  /\ cycle' = [cycle EXCEPT ![e] = "recovered"]
  /\ row' = [b \in Batches |-> IF Recoverable(b) THEN RecoveredRow(row[b]) ELSE row[b]]
  /\ UNCHANGED <<card, history, request, outcome, operation, controlVars,
                 worker, authSince, faults>>

\* Mutation of Claimable: the attempt limit is enforced by the claim.
ClaimableWithinLimit(b) ==
  row[b].status = "queued" /\ row[b].due /\ row[b].attempts < BatchMaxAttempts

Claimable(b) == row[b].status = "queued" /\ row[b].due

ClaimedRow(r, e) ==
  [r EXCEPT !.status = "processing", !.owner = e, !.current = TRUE,
            !.version = r.version + 1, !.attempts = r.attempts + 1]

\* A slot is reserved, a due batch is claimed and a goroutine is started.
ClaimBatch(w, b) ==
  /\ cycle[Identity[w]] = "recovered"
  /\ worker[w].pc = "idle"
  /\ Claimable(b)
  /\ row' = [row EXCEPT ![b] = ClaimedRow(row[b], Identity[w])]
  /\ worker' = [worker EXCEPT ![w] =
        [IdleWorker EXCEPT !.pc = "claimed", !.batch = b,
                           !.version = row[b].version + 1,
                           !.attempts = row[b].attempts + 1]]
  /\ authSince' = [authSince EXCEPT ![b] = GrantsNow(request[b].by, users, routeActive)]
  /\ cycle' = [cycle EXCEPT ![Identity[w]] = "waiting"]
  /\ UNCHANGED <<card, history, request, outcome, operation, controlVars, faults>>

\* No slot to reserve, or nothing due: the bank is passed over.
SkipBank(e) ==
  /\ cycle[e] = "recovered"
  /\ \/ \A w \in Workers : Identity[w] = e => worker[w].pc # "idle"
     \/ \A b \in Batches : ~Claimable(b)
  /\ cycle' = [cycle EXCEPT ![e] = "waiting"]
  /\ UNCHANGED <<dbVars, controlVars, worker, authSince, faults>>

-----------------------------------------------------------------------------
(* runBatch *)

Goto(w, pc) == worker' = [worker EXCEPT ![w].pc = pc]
GotoFail(w, code) == worker' = [worker EXCEPT ![w].pc = "fail", ![w].code = code]
GotoRetry(w, code) == worker' = [worker EXCEPT ![w].pc = "retry", ![w].code = code]
Finish(w) == worker' = [worker EXCEPT ![w] = IdleWorker]

OverSize(w) == Cardinality(Items(w)) > BatchSizeCap

\* The size check and the first half of authorized(): the requester's row.
LookupUser(w) ==
  /\ worker[w].pc = "claimed"
  /\ LET u == users[request[worker[w].batch].by] IN
     \/ OverSize(w) /\ GotoFail(w, "invalid_transition")
     \/ ~OverSize(w) /\ u.status = "missing" /\ GotoFail(w, "authorization_revoked")
     \/ /\ ~OverSize(w) /\ u.status # "missing"
        /\ worker' = [worker EXCEPT ![w].pc = "routing", ![w].userOK = Eligible(u)]
  /\ UNCHANGED <<dbVars, controlVars, cycle, authSince, faults>>

\* Mutation of LookupRoutes: what was read of the requester is dropped.
LookupRoutesOnly(w) ==
  /\ worker[w].pc = "routing"
  /\ IF routeActive THEN Goto(w, "authorized") ELSE GotoFail(w, "authorization_revoked")
  /\ UNCHANGED <<dbVars, controlVars, cycle, authSince, faults>>

\* The second half: the routes, read by another query.
LookupRoutes(w) ==
  /\ worker[w].pc = "routing"
  /\ IF worker[w].userOK /\ routeActive
       THEN Goto(w, "authorized")
       ELSE GotoFail(w, "authorization_revoked")
  /\ UNCHANGED <<dbVars, controlVars, cycle, authSince, faults>>

ControlUnavailable(w) ==
  /\ worker[w].pc = "routing" \/ (worker[w].pc = "claimed" /\ ~OverSize(w))
  /\ faults < MaxFaults /\ faults' = faults + 1
  /\ GotoRetry(w, "control_unavailable")
  /\ UNCHANGED <<dbVars, controlVars, cycle, authSince>>

\* ApplyBatch begins: lock the batch row and verify the lease.
ApplyVerify(w) ==
  /\ worker[w].pc = "authorized"
  /\ ~BatchLocked(worker[w].batch)
  /\ IF Holds(w) THEN Goto(w, "verified") ELSE Finish(w)
  /\ UNCHANGED <<dbVars, controlVars, cycle, authSince, faults>>

\* Mutation of ApplyLockCards: one legal move is enough.
ApplyLockCardsAny(w) ==
  /\ worker[w].pc = "verified"
  /\ \A c \in Items(w) : ~CardLocked(c)
  /\ IF \E c \in Items(w) : CanTransition(card[c], Target(w))
       THEN worker' = [worker EXCEPT ![w].pc = "locked", ![w].read =
                              [c \in Cards |-> IF c \in Items(w) THEN card[c] ELSE "pending"]]
       ELSE GotoFail(w, "invalid_transition")
  /\ UNCHANGED <<dbVars, controlVars, cycle, authSince, faults>>

\* Lock the cards in order and judge them; one illegal move rolls all back.
ApplyLockCards(w) ==
  /\ worker[w].pc = "verified"
  /\ \A c \in Items(w) : ~CardLocked(c)
  /\ IF \A c \in Items(w) : CanTransition(card[c], Target(w))
       THEN worker' = [worker EXCEPT ![w].pc = "locked", ![w].read =
                              [c \in Cards |-> IF c \in Items(w) THEN card[c] ELSE "pending"]]
       ELSE GotoFail(w, "invalid_transition")
  /\ UNCHANGED <<dbVars, controlVars, cycle, authSince, faults>>

\* Mutation of Ignored: ignored items are left out of the results.
IgnoredLost(w) == {}

\* Already-at-target cards are ignored, by the status read under the lock.
Applied(w) == {c \in Items(w) : worker[w].read[c] # Target(w)}
Ignored(w) == Items(w) \ Applied(w)

\* Everything the transaction writes, made visible by its commit.
ApplyEffects(w) ==
  LET b == worker[w].batch IN
  /\ card' = [c \in Cards |-> IF c \in Applied(w) THEN Target(w) ELSE card[c]]
  /\ history' = [c \in Cards |->
        IF c \in Applied(w)
          THEN Append(history[c], [previous |-> worker[w].read[c],
                                   new |-> Target(w), source |-> b])
          ELSE history[c]]
  /\ outcome' = [outcome EXCEPT ![b] =
        [c \in Cards |-> IF c \in Applied(w) THEN "applied"
                         ELSE IF c \in Ignored(w) THEN "ignored" ELSE @[c]]]
  /\ operation' = [operation EXCEPT ![b] =
        [c \in Cards |-> IF c \in Items(w) THEN "succeeded" ELSE @[c]]]
  /\ row' = [row EXCEPT ![b] =
        [Released(row[b], "succeeded") EXCEPT !.applied = Cardinality(Applied(w)),
                                              !.ignored = Cardinality(Ignored(w))]]
  /\ UNCHANGED request

\* The final UPDATE checks the lease again: an expired one is stale.
ApplyCommit(w) ==
  /\ worker[w].pc = "locked"
  /\ \/ Holds(w) /\ ApplyEffects(w)
     \/ ~Holds(w) /\ UNCHANGED dbVars
  /\ Finish(w)
  /\ UNCHANGED <<controlVars, cycle, authSince, faults>>

\* A transient error goes to retryBatch, any other one to FailBatch.
AfterError(w) ==
  \/ GotoRetry(w, "dependency_unavailable")
  \/ GotoFail(w, "invalid_transition")

\* A database error inside ApplyBatch: the transaction is rolled back.
ApplyError(w) ==
  /\ worker[w].pc \in {"authorized", "verified", "locked"}
  /\ faults < MaxFaults /\ faults' = faults + 1
  /\ AfterError(w)
  /\ UNCHANGED <<dbVars, controlVars, cycle, authSince>>

\* The commit succeeds but its acknowledgement is lost.
ApplyCommitUnacknowledged(w) ==
  /\ worker[w].pc = "locked" /\ Holds(w)
  /\ faults < MaxFaults /\ faults' = faults + 1
  /\ ApplyEffects(w)
  /\ AfterError(w)
  /\ UNCHANGED <<controlVars, cycle, authSince>>

\* Mutation of Fenced: the statement does not name the lease.
Unfenced(w, effects) == ~BatchLocked(worker[w].batch) /\ effects

\* A stale worker's statement matches no row and changes nothing.
Fenced(w, effects) ==
  /\ ~BatchLocked(worker[w].batch)
  /\ \/ Holds(w) /\ effects
     \/ ~Holds(w) /\ UNCHANGED <<outcome, operation, row>>

\* Cards are read, not locked; items already at the target are ignored.
FailEffects(w, code) ==
  LET b == worker[w].batch
      ignored == {c \in Items(w) : card[c] = Target(w)}
  IN
  /\ outcome' = [outcome EXCEPT ![b] =
        [c \in Cards |-> IF @[c] # "pending" THEN @[c]
                         ELSE IF c \in ignored THEN "ignored" ELSE "not_applied"]]
  /\ operation' = [operation EXCEPT ![b] =
        [c \in Cards |-> IF @[c] = "queued" THEN "failed" ELSE @[c]]]
  /\ row' = [row EXCEPT ![b] =
        [Released(row[b], "failed") EXCEPT !.ignored = Cardinality(ignored), !.applied = 0,
                                           !.failure = code]]

FailBatch(w, code) == Fenced(w, FailEffects(w, code))

RequeueEffects(w) ==
  /\ row' = [row EXCEPT ![worker[w].batch] =
        [Released(@, "queued") EXCEPT !.due = FALSE, !.failure = worker[w].code]]
  /\ UNCHANGED <<outcome, operation>>

RequeueBatch(w) == Fenced(w, RequeueEffects(w))

ReportFailure(w) ==
  /\ worker[w].pc = "fail"
  /\ FailBatch(w, worker[w].code)
  /\ Finish(w)
  /\ UNCHANGED <<card, history, request, controlVars, cycle, authSince, faults>>

\* Mutation of RetryBatch: the last attempt is followed by one more.
RetryBatchOnceMore(w) ==
  /\ worker[w].pc = "retry"
  /\ \/ worker[w].attempts > BatchMaxAttempts /\ FailBatch(w, "retry_exhausted")
     \/ worker[w].attempts <= BatchMaxAttempts /\ RequeueBatch(w)
  /\ Finish(w)
  /\ UNCHANGED <<card, history, request, controlVars, cycle, authSince, faults>>

\* retryBatch: back to the queue, or final after the last attempt.
RetryBatch(w) ==
  /\ worker[w].pc = "retry"
  /\ \/ worker[w].attempts >= BatchMaxAttempts /\ FailBatch(w, "retry_exhausted")
     \/ worker[w].attempts < BatchMaxAttempts /\ RequeueBatch(w)
  /\ Finish(w)
  /\ UNCHANGED <<card, history, request, controlVars, cycle, authSince, faults>>

\* Errors of FailBatch and RequeueBatch are dropped; the lease runs out.
ReportLost(w) ==
  /\ worker[w].pc \in {"retry", "fail"}
  /\ faults < MaxFaults /\ faults' = faults + 1
  /\ Finish(w)
  /\ UNCHANGED <<dbVars, controlVars, cycle, authSince>>

-----------------------------------------------------------------------------
(* Time and crashes *)

Attended(b) == \E w \in Workers : /\ worker[w].batch = b /\ worker[w].pc # "idle"
                                  /\ worker[w].version = row[b].version

\* A lease outlived by its worker is a fault; an orphaned one just runs out.
LeaseExpires(b) ==
  /\ row[b].status = "processing" /\ row[b].current
  /\ \/ ~Attended(b) /\ UNCHANGED faults
     \/ Attended(b) /\ faults < MaxFaults /\ faults' = faults + 1
  /\ row' = [row EXCEPT ![b].current = FALSE]
  /\ UNCHANGED <<card, history, request, outcome, operation, controlVars,
                 cycle, worker, authSince>>

BackoffElapses(b) ==
  /\ row[b].status = "queued" /\ ~row[b].due
  /\ row' = [row EXCEPT ![b].due = TRUE]
  /\ UNCHANGED <<card, history, request, outcome, operation, controlVars,
                 cycle, worker, authSince, faults>>

\* The process dies (crash, failed cycle, drain timeout) and is restarted;
\* the server rolls its open transactions back.
ExecutorExits(e) ==
  /\ faults < MaxFaults /\ faults' = faults + 1
  /\ worker' = [w \in Workers |-> IF Identity[w] = e THEN IdleWorker ELSE worker[w]]
  /\ cycle' = [cycle EXCEPT ![e] = "waiting"]
  /\ UNCHANGED <<dbVars, controlVars, authSince>>

-----------------------------------------------------------------------------

ApiNext ==
  \/ \E b \in Batches, u \in Users : CreateCardStatusBatch(b, u)
  \/ \E b \in Batches : ExecuteCardStatusBatch(b) \/ CancelCardStatusBatch(b)
  \/ \E b, source \in Batches, u \in Users : RetryCardStatusBatch(b, source, u)
  \/ \E c \in Cards, action \in Commands : CardCommand(c, action)

ControlNext == (\E u \in Users : UpdateUser(u)) \/ SetBankRouteStatus

CycleNext ==
  \/ \E e \in Executors : ListBanks(e) \/ RecoverBatches(e) \/ SkipBank(e)
  \/ \E w \in Workers, b \in Batches : ClaimBatch(w, b)

RunBatch(w) ==
  \/ LookupUser(w) \/ LookupRoutes(w) \/ ApplyVerify(w) \/ ApplyLockCards(w)
  \/ ApplyCommit(w) \/ ReportFailure(w) \/ RetryBatch(w)

Errors(w) ==
  \/ ControlUnavailable(w) \/ ApplyError(w) \/ ApplyCommitUnacknowledged(w) \/ ReportLost(w)

TimeNext == \E b \in Batches : LeaseExpires(b) \/ BackoffElapses(b)

Next ==
  \/ ApiNext \/ ControlNext \/ CycleNext \/ TimeNext
  \/ \E w \in Workers : RunBatch(w) \/ Errors(w)
  \/ \E e \in Executors : ExecutorExits(e)

Spec == Init /\ [][Next]_vars

\* The loop polls for ever, goroutines run on, leases and backoffs run out.
\* Nothing is assumed of clients, administrators or failures.
CycleStep(e) ==
  \/ ListBanks(e) \/ RecoverBatches(e) \/ SkipBank(e)
  \/ \E w \in Workers, b \in Batches : Identity[w] = e /\ ClaimBatch(w, b)

Fairness ==
  /\ \A e \in Executors : WF_vars(CycleStep(e))
  /\ \A w \in Workers : WF_vars(RunBatch(w))
  /\ \A b \in Batches : /\ WF_vars(~Attended(b) /\ LeaseExpires(b))
                        /\ WF_vars(BackoffElapses(b))

FairSpec == Spec /\ Fairness

-----------------------------------------------------------------------------
(* Safety *)

\* A worker inside ApplyBatch's transaction owns the batch: the row is still
\* "processing" under the very lease it was claimed with, even if that lease
\* has run out meanwhile, and no other worker is inside for the same batch.
FencedTransactions ==
  \A w \in Workers : InTransaction(w) =>
     /\ row[worker[w].batch].status = "processing"
     /\ row[worker[w].batch].version = worker[w].version
     /\ row[worker[w].batch].owner = Identity[w]
     /\ \A v \in Workers \ {w} :
           InTransaction(v) => worker[v].batch # worker[w].batch

\* A claim raises lease_version and attempt_count, a recovery the version alone.
Recoveries(b) == row[b].version - row[b].attempts

\* An attempt past the configured number is owed to a lease that ran out, and a
\* lease runs out only after a fault: a crash, a call that outlived it or a
\* report that was lost.  Every other return of runBatch gives the batch back.
AttemptsAccounted ==
  \A b \in Batches : /\ row[b].attempts <= BatchMaxAttempts + Recoveries(b)
                      /\ Recoveries(b) <= faults

\* Between locking its cards and committing, what ApplyBatch read of them
\* stays true, so ignored items and recorded previous states are right.
ReadsStayCurrent ==
  \A w \in Workers : worker[w].pc = "locked" =>
     \A c \in Items(w) : worker[w].read[c] = card[c]

\* The items of batch b with outcome o.
ItemsWith(b, o) == {c \in Cards : outcome[b][c] = o}

\* A succeeded batch resolved every item and counted them right; a failed one
\* applied none; any other one has resolved nothing (ApplyBatch, FailBatch,
\* guard_batch_state).
AllOrNothing ==
  \A b \in Batches : row[b].status # "none" =>
     LET items == request[b].items IN
     /\ row[b].applied = Cardinality(ItemsWith(b, "applied"))
     /\ row[b].ignored = Cardinality(ItemsWith(b, "ignored"))
     /\ \/ /\ row[b].status = "succeeded"
           /\ ItemsWith(b, "applied") \cup ItemsWith(b, "ignored") = items
           /\ \A c \in items : operation[b][c] = "succeeded"
        \/ /\ row[b].status = "failed"
           /\ ItemsWith(b, "not_applied") \cup ItemsWith(b, "ignored") = items
           /\ \A c \in items : operation[b][c] = "failed"
        \/ /\ row[b].status \notin {"succeeded", "failed"}
           /\ ItemsWith(b, "pending") = items
           /\ \A c \in items : operation[b][c] = "queued"

\* A card's history has one entry of a batch exactly when the batch reports
\* the item applied: no batch moves a card twice, none moves one silently.
AppliedExactlyOnce ==
  \A b \in Batches, c \in Cards :
     LET moves == {i \in DOMAIN history[c] : history[c][i].source = b} IN
     /\ (moves # {}) <=> (outcome[b][c] = "applied")
     /\ \A i, j \in moves : i = j

\* The history of a card is a chain of legal moves that ends in its status.
HistoryChains ==
  \A c \in Cards :
     /\ \A i \in DOMAIN history[c] :
           /\ history[c][i].previous # history[c][i].new
           /\ CanTransition(history[c][i].previous, history[c][i].new)
           /\ i > 1 => history[c][i].previous = history[c][i - 1].new
     /\ history[c] # << >> => card[c] = history[c][Len(history[c])].new

\* A retried batch never took effect itself, so a chain of retries applies
\* the request at most once, to the same cards.
RetryChainAppliesOnce ==
  \A b \in Batches : request[b] # None /\ request[b].retryOf # None =>
     LET source == request[b].retryOf IN
     /\ row[source].status \in {"failed", "cancelled"}
     /\ ItemsWith(source, "applied") = {}
     /\ request[source].items = request[b].items

-----------------------------------------------------------------------------
(* Action properties *)

\* A settled batch is never touched again, whatever late workers report.
TerminalImmutable ==
  [][\A b \in Batches : row[b].status \in Terminal =>
        /\ row'[b] = row[b]
        /\ outcome'[b] = outcome[b]
        /\ operation'[b] = operation[b]]_vars

\* A batch is applied only if, since the claim it was applied under, its
\* requester was an enabled operator of the bank and the route was active.
AppliedOnlyIfAuthorized ==
  [][\A b \in Batches :
        row[b].status # "succeeded" /\ row'[b].status = "succeeded"
          => authSince[b] = Grants]_vars

-----------------------------------------------------------------------------
(* Refinement *)

PhaseOf(status) ==
  IF status \in {"draft", "queued", "processing"} THEN "open"
  ELSE IF status = "succeeded" THEN "applied"
  ELSE IF status = "none" THEN "none" ELSE "rejected"

Promise == INSTANCE AtomicBatch WITH
  NoRequest <- None,
  phase <- [b \in Batches |-> PhaseOf(row[b].status)],
  wanted <- [b \in Batches |->
               IF request[b] = None THEN None
               ELSE [target |-> request[b].target, items |-> request[b].items]]

\* Leases, workers, crashes and row locks are invisible: the batches behave
\* as AtomicBatch says.
ImplementsAtomicBatch == Promise!Spec

-----------------------------------------------------------------------------
(* Liveness *)

\* A dispatched batch is settled, as long as the bank's route stays active
\* from some time on: crashes and lost leases delay it but never strand it.
DispatchedIsSettled ==
  <>[]routeActive =>
     \A b \in Batches : row[b].status \in {"queued", "processing"}
                           ~> row[b].status \in Terminal

-----------------------------------------------------------------------------
(* What the documents say and the code does not do *)

\* "Retries are bounded": no batch is attempted more often than configured.
AttemptsBounded == \A b \in Batches : row[b].attempts <= BatchMaxAttempts

\* "The old card keeps its identity and history until activation of the
\* successor closes it": no successor is in use next to its predecessor.
SuccessorReplacesPredecessor ==
  \A c \in Cards : card[c] = "active" /\ Predecessor[c] # NoCard
                     => card[Predecessor[c]] \notin {"active", "suspended"}

\* "lock the batch, verify worker ownership and bank eligibility": a worker
\* enters the execution transaction only while the bank's route is active.
BankEligibleAtExecution ==
  [][\A w \in Workers : ~InTransaction(w) /\ InTransaction(w)' => routeActive]_vars
=============================================================================
