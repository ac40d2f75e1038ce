----------------------------- MODULE ExpiryRun -----------------------------
(***************************************************************************)
(* The daily expiry runs of one bank: the executor's scheduling and its    *)
(* expiry goroutines (internal/executor/service.go and                     *)
(* repository/shard/executor_store.go), the manual retry of the API        *)
(* (RetryExpiryItem) and the triggers that guard runs and items            *)
(* (database/migrations/shard/001_initial.sql).                            *)
(*                                                                         *)
(* A transaction that decides something about its run, the end of an       *)
(* attempt or a manual retry, is two actions: it reads the committed rows  *)
(* and takes its locks in one, and its writes are visible from the other,  *)
(* its commit, on.  Scheduling, claiming and recovery are one action each. *)
(*                                                                         *)
(* Left out: audit rows, card_operations rows (queued with their item and  *)
(* succeeded with it), the idempotency record of the manual retry, the     *)
(* text of failures and all timestamps (a lease is current or expired, a   *)
(* pending item is due or backing off, days are numbered).                 *)
(***************************************************************************)
EXTENDS CardLifecycle, Integers, FiniteSets

CONSTANTS
  Cards,
  DueOn,               \* the day each card expires on
  LastDay,             \* bound: days 1..LastDay
  Executors, Workers,  \* daemons and their goroutine slots
  Identity,            \* the daemon each slot belongs to
  None,
  Commands,            \* card actions of the API in this instance
  ScheduleBatchSize,   \* expiryScheduleBatchSize
  AutomaticRetries,    \* 3 in the code and in the schema
  MaxManual,           \* bound: manual retries of one item
  MaxFaults            \* bound: crashes, failed calls, outlived leases

Days == 1..LastDay
Items == Days \X Cards

ASSUME ExpiryAssumption ==
  /\ DueOn \in [Cards -> Nat] /\ IsFiniteSet(Cards)
  /\ LastDay \in Nat \ {0} /\ ScheduleBatchSize \in Nat \ {0}
  /\ Identity \in [Workers -> Executors]
  /\ None \notin Executors /\ None \notin Items
  /\ Commands \subseteq CardActions \ {"expire"}
  /\ AutomaticRetries \in Nat /\ MaxManual \in Nat /\ MaxFaults \in Nat

VARIABLES
  today,      \* the UTC date
  card,       \* bank.cards.status
  expiredBy,  \* items whose transaction wrote card_status_history for a card
  run,        \* bank.card_expiry_runs of each day
  item,       \* bank.card_expiry_run_items of each day and card
  cycle,      \* where each daemon's polling loop is, for this bank
  worker,     \* runExpiry goroutines
  retry,      \* the manual retry transaction in flight, or None
  claims,     \* ghost: how often each item was claimed
  faults

rowVars == <<card, expiredBy, run, item>>
vars == <<today, card, expiredBy, run, item, cycle, worker, retry, claims, faults>>

-----------------------------------------------------------------------------

Settled == {"expired", "skipped_already_expired", "manual_retry_required"}
Final == {"expired", "skipped_already_expired"}
Open == {"pending", "processing"}
ItemStates == {"none"} \cup Open \cup Settled

Item == [status : ItemStates, attempts : Nat, automatic : 0..AutomaticRetries, manual : Nat,
         due : BOOLEAN, owner : Executors \cup {None}, version : Nat, current : BOOLEAN]
NewItem == [status |-> "none", attempts |-> 0, automatic |-> 0, manual |-> 0,
            due |-> FALSE, owner |-> None, version |-> 0, current |-> FALSE]

Tally == [expired : Nat, skipped : Nat, manual : Nat]
NoTally == [expired |-> 0, skipped |-> 0, manual |-> 0]
\* late is a ghost: the cards whose items an operator asked to retry while the
\* run was still processing, since it was last reopened.
Run == [status : {"none", "processing", "completed"}, count : Nat, tally : Tally,
        late : SUBSET Cards]

\* version and automatic are the claim's; result is what the transaction will
\* write, completes whether it also completes the run, with which tally.
Worker == [pc : {"idle", "claimed", "verified", "judged", "failed", "prepared"},
           item : Items \cup {None}, version : Nat, automatic : Nat,
           result : ItemStates, completes : BOOLEAN, tally : Tally]
IdleWorker == [pc |-> "idle", item |-> None, version |-> 0, automatic |-> 0,
               result |-> "none", completes |-> FALSE, tally |-> NoTally]

TypeOK ==
  /\ today \in Days
  /\ card \in [Cards -> CardStates]
  /\ expiredBy \in [Cards -> SUBSET Items]
  /\ run \in [Days -> Run]
  /\ item \in [Items -> Item]
  /\ cycle \in [Executors -> {"waiting", "ensured", "recovered"}]
  /\ worker \in [Workers -> Worker]
  /\ retry \in {None} \cup [item : Items, reopens : BOOLEAN]
  /\ claims \in [Items -> Nat]
  /\ faults \in Nat

Init ==
  /\ today = 1
  /\ card = [c \in Cards |-> "active"]
  /\ expiredBy = [c \in Cards |-> {}]
  /\ run = [d \in Days |-> [status |-> "none", count |-> 0, tally |-> NoTally, late |-> {}]]
  /\ item = [i \in Items |-> NewItem]
  /\ cycle = [e \in Executors |-> "waiting"]
  /\ worker = [w \in Workers |-> IdleWorker]
  /\ retry = None
  /\ claims = [i \in Items |-> 0]
  /\ faults = 0

-----------------------------------------------------------------------------
(* Locks, leases and tallies *)

ItemLocked(i) ==
  \/ \E w \in Workers : worker[w].pc \in {"verified", "judged", "prepared"} /\ worker[w].item = i
  \/ retry # None /\ retry.item = i

CardLocked(c) ==
  \E w \in Workers : /\ worker[w].pc \in {"judged", "prepared"}
                     /\ worker[w].result \in Final
                     /\ worker[w].item[2] = c

RunLocked(d) ==
  \/ \E w \in Workers : /\ worker[w].pc = "prepared" /\ worker[w].completes
                        /\ worker[w].item[1] = d
  \/ retry # None /\ retry.reopens /\ retry.item[1] = d

ItemsOf(d) == {d} \X Cards

\* The WHERE clause that fences every write of a goroutine.
Holds(w) ==
  LET r == item[worker[w].item] IN
  /\ r.status = "processing"
  /\ r.owner = Identity[w]
  /\ r.version = worker[w].version
  /\ r.current

\* The counts of a run, given the status of each item.
TallyOf(d, status) ==
  LET n(s) == Cardinality({i \in ItemsOf(d) : status[i] = s}) IN
  [expired |-> n("expired"), skipped |-> n("skipped_already_expired"),
   manual |-> n("manual_retry_required")]

\* Mutation of Completable: items being processed do not hold a run open.
CompletableWhileProcessing(d, status) ==
  run[d].status = "processing" /\ \A i \in ItemsOf(d) : status[i] # "pending"

\* completeExpiryRun completes a processing run without open items.
Completable(d, status) ==
  /\ run[d].status = "processing"
  /\ \A i \in ItemsOf(d) : status[i] \notin Open

StatusOf == [i \in Items |-> item[i].status]

Goto(w, pc) == worker' = [worker EXCEPT ![w].pc = pc]
Finish(w) == worker' = [worker EXCEPT ![w] = IdleWorker]

\* An error that cycle returns ends the process; it is started again.
ProcessEnds(e) ==
  /\ worker' = [w \in Workers |-> IF Identity[w] = e THEN IdleWorker ELSE worker[w]]
  /\ cycle' = [cycle EXCEPT ![e] = "waiting"]

-----------------------------------------------------------------------------
(* Scheduling *)

MidnightPasses ==
  /\ today < LastDay
  /\ today' = today + 1
  /\ UNCHANGED <<rowVars, cycle, worker, retry, claims, faults>>

\* Cards to schedule today, FOR UPDATE SKIP LOCKED.
Eligible ==
  {c \in Cards : /\ card[c] \in {"pending", "issued", "active", "suspended"}
                 /\ DueOn[c] <= today
                 /\ item[<<today, c>>].status = "none"
                 /\ ~CardLocked(c)}

\* guard_expiry_run refuses to touch a completed run that does not account
\* for every item.
ExactCounts(d) ==
  LET t == run[d].tally IN
  /\ \A i \in ItemsOf(d) : item[i].status \notin Open
  /\ t = TallyOf(d, StatusOf)
  /\ run[d].count = t.expired + t.skipped + t.manual

RunTouchable(d) == run[d].status = "completed" => ExactCounts(d)

EnsureExpiryRun(e) ==
  /\ cycle[e] = "waiting"
  /\ ~RunLocked(today)
  /\ RunTouchable(today)
  /\ \E new \in SUBSET Eligible :
       /\ Cardinality(new) = IF Cardinality(Eligible) < ScheduleBatchSize
                               THEN Cardinality(Eligible) ELSE ScheduleBatchSize
       /\ item' = [i \in Items |-> IF i \in {today} \X new
                                     THEN [NewItem EXCEPT !.status = "pending", !.due = TRUE]
                                     ELSE item[i]]
       /\ run' = [run EXCEPT ![today].count = @ + Cardinality(new),
                             ![today].status = IF @ = "completed" /\ new = {}
                                                 THEN "completed" ELSE "processing"]
  /\ cycle' = [cycle EXCEPT ![e] = "ensured"]
  /\ UNCHANGED <<today, card, expiredBy, worker, retry, claims, faults>>

EnsureRaises(e) ==
  /\ cycle[e] = "waiting"
  /\ ~RunLocked(today)
  /\ ~RunTouchable(today)
  /\ ProcessEnds(e)
  /\ UNCHANGED <<today, rowVars, retry, claims, faults>>

\* Mutation of AfterFailure: the third retry is granted once more.
AfterFailureOnceMore(automatic) ==
  IF automatic > AutomaticRetries THEN "manual_retry_required" ELSE "pending"

\* Where an attempt that did not succeed leaves its item.
AfterFailure(automatic) ==
  IF automatic >= AutomaticRetries THEN "manual_retry_required" ELSE "pending"

\* The item after a failed attempt, in status s; a recovered one is due.
FailedItem(r, s, recovered) ==
  [r EXCEPT !.status = s, !.attempts = @ + 1, !.owner = None, !.current = FALSE,
            !.automatic = IF s = "pending" THEN @ + 1 ELSE @,
            !.version = IF recovered THEN @ + 1 ELSE @,
            !.due = recovered]

\* The item after the attempt that gave it its final result.
DoneItem(r, s) ==
  [r EXCEPT !.status = s, !.attempts = @ + 1, !.owner = None, !.current = FALSE]

\* guard_expiry_run_item lets items change only while their run is processing.
Changeable(i) == run[i[1]].status = "processing"

\* Mutation of Recoverable: items without automatic retries are left alone.
RecoverableWithinLimit(i) ==
  /\ item[i].status = "processing" /\ ~item[i].current /\ ~ItemLocked(i)
  /\ item[i].automatic < AutomaticRetries

Recoverable(i) == item[i].status = "processing" /\ ~item[i].current /\ ~ItemLocked(i)

RecoverExpiryItems(e) ==
  /\ cycle[e] = "ensured"
  /\ \A i \in Items : Recoverable(i) => Changeable(i)
  /\ item' = [i \in Items |->
        IF Recoverable(i) THEN FailedItem(item[i], AfterFailure(item[i].automatic), TRUE)
                          ELSE item[i]]
  /\ LET status == [i \in Items |-> item'[i].status]
         completed == {d \in Days : /\ \E i \in ItemsOf(d) : Recoverable(i)
                                    /\ Completable(d, status)}
     IN /\ \A d \in completed : ~RunLocked(d)
        /\ run' = [d \in Days |-> IF d \in completed
                                    THEN [run[d] EXCEPT !.status = "completed",
                                                        !.tally = TallyOf(d, status)]
                                    ELSE run[d]]
  /\ cycle' = [cycle EXCEPT ![e] = "recovered"]
  /\ UNCHANGED <<today, card, expiredBy, worker, retry, claims, faults>>

RecoverRaises(e) ==
  /\ cycle[e] = "ensured"
  /\ \E i \in Items : Recoverable(i) /\ ~Changeable(i)
  /\ ProcessEnds(e)
  /\ UNCHANGED <<today, rowVars, retry, claims, faults>>

Claimable(i) == item[i].status = "pending" /\ item[i].due /\ ~ItemLocked(i)

\* The trigger also refuses to claim an item of an expired card.
ClaimAllowed(i) == Changeable(i) /\ card[i[2]] # "expired"

ClaimExpiryItem(w, i) ==
  /\ cycle[Identity[w]] = "recovered"
  /\ worker[w].pc = "idle"
  /\ Claimable(i) /\ ClaimAllowed(i)
  /\ item' = [item EXCEPT ![i].status = "processing", ![i].owner = Identity[w],
                          ![i].current = TRUE, ![i].version = @ + 1]
  /\ worker' = [worker EXCEPT ![w] =
        [IdleWorker EXCEPT !.pc = "claimed", !.item = i, !.version = item[i].version + 1,
                           !.automatic = item[i].automatic]]
  /\ claims' = [claims EXCEPT ![i] = @ + 1]
  /\ cycle' = [cycle EXCEPT ![Identity[w]] = "waiting"]
  /\ UNCHANGED <<today, card, expiredBy, run, retry, faults>>

\* The trigger's exception fails the claim, and with it the cycle.
ClaimRaises(w, i) ==
  /\ cycle[Identity[w]] = "recovered"
  /\ worker[w].pc = "idle"
  /\ Claimable(i) /\ ~ClaimAllowed(i)
  /\ ProcessEnds(Identity[w])
  /\ UNCHANGED <<today, rowVars, retry, claims, faults>>

SkipBank(e) ==
  /\ cycle[e] = "recovered"
  /\ \/ \A w \in Workers : Identity[w] = e => worker[w].pc # "idle"
     \/ \A i \in Items : ~Claimable(i)
  /\ cycle' = [cycle EXCEPT ![e] = "waiting"]
  /\ UNCHANGED <<today, rowVars, worker, retry, claims, faults>>

-----------------------------------------------------------------------------
(* runExpiry *)

\* verifyExpiryLease locks the item.
ApplyVerify(w) ==
  /\ worker[w].pc = "claimed"
  /\ ~ItemLocked(worker[w].item)
  /\ IF Holds(w) THEN Goto(w, "verified") ELSE Finish(w)
  /\ UNCHANGED <<today, rowVars, cycle, retry, claims, faults>>

\* Mutation of ApplyJudge: the card is read without being locked.
ApplyJudgeUnlocked(w) ==
  LET status == card[worker[w].item[2]] IN
  /\ worker[w].pc = "verified"
  /\ \/ /\ status = "expired" \/ Transition(status, "expire").valid
        /\ worker' = [worker EXCEPT ![w].pc = "judged", ![w].result =
                          IF status = "expired" THEN "skipped_already_expired" ELSE "expired"]
     \/ /\ status # "expired" /\ ~Transition(status, "expire").valid
        /\ Goto(w, "failed")
  /\ UNCHANGED <<today, rowVars, cycle, retry, claims, faults>>

\* The card is locked and judged; a closed card cannot expire.
ApplyJudge(w) ==
  LET status == card[worker[w].item[2]] IN
  /\ worker[w].pc = "verified"
  /\ ~CardLocked(worker[w].item[2])
  /\ \/ /\ status = "expired" \/ Transition(status, "expire").valid
        /\ worker' = [worker EXCEPT ![w].pc = "judged", ![w].result =
                          IF status = "expired" THEN "skipped_already_expired" ELSE "expired"]
     \/ /\ status # "expired" /\ ~Transition(status, "expire").valid
        /\ Goto(w, "failed")
  /\ UNCHANGED <<today, rowVars, cycle, retry, claims, faults>>

\* The guarded update of the item and completeExpiryRun, on what is
\* committed now; nothing is visible to others before the commit.
Prepare(w, result) ==
  LET i == worker[w].item
      status == [StatusOf EXCEPT ![i] = result]
      completes == Completable(i[1], status)
  IN
  /\ completes => ~RunLocked(i[1])
  /\ worker' = [worker EXCEPT ![w].pc = "prepared", ![w].result = result,
                              ![w].completes = completes,
                              ![w].tally = IF completes THEN TallyOf(i[1], status) ELSE NoTally]

ApplyFinish(w) ==
  /\ worker[w].pc = "judged"
  /\ \/ Holds(w) /\ Changeable(worker[w].item) /\ Prepare(w, worker[w].result)
     \/ Holds(w) /\ ~Changeable(worker[w].item) /\ Goto(w, "failed")
     \/ ~Holds(w) /\ Finish(w)
  /\ UNCHANGED <<today, rowVars, cycle, retry, claims, faults>>

\* Mutation of RequeueExpiryItem: the update does not name the lease.
RequeueUnfenced(w) ==
  /\ worker[w].pc = "failed"
  /\ ~ItemLocked(worker[w].item)
  /\ Prepare(w, AfterFailure(worker[w].automatic))
  /\ UNCHANGED <<today, rowVars, cycle, retry, claims, faults>>

\* RequeueExpiryItem, with one delay or another; its errors are dropped.
RequeueExpiryItem(w) ==
  /\ worker[w].pc = "failed"
  /\ ~ItemLocked(worker[w].item)
  /\ \/ Holds(w) /\ Changeable(worker[w].item) /\ Prepare(w, AfterFailure(worker[w].automatic))
     \/ ~(Holds(w) /\ Changeable(worker[w].item)) /\ Finish(w)
  /\ UNCHANGED <<today, rowVars, cycle, retry, claims, faults>>

\* What the commit publishes.
CommitEffects(w) ==
  LET i == worker[w].item
      result == worker[w].result
      expires == result = "expired"
  IN
  /\ card' = IF expires THEN [card EXCEPT ![i[2]] = "expired"] ELSE card
  /\ expiredBy' = IF expires THEN [expiredBy EXCEPT ![i[2]] = @ \cup {i}] ELSE expiredBy
  /\ item' = [item EXCEPT ![i] =
        IF result \in Final THEN DoneItem(@, result) ELSE FailedItem(@, result, FALSE)]
  /\ run' = IF worker[w].completes
              THEN [run EXCEPT ![i[1]].status = "completed", ![i[1]].tally = worker[w].tally]
              ELSE run

Commit(w) ==
  /\ worker[w].pc = "prepared"
  /\ CommitEffects(w)
  /\ Finish(w)
  /\ UNCHANGED <<today, cycle, retry, claims, faults>>

\* The acknowledgement of ApplyExpiryItem's commit is lost.
CommitUnacknowledged(w) ==
  /\ worker[w].pc = "prepared" /\ worker[w].result \in Final
  /\ faults < MaxFaults /\ faults' = faults + 1
  /\ CommitEffects(w)
  /\ Goto(w, "failed")
  /\ UNCHANGED <<today, cycle, retry, claims>>

\* A database error rolls ApplyExpiryItem back.  Transient or not, it ends in
\* RequeueExpiryItem; an error of that one is dropped.
ApplyError(w) ==
  /\ worker[w].pc \in {"claimed", "verified", "judged"}
  /\ faults < MaxFaults /\ faults' = faults + 1
  /\ Goto(w, "failed")
  /\ UNCHANGED <<today, rowVars, cycle, retry, claims>>

RequeueError(w) ==
  /\ worker[w].pc = "failed"
  /\ faults < MaxFaults /\ faults' = faults + 1
  /\ Finish(w)
  /\ UNCHANGED <<today, rowVars, cycle, retry, claims>>

-----------------------------------------------------------------------------
(* API *)

\* The card is locked, judged and written in one transaction.
CardCommand(c, action) ==
  LET t == Transition(card[c], action) IN
  /\ t.valid /\ ~t.ignored
  /\ ~CardLocked(c)
  /\ card' = [card EXCEPT ![c] = t.target]
  /\ UNCHANGED <<today, expiredBy, run, item, cycle, worker, retry, claims, faults>>

\* RetryExpiryItem: reopen the run if it is completed, requeue the item.
RetryExpiryItem(i) ==
  /\ retry = None
  /\ item[i].status = "manual_retry_required" /\ item[i].manual < MaxManual
  /\ card[i[2]] # "expired"
  /\ ~ItemLocked(i)
  /\ LET reopens == run[i[1]].status = "completed" IN
     /\ reopens => ~RunLocked(i[1])
     /\ retry' = [item |-> i, reopens |-> reopens]
     /\ run' = IF reopens THEN run ELSE [run EXCEPT ![i[1]].late = @ \cup {i[2]}]
  /\ UNCHANGED <<today, card, expiredBy, item, cycle, worker, claims, faults>>

RetryCommit ==
  /\ retry # None
  /\ item' = [item EXCEPT ![retry.item].status = "pending", ![retry.item].due = TRUE,
                          ![retry.item].manual = @ + 1]
  /\ run' = IF retry.reopens
              THEN [run EXCEPT ![retry.item[1]].status = "processing", ![retry.item[1]].late = {}]
              ELSE run
  /\ retry' = None
  /\ UNCHANGED <<today, card, expiredBy, cycle, worker, claims, faults>>

\* The transaction is rolled back, on an error or because the client left: the
\* rows stay as they were, so no bound is needed.
RetryAborted ==
  /\ retry # None
  /\ retry' = None
  /\ UNCHANGED <<today, rowVars, cycle, worker, claims, faults>>

-----------------------------------------------------------------------------
(* Time and crashes *)

Attended(i) == \E w \in Workers : /\ worker[w].item = i /\ worker[w].pc # "idle"
                                  /\ worker[w].version = item[i].version

LeaseExpires(i) ==
  /\ item[i].status = "processing" /\ item[i].current
  /\ \/ ~Attended(i) /\ UNCHANGED faults
     \/ Attended(i) /\ faults < MaxFaults /\ faults' = faults + 1
  /\ item' = [item EXCEPT ![i].current = FALSE]
  /\ UNCHANGED <<today, card, expiredBy, run, cycle, worker, retry, claims>>

BackoffElapses(i) ==
  /\ item[i].status = "pending" /\ ~item[i].due
  /\ item' = [item EXCEPT ![i].due = TRUE]
  /\ UNCHANGED <<today, card, expiredBy, run, cycle, worker, retry, claims, faults>>

ExecutorExits(e) ==
  /\ faults < MaxFaults /\ faults' = faults + 1
  /\ ProcessEnds(e)
  /\ UNCHANGED <<today, rowVars, retry, claims>>

-----------------------------------------------------------------------------

CycleStep(e) ==
  \/ EnsureExpiryRun(e) \/ EnsureRaises(e) \/ RecoverExpiryItems(e) \/ RecoverRaises(e)
  \/ SkipBank(e)
  \/ \E w \in Workers, i \in Items :
        Identity[w] = e /\ (ClaimExpiryItem(w, i) \/ ClaimRaises(w, i))

RunExpiry(w) ==
  ApplyVerify(w) \/ ApplyJudge(w) \/ ApplyFinish(w) \/ RequeueExpiryItem(w) \/ Commit(w)

Errors(w) == ApplyError(w) \/ RequeueError(w) \/ CommitUnacknowledged(w)

Next ==
  \/ MidnightPasses
  \/ \E e \in Executors : CycleStep(e) \/ ExecutorExits(e)
  \/ \E w \in Workers : RunExpiry(w) \/ Errors(w)
  \/ \E c \in Cards, action \in Commands : CardCommand(c, action)
  \/ (\E i \in Items : RetryExpiryItem(i)) \/ RetryCommit \/ RetryAborted
  \/ \E i \in Items : LeaseExpires(i) \/ BackoffElapses(i)

Spec == Init /\ [][Next]_vars

\* The daemons poll, goroutines and transactions go on, leases and backoffs
\* run out.  Nothing is assumed of operators, of midnight or of failures.
Fairness ==
  /\ \A e \in Executors : WF_vars(CycleStep(e))
  /\ \A w \in Workers : WF_vars(RunExpiry(w))
  /\ WF_vars(RetryCommit)
  /\ \A i \in Items : /\ WF_vars(~Attended(i) /\ LeaseExpires(i))
                      /\ WF_vars(BackoffElapses(i))

FairSpec == Spec /\ Fairness

-----------------------------------------------------------------------------
(* Safety *)

\* However many runs, daemons and stale goroutines meet at a card, exactly
\* one item expires it: the card is expired if and only if one item says so,
\* and that item is the only one whose transaction wrote its history.  An item
\* that was skipped leaves its card to another item that expired it.
ExpiredOnce ==
  \A c \in Cards :
     /\ {d \in Days : item[<<d, c>>].status = "expired"} = {i[1] : i \in expiredBy[c]}
     /\ Cardinality(expiredBy[c]) = IF card[c] = "expired" THEN 1 ELSE 0
     /\ \A d \in Days : item[<<d, c>>].status = "skipped_already_expired" => card[c] = "expired"

\* An item is claimed at most once, and then once for each automatic and each
\* manual retry it was granted; crashes and recovered leases count too.
RetriesBounded ==
  \A i \in Items : /\ claims[i] <= 1 + AutomaticRetries + item[i].manual
                   /\ item[i].attempts <= claims[i]
                   /\ item[i].status = "manual_retry_required"
                        => item[i].automatic = AutomaticRetries

\* The statuses of the items, those of S on day d as before their retry.
BeforeRetry(d, S) ==
  [i \in Items |-> IF i \in {d} \X S THEN "manual_retry_required" ELSE item[i].status]

\* A completed run has no open item and accounts for every one of its items,
\* whatever goroutines end together, die or are recovered and whenever
\* operators retry items: a retry reopens the run.  Only an item whose retry
\* found the run not yet completed may be open, and counted as it was before.
CompletedRunsAreSettled ==
  \A d \in Days : run[d].status = "completed" =>
    \E missed \in SUBSET run[d].late :
      LET status == BeforeRetry(d, missed)
          t == run[d].tally
      IN  /\ \A i \in ItemsOf(d) : status[i] \notin Open
          /\ t = TallyOf(d, status)
          /\ run[d].count = t.expired + t.skipped + t.manual

\* "Completed expiry runs require exact terminal item counts".  (A retry may
\* commit between the look at its run's items and the commit that completes
\* the run.)
CompletedRunsAreExact == \A d \in Days : RunTouchable(d)

\* A final result, unlike manual_retry_required, is never changed.
FinalIsFinal ==
  [][\A i \in Items : item[i].status \in Final => item'[i] = item[i]]_vars

-----------------------------------------------------------------------------
(* Liveness *)

\* "A temporary failure for one card does not prevent other eligible cards
\* from expiring": every scheduled item gets a result.
ItemsSettle == \A i \in Items : item[i].status \in Open ~> item[i].status \in Settled

-----------------------------------------------------------------------------
(* What the tests expect of a run *)

\* Once every item of a run has a result and no transaction is open, the
\* aggregates of the run are the outcomes of its items.
SettledRunsAreCounted ==
  \A d \in Days :
     (\E i \in ItemsOf(d) : item[i].status # "none")
     /\ (\A i \in ItemsOf(d) : item[i].status \in Settled \cup {"none"})
     /\ retry = None
       => run[d].tally = TallyOf(d, StatusOf)
=============================================================================
