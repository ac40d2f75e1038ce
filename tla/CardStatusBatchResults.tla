----------------------- MODULE CardStatusBatchResults -----------------------
(***************************************************************************)
(* What a batch leaves behind, for every instance of CardStatusBatch: the  *)
(* items, the counts and the histories agree, a settled batch is final, it *)
(* was applied only under grants that had held, and the whole implements   *)
(* AtomicBatch.  The proofs rest on LeaseInv (CardStatusBatchProofs).      *)
(***************************************************************************)
EXTENDS CardStatusBatchProofs, SequenceTheorems

-----------------------------------------------------------------------------
(* The kinds of steps that the tables of the shard can see *)

Open == {"draft", "queued", "processing"}

\* A row that is dispatched, claimed, recovered or requeued, or only ages.
StaysOpen(old, new) ==
  /\ old.status \in Open /\ new.status \in Open
  /\ new.applied = old.applied /\ new.ignored = old.ignored

OpenRowsMove ==
  /\ UNCHANGED <<card, history, request, outcome, operation>>
  /\ \A b \in Batches : row'[b] = row[b] \/ StaysOpen(row[b], row'[b])

\* What a retry has in common with the batch it repeats.
Repeats(req) ==
  req.retryOf # None => /\ req.retryOf \in Batches
                        /\ row[req.retryOf].status \in {"failed", "cancelled"}
                        /\ req.items = request[req.retryOf].items

Submission == \E b \in Batches, req \in Request : Accept(b, req) /\ Repeats(req)

Application(w) == worker[w].pc = "locked" /\ Holds(w) /\ ApplyEffects(w)

Rejection(w) ==
  /\ Busy(w) /\ Holds(w)
  /\ \E code \in FailureCodes : FailEffects(w, code)
  /\ UNCHANGED <<card, history, request>>

ShardStep ==
  \/ Submission
  \/ OpenRowsMove
  \/ \E b \in Batches : CancelCardStatusBatch(b)
  \/ \E w \in Workers : Application(w) \/ Rejection(w)
  \/ \E c \in Cards, action \in Commands : CardCommand(c, action)

LEMMA QuietShard == ASSUME UNCHANGED dbVars PROVE ShardStep
  BY DEF dbVars, ShardStep, OpenRowsMove

\* One row stays open, the others are as they were.
LEMMA OneRowMoves ==
  ASSUME LeaseInv, NEW b \in Batches, NEW r, row' = [row EXCEPT ![b] = r],
         StaysOpen(row[b], r), UNCHANGED <<card, history, request, outcome, operation>>
  PROVE  OpenRowsMove
  BY DEF OpenRowsMove, LeaseInv, KnownInv, TypeOK

LEMMA SubmissionSteps ==
  ASSUME LeaseInv, NEW b \in Batches, NEW u \in Users,
         \/ CreateCardStatusBatch(b, u)
         \/ \E source \in Batches : RetryCardStatusBatch(b, source, u)
  PROVE  Submission
  <1>1. CASE CreateCardStatusBatch(b, u)
    <2>1. PICK target \in Targets, items \in SUBSET Cards \ {{}} :
             Accept(b, [target |-> target, items |-> items, by |-> u, retryOf |-> None])
      BY <1>1 DEF CreateCardStatusBatch
    <2> DEFINE req == [target |-> target, items |-> items, by |-> u, retryOf |-> None]
    <2>2. req \in Request /\ req.retryOf = None
      BY ConstantsAssumption DEF Request
    <2> HIDE DEF req
    <2>3. Repeats(req)
      BY <2>2 DEF Repeats
    <2> QED
      BY <2>1, <2>2, <2>3 DEF Submission, req
  <1>2. CASE \E source \in Batches : RetryCardStatusBatch(b, source, u)
    <2>1. PICK source \in Batches :
             /\ row[source].status \in {"failed", "cancelled"}
             /\ Accept(b, [request[source] EXCEPT !.by = u, !.retryOf = source])
      BY <1>2 DEF RetryCardStatusBatch, RetryOf
    <2> DEFINE q == request[source]
               req == [q EXCEPT !.by = u, !.retryOf = source]
    <2>2. q \in Request
      BY <2>1 DEF LeaseInv, KnownInv, RequestsKnown
    <2>3. Accept(b, req)
      BY <2>1
    <2> HIDE DEF q
    <2>4. req \in Request /\ req.retryOf = source /\ req.items = q.items
      BY <2>2 DEF Request
    <2> HIDE DEF req
    <2>5. Repeats(req)
      BY <2>1, <2>4 DEF Repeats, q
    <2> QED
      BY <2>3, <2>4, <2>5 DEF Submission
  <1> QED
    BY <1>1, <1>2

\* Dispatch and time.
LEMMA AgeSteps ==
  ASSUME LeaseInv, NEW b \in Batches,
         ExecuteCardStatusBatch(b) \/ LeaseExpires(b) \/ BackoffElapses(b)
  PROVE  OpenRowsMove
  <1> DEFINE r == row[b]
  <1>1. r \in Row
    BY DEF LeaseInv, KnownInv, TypeOK
  <1>2. UNCHANGED <<card, history, request, outcome, operation>>
    BY DEF ExecuteCardStatusBatch, LeaseExpires, BackoffElapses
  <1>3. \/ /\ row' = [row EXCEPT ![b] = [r EXCEPT !.status = "queued", !.due = TRUE]]
           /\ r.status = "draft"
        \/ row' = [row EXCEPT ![b] = [r EXCEPT !.current = FALSE]] /\ r.status = "processing"
        \/ row' = [row EXCEPT ![b] = [r EXCEPT !.due = TRUE]] /\ r.status = "queued"
    BY DEF ExecuteCardStatusBatch, LeaseExpires, BackoffElapses, Dispatched
  <1> HIDE DEF r
  <1>4. /\ r.status = "draft" => StaysOpen(r, [r EXCEPT !.status = "queued", !.due = TRUE])
        /\ r.status = "processing" => StaysOpen(r, [r EXCEPT !.current = FALSE])
        /\ r.status = "queued" => StaysOpen(r, [r EXCEPT !.due = TRUE])
    BY <1>1 DEF Row, StaysOpen, Open
  <1> QED
    BY <1>2, <1>3, <1>4, OneRowMoves DEF r

LEMMA ClaimedStaysOpen ==
  ASSUME NEW r \in Row, NEW e \in Executors, r.status = "queued"
  PROVE  StaysOpen(r, ClaimedRow(r, e))
  <1> DEFINE v == r.version + 1
             a == r.attempts + 1
  <1>1. ClaimedRow(r, e) = [r EXCEPT !.status = "processing", !.owner = e, !.current = TRUE,
                                     !.version = v, !.attempts = a]
    BY DEF ClaimedRow
  <1> HIDE DEF v, a
  <1> QED
    BY <1>1 DEF Row, StaysOpen, Open

LEMMA RecoveredStaysOpen ==
  ASSUME NEW r \in Row, r.status = "processing"
  PROVE  StaysOpen(r, RecoveredRow(r))
  <1> DEFINE v == r.version + 1
             q == Released(r, "queued")
  <1>1. q = [r EXCEPT !.status = "queued", !.owner = None, !.current = FALSE]
    BY ZenonT(40), ReleasedRow DEF BatchStates
  <1>2. RecoveredRow(r) = [q EXCEPT !.version = v, !.due = TRUE]
    BY DEF RecoveredRow
  <1> HIDE DEF v, q
  <1> QED
    BY SMTT(30), <1>1, <1>2 DEF Row, StaysOpen, Open

LEMMA RequeuedStaysOpen ==
  ASSUME NEW r \in Row, r.status = "processing", NEW code \in FailureCodes
  PROVE  StaysOpen(r, [Released(r, "queued") EXCEPT !.due = FALSE, !.failure = code])
  <1> DEFINE q == Released(r, "queued")
  <1>1. q = [r EXCEPT !.status = "queued", !.owner = None, !.current = FALSE]
    BY ReleasedRow DEF BatchStates
  <1> HIDE DEF q
  <1>2. StaysOpen(r, [q EXCEPT !.due = FALSE, !.failure = code])
    BY <1>1 DEF Row, StaysOpen, Open
  <1> QED
    BY <1>2 DEF q

LEMMA CycleSteps ==
  ASSUME LeaseInv, CycleNext
  PROVE  ShardStep
  <1>1. \A b \in Batches : row[b] \in Row
    BY DEF LeaseInv, KnownInv, TypeOK
  <1>2. ASSUME NEW e \in Executors, ListBanks(e) \/ SkipBank(e) PROVE ShardStep
    BY <1>2, QuietShard DEF ListBanks, SkipBank
  <1>3. ASSUME NEW e \in Executors, RecoverBatches(e) PROVE OpenRowsMove
    <2>1. \A b \in Batches : row'[b] = row[b] \/ StaysOpen(row[b], row'[b])
      BY <1>1, <1>3, RecoveredStaysOpen DEF RecoverBatches, Recoverable
    <2> QED
      BY <1>3, <2>1 DEF RecoverBatches, OpenRowsMove
  <1>4. ASSUME NEW w \in Workers, NEW b \in Batches, ClaimBatch(w, b) PROVE OpenRowsMove
    <2>1. StaysOpen(row[b], ClaimedRow(row[b], Identity[w]))
      BY <1>1, <1>4, ClaimedStaysOpen, ConstantsAssumption DEF ClaimBatch, Claimable
    <2> QED
      BY <1>4, <2>1, OneRowMoves DEF ClaimBatch
  <1> QED
    BY <1>2, <1>3, <1>4 DEF CycleNext, ShardStep

LEMMA ReportSteps ==
  ASSUME LeaseInv, NEW w \in Workers, ReportFailure(w) \/ RetryBatch(w)
  PROVE  ShardStep
  <1> DEFINE b == worker[w].batch
  <1>1. Busy(w) /\ UNCHANGED <<card, history, request>>
    BY DEF ReportFailure, RetryBatch, Busy
  <1>2. worker[w].code \in FailureCodes /\ "retry_exhausted" \in FailureCodes
    BY DEF LeaseInv, KnownInv, TypeOK, Worker, FailureCodes
  <1>3. \/ UNCHANGED <<outcome, operation, row>>
        \/ Holds(w) /\ \E code \in FailureCodes : FailEffects(w, code)
        \/ Holds(w) /\ RequeueEffects(w)
    BY <1>2 DEF ReportFailure, RetryBatch, FailBatch, RequeueBatch, Fenced
  <1>4. CASE UNCHANGED <<outcome, operation, row>>
    BY <1>1, <1>4, QuietShard DEF dbVars
  <1>5. CASE Holds(w) /\ \E code \in FailureCodes : FailEffects(w, code)
    BY <1>1, <1>5 DEF ShardStep, Rejection
  <1>6. CASE Holds(w) /\ RequeueEffects(w)
    <2> DEFINE r == [Released(row[b], "queued") EXCEPT !.due = FALSE, !.failure = worker[w].code]
    <2>1. b \in Batches /\ row[b] \in Row /\ row[b].status = "processing"
      BY <1>1, <1>6, WorkerItems DEF Holds
    <2>2. StaysOpen(row[b], r)
      BY <2>1, <1>2, RequeuedStaysOpen
    <2>3. row' = [row EXCEPT ![b] = r] /\ UNCHANGED <<outcome, operation>>
      BY <1>6 DEF RequeueEffects
    <2> HIDE DEF r
    <2> QED
      BY <1>1, <2>1, <2>2, <2>3, OneRowMoves DEF ShardStep
  <1> QED
    BY <1>3, <1>4, <1>5, <1>6

\* Every step of the system is one of those kinds.
LEMMA StepKinds ==
  ASSUME LeaseInv, [Next]_vars
  PROVE  ShardStep
  <1>1. CASE ApiNext
    BY <1>1, SubmissionSteps, AgeSteps DEF ApiNext, ShardStep
  <1>2. CASE ControlNext
    BY <1>2, QuietShard DEF ControlNext, UpdateUser, SetBankRouteStatus
  <1>3. CASE CycleNext
    BY <1>3, CycleSteps
  <1>4. CASE TimeNext
    BY <1>4, AgeSteps DEF TimeNext, ShardStep
  <1>5. ASSUME NEW w \in Workers, RunBatch(w) \/ Errors(w) PROVE ShardStep
    <2>1. CASE ReportFailure(w) \/ RetryBatch(w)
      BY <2>1, ReportSteps
    <2>2. CASE ApplyCommit(w) \/ ApplyCommitUnacknowledged(w)
      <3>1. UNCHANGED dbVars \/ Application(w)
        BY <2>2 DEF ApplyCommit, ApplyCommitUnacknowledged, Application
      <3> QED
        BY <3>1, QuietShard DEF ShardStep
    <2>3. CASE \/ LookupUser(w) \/ LookupRoutes(w) \/ ApplyVerify(w) \/ ApplyLockCards(w)
               \/ ControlUnavailable(w) \/ ApplyError(w) \/ ReportLost(w)
      <3>1. UNCHANGED dbVars
        BY <2>3 DEF LookupUser, LookupRoutes, ApplyVerify, ApplyLockCards,
                    ControlUnavailable, ApplyError, ReportLost
      <3> QED
        BY <3>1, QuietShard
    <2> QED
      BY <1>5, <2>1, <2>2, <2>3 DEF RunBatch, Errors
  <1>6. CASE \E e \in Executors : ExecutorExits(e)
    BY <1>6, QuietShard DEF ExecutorExits
  <1>7. CASE UNCHANGED vars
    BY <1>7, QuietShard DEF vars, dbVars
  <1> QED
    BY <1>1, <1>2, <1>3, <1>4, <1>5, <1>6, <1>7 DEF Next

-----------------------------------------------------------------------------
(* What each kind of step does to a batch and to the others *)

SameBatch(b) ==
  /\ row'[b] = row[b] /\ request'[b] = request[b]
  /\ outcome'[b] = outcome[b] /\ operation'[b] = operation[b]

LEMMA SubmissionEffects ==
  ASSUME LeaseInv, NEW b \in Batches, NEW req \in Request, Accept(b, req)
  PROVE  /\ row[b].status = "none" /\ row'[b].status = "draft"
         /\ row'[b].applied = row[b].applied /\ row'[b].ignored = row[b].ignored
         /\ request'[b] = req
         /\ \A c \in Cards :
               /\ outcome'[b][c] = IF c \in req.items THEN "pending" ELSE "none"
               /\ operation'[b][c] = IF c \in req.items THEN "queued" ELSE "none"
         /\ \A d \in Batches \ {b} : SameBatch(d)
         /\ UNCHANGED <<card, history, worker>>
  <1> DEFINE r == row[b]
             s == [r EXCEPT !.status = "draft"]
  <1>1. r \in Row /\ row \in [Batches -> Row] /\ request \in [Batches -> Request \cup {None}]
    BY DEF LeaseInv, KnownInv, TypeOK
  <1>2. r.status = "none" /\ row' = [row EXCEPT ![b] = s]
    BY DEF Accept
  <1> HIDE DEF r
  <1>3. s.status = "draft" /\ s.applied = r.applied /\ s.ignored = r.ignored
    BY <1>1 DEF Row
  <1> HIDE DEF s
  <1>4. row'[b] = s /\ \A d \in Batches \ {b} : row'[d] = row[d]
    BY <1>1, <1>2
  <1>5. request'[b] = req /\ \A d \in Batches \ {b} : request'[d] = request[d]
    BY <1>1 DEF Accept
  <1>6. /\ outcome'[b] = ItemsOf(req, "pending")
        /\ \A d \in Batches \ {b} : outcome'[d] = outcome[d]
        /\ operation'[b] = ItemsOf(req, "queued")
        /\ \A d \in Batches \ {b} : operation'[d] = operation[d]
    BY DEF Accept, LeaseInv, KnownInv, TypeOK
  <1> QED
    BY <1>2, <1>3, <1>4, <1>5, <1>6 DEF Accept, ItemsOf, SameBatch, r

LEMMA CancelEffects ==
  ASSUME LeaseInv, NEW b \in Batches, CancelCardStatusBatch(b)
  PROVE  /\ row[b].status \in {"draft", "queued"} /\ row'[b].status = "cancelled"
         /\ row'[b].applied = row[b].applied /\ row'[b].ignored = row[b].ignored
         /\ \A d \in Batches \ {b} : row'[d] = row[d]
         /\ UNCHANGED <<card, history, request, outcome, operation, worker>>
  <1> DEFINE r == row[b]
             s == [r EXCEPT !.status = "cancelled"]
  <1>1. r \in Row /\ row \in [Batches -> Row]
    BY DEF LeaseInv, KnownInv, TypeOK
  <1>2. r.status \in {"draft", "queued"} /\ row' = [row EXCEPT ![b] = s]
    BY DEF CancelCardStatusBatch
  <1> HIDE DEF r
  <1>3. s.status = "cancelled" /\ s.applied = r.applied /\ s.ignored = r.ignored
    BY <1>1 DEF Row
  <1> HIDE DEF s
  <1>4. row'[b] = s /\ \A d \in Batches \ {b} : row'[d] = row[d]
    BY <1>1, <1>2
  <1> QED
    BY <1>2, <1>3, <1>4 DEF CancelCardStatusBatch, r

\* The counts of a settled row are the ones it was given.
LEMMA SettledCounts ==
  ASSUME NEW r \in Row, NEW n \in Nat, NEW m \in Nat, NEW code \in FailureCodes
  PROVE  /\ LET q == [Released(r, "succeeded") EXCEPT !.applied = n, !.ignored = m]
            IN  q.status = "succeeded" /\ q.applied = n /\ q.ignored = m
         /\ LET q == [Released(r, "failed") EXCEPT !.ignored = m, !.applied = 0, !.failure = code]
            IN  q.status = "failed" /\ q.applied = 0 /\ q.ignored = m
  <1> DEFINE x == Released(r, "succeeded")
             y == Released(r, "failed")
  <1>1. x \in Row /\ x.status = "succeeded" /\ y \in Row /\ y.status = "failed"
    BY ReleasedRow DEF BatchStates
  <1> HIDE DEF x, y
  <1>2. /\ LET q == [x EXCEPT !.applied = n, !.ignored = m]
           IN  q.status = "succeeded" /\ q.applied = n /\ q.ignored = m
        /\ LET q == [y EXCEPT !.ignored = m, !.applied = 0, !.failure = code]
           IN  q.status = "failed" /\ q.applied = 0 /\ q.ignored = m
    BY <1>1 DEF Row
  <1> QED
    BY SMTT(30), <1>2 DEF x, y

\* The batch of a goroutine that holds its lease.
LEMMA HeldBatch ==
  ASSUME LeaseInv, NEW w \in Workers, Busy(w), Holds(w)
  PROVE  /\ worker[w].batch \in Batches
         /\ row[worker[w].batch].status = "processing"
         /\ request[worker[w].batch] \in Request
         /\ Items(w) = request[worker[w].batch].items
         /\ Items(w) \subseteq Cards
  BY WorkerItems DEF Holds, Items, LeaseInv, KnownInv, RequestsKnown

LEMMA ApplicationEffects ==
  ASSUME LeaseInv, NEW w \in Workers, Application(w)
  PROVE  LET b == worker[w].batch IN
         /\ row'[b].status = "succeeded"
         /\ row'[b].applied = Cardinality(Applied(w))
         /\ row'[b].ignored = Cardinality(Ignored(w))
         /\ \A c \in Cards :
               /\ outcome'[b][c] = IF c \in Applied(w) THEN "applied"
                                   ELSE IF c \in Ignored(w) THEN "ignored" ELSE outcome[b][c]
               /\ operation'[b][c] = IF c \in Items(w) THEN "succeeded" ELSE operation[b][c]
               /\ card'[c] = IF c \in Items(w) THEN Target(w) ELSE card[c]
               /\ history'[c] = IF c \in Applied(w)
                                  THEN Append(history[c], [previous |-> card[c],
                                                           new |-> Target(w), source |-> b])
                                  ELSE history[c]
         /\ \A d \in Batches \ {b} : SameBatch(d)
         /\ request' = request
         /\ \A c \in Applied(w) : c \in Items(w) /\ card[c] # Target(w)
         /\ \A c \in Items(w) \ Applied(w) : card[c] = Target(w)
  <1> DEFINE b == worker[w].batch
  <1>1. Busy(w) /\ Holds(w) /\ ApplyEffects(w) /\ worker[w].pc = "locked"
    BY DEF Application, Busy
  <1>2. b \in Batches /\ row[b] \in Row /\ Items(w) \subseteq Cards
    BY <1>1, WorkerItems
  <1>3. \A c \in Items(w) : worker[w].read[c] = card[c]
    BY <1>1 DEF LeaseInv, ReadsStayCurrent
  <1>4. /\ \A c \in Applied(w) : c \in Items(w) /\ card[c] # Target(w)
        /\ \A c \in Items(w) \ Applied(w) : card[c] = Target(w)
    BY <1>3 DEF Applied
  <1>5. \A c \in Cards : card'[c] = IF c \in Items(w) THEN Target(w) ELSE card[c]
    BY <1>1, <1>4 DEF ApplyEffects
  <1>6. \A c \in Cards : history'[c] = IF c \in Applied(w)
           THEN Append(history[c], [previous |-> card[c], new |-> Target(w), source |-> b])
           ELSE history[c]
    BY <1>1, <1>3, <1>4 DEF ApplyEffects
  <1>7. /\ \A c \in Cards : outcome'[b][c] = IF c \in Applied(w) THEN "applied"
                                   ELSE IF c \in Ignored(w) THEN "ignored" ELSE outcome[b][c]
        /\ \A d \in Batches \ {b} : outcome'[d] = outcome[d]
    BY <1>1, <1>2 DEF ApplyEffects, LeaseInv, KnownInv, TypeOK
  <1>8. /\ \A c \in Cards :
              operation'[b][c] = IF c \in Items(w) THEN "succeeded" ELSE operation[b][c]
        /\ \A d \in Batches \ {b} : operation'[d] = operation[d]
    BY <1>1, <1>2 DEF ApplyEffects, LeaseInv, KnownInv, TypeOK
  <1>9. /\ row'[b].status = "succeeded" /\ row'[b].applied = Cardinality(Applied(w))
        /\ row'[b].ignored = Cardinality(Ignored(w))
        /\ \A d \in Batches \ {b} : row'[d] = row[d]
    <2> DEFINE n == Cardinality(Applied(w))
               m == Cardinality(Ignored(w))
               r == row[b]
               s == [Released(r, "succeeded") EXCEPT !.applied = n, !.ignored = m]
    <2>1. n \in Nat /\ m \in Nat /\ r \in Row
      BY <1>1, <1>2, WorkerItems DEF Applied, Ignored
    <2>2. row' = [row EXCEPT ![b] = s] /\ row \in [Batches -> Row]
      BY <1>1 DEF ApplyEffects, LeaseInv, KnownInv, TypeOK
    <2>3. s.status = "succeeded" /\ s.applied = n /\ s.ignored = m
      <3> HIDE DEF n, m, r
      <3> QED
        BY <2>1, SettledCounts DEF FailureCodes
    <2> HIDE DEF n, m, s
    <2>4. row'[b] = s /\ \A d \in Batches \ {b} : row'[d] = row[d]
      BY <1>2, <2>2
    <2> QED
      BY <2>3, <2>4 DEF n, m
  <1>10. request' = request
    BY <1>1 DEF ApplyEffects
  <1> QED
    BY <1>4, <1>5, <1>6, <1>7, <1>8, <1>9, <1>10 DEF SameBatch

LEMMA RejectionEffects ==
  ASSUME LeaseInv, NEW w \in Workers, Rejection(w)
  PROVE  LET b == worker[w].batch
             ignored == {c \in Items(w) : card[c] = Target(w)}
         IN
         /\ row'[b].status = "failed" /\ row'[b].applied = 0
         /\ row'[b].ignored = Cardinality(ignored)
         /\ \A c \in Cards :
               /\ outcome'[b][c] = IF outcome[b][c] # "pending" THEN outcome[b][c]
                                   ELSE IF c \in ignored THEN "ignored" ELSE "not_applied"
               /\ operation'[b][c] = IF operation[b][c] = "queued" THEN "failed"
                                     ELSE operation[b][c]
         /\ \A d \in Batches \ {b} : SameBatch(d)
         /\ UNCHANGED <<card, history, request>>
  <1> DEFINE b == worker[w].batch
             ignored == {c \in Items(w) : card[c] = Target(w)}
  <1>1. PICK code \in FailureCodes : FailEffects(w, code)
    BY DEF Rejection
  <1>2. b \in Batches /\ row[b] \in Row /\ Cardinality(ignored) \in Nat
    BY WorkerItems DEF Rejection
  <1>3. /\ \A c \in Cards : outcome'[b][c] = IF outcome[b][c] # "pending" THEN outcome[b][c]
                                   ELSE IF c \in ignored THEN "ignored" ELSE "not_applied"
        /\ \A d \in Batches \ {b} : outcome'[d] = outcome[d]
    BY <1>1, <1>2 DEF FailEffects, LeaseInv, KnownInv, TypeOK
  <1>4. /\ \A c \in Cards : operation'[b][c] = IF operation[b][c] = "queued" THEN "failed"
                                               ELSE operation[b][c]
        /\ \A d \in Batches \ {b} : operation'[d] = operation[d]
    BY <1>1, <1>2 DEF FailEffects, LeaseInv, KnownInv, TypeOK
  <1>5. /\ row'[b].status = "failed" /\ row'[b].applied = 0
        /\ row'[b].ignored = Cardinality(ignored)
        /\ \A d \in Batches \ {b} : row'[d] = row[d]
    <2> DEFINE m == Cardinality(ignored)
               r == row[b]
               s == [Released(r, "failed") EXCEPT !.ignored = m, !.applied = 0, !.failure = code]
    <2>1. row' = [row EXCEPT ![b] = s] /\ row \in [Batches -> Row]
      BY <1>1 DEF FailEffects, LeaseInv, KnownInv, TypeOK
    <2>2. m \in Nat /\ r \in Row
      BY <1>2
    <2>3. s.status = "failed" /\ s.applied = 0 /\ s.ignored = m
      <3> HIDE DEF m, r
      <3> QED
        BY <2>2, SettledCounts
    <2> HIDE DEF m, s
    <2>4. row'[b] = s /\ \A d \in Batches \ {b} : row'[d] = row[d]
      BY <1>2, <2>1
    <2> QED
      BY <2>3, <2>4 DEF m
  <1>6. UNCHANGED <<card, history, request>>
    BY DEF Rejection
  <1> QED
    BY <1>3, <1>4, <1>5, <1>6 DEF SameBatch

\* Which cards a command moves, to what, and what it notes in their history.
LEMMA CommandEffects ==
  ASSUME LeaseInv, NEW c \in Cards, NEW action \in Commands, CardCommand(c, action)
  PROVE  /\ UNCHANGED <<request, row, outcome, operation, worker>>
         /\ \A d \in Cards :
               \/ card'[d] = card[d] /\ history'[d] = history[d]
               \/ /\ card[d] # card'[d] /\ CanTransition(card[d], card'[d])
                  /\ card[d] \in CardStates /\ card'[d] \in CardStates
                  /\ history'[d] = Append(history[d], [previous |-> card[d], new |-> card'[d],
                                                       source |-> None])
         /\ card[c] # card'[c] /\ CanTransition(card[c], card'[c])
         /\ \/ \A d \in Cards \ {c} : card'[d] = card[d]
            \/ /\ card'[c] = "active" /\ Predecessor[c] \in Cards
               /\ CanTransition(card[Predecessor[c]], "closed")
               /\ card'[Predecessor[c]] = "closed"
               /\ \A d \in Cards \ {c, Predecessor[c]} : card'[d] = card[d]
         /\ card' \in [Cards -> CardStates]
  <1> DEFINE t == Transition(card[c], action)
             closed == IF ClosesPredecessor(c, action) THEN {Predecessor[c]} ELSE {}
             new(d) == IF d = c THEN t.target ELSE "closed"
  <1>1. action \in CardActions /\ card \in [Cards -> CardStates]
    BY ConstantsAssumption DEF LeaseInv, KnownInv, TypeOK
  <1>2. t.target \in CardStates /\ card[c] # t.target /\ CanTransition(card[c], t.target)
    <2>1. t.valid /\ ~t.ignored
      BY DEF CardCommand
    <2>2. t.target = TargetOf[action] /\ (t.ignored <=> card[c] = TargetOf[action])
      BY DEF Transition
    <2> QED
      BY <1>1, <2>1, <2>2, TransitionType DEF CanTransition
  <1>3. \A d \in closed : /\ d \in Cards /\ d # c /\ card[d] \in {"active", "suspended"}
                          /\ d = Predecessor[c] /\ t.target = "active"
    BY ConstantsAssumption DEF ClosesPredecessor, Transition, TargetOf
  <1>4. \A d \in closed : card[d] # "closed" /\ CanTransition(card[d], "closed")
    BY <1>3 DEF CanTransition, Transition, TargetOf, SourcesOf, CardActions
  <1>5. /\ card' = [d \in Cards |-> IF d \in {c} \cup closed THEN new(d) ELSE card[d]]
        /\ history' = [d \in Cards |-> IF d \in {c} \cup closed
              THEN Append(history[d], [previous |-> card[d], new |-> new(d), source |-> None])
              ELSE history[d]]
        /\ UNCHANGED <<request, row, outcome, operation, worker>>
    BY DEF CardCommand
  <1>6. card'[c] = t.target /\ \A d \in closed : card'[d] = "closed"
    BY <1>3, <1>5
  <1>7. \A d \in Cards \ ({c} \cup closed) : card'[d] = card[d] /\ history'[d] = history[d]
    BY <1>5
  <1>8. \A d \in {c} \cup closed :
           history'[d] = Append(history[d], [previous |-> card[d], new |-> card'[d],
                                             source |-> None])
    BY <1>3, <1>5, <1>6
  <1>9. card' \in [Cards -> CardStates]
    BY <1>1, <1>2, <1>5 DEF CardStates
  <1> HIDE DEF t
  <1>10. \A d \in {c} \cup closed : card[d] # card'[d] /\ CanTransition(card[d], card'[d])
    BY <1>2, <1>4, <1>6
  <1>11. closed = {} \/ closed = {Predecessor[c]}
    OBVIOUS
  <1> HIDE DEF closed
  <1>12. \A d \in Cards :
               \/ card'[d] = card[d] /\ history'[d] = history[d]
               \/ /\ card[d] # card'[d] /\ CanTransition(card[d], card'[d])
                  /\ card[d] \in CardStates /\ card'[d] \in CardStates
                  /\ history'[d] = Append(history[d], [previous |-> card[d], new |-> card'[d],
                                                       source |-> None])
    BY <1>1, <1>7, <1>8, <1>9, <1>10
  <1>13. \/ \A d \in Cards \ {c} : card'[d] = card[d]
         \/ /\ card'[c] = "active" /\ Predecessor[c] \in Cards
            /\ CanTransition(card[Predecessor[c]], "closed")
            /\ card'[Predecessor[c]] = "closed"
            /\ \A d \in Cards \ {c, Predecessor[c]} : card'[d] = card[d]
    BY <1>3, <1>4, <1>6, <1>7, <1>11
  <1> QED
    BY <1>5, <1>9, <1>10, <1>12, <1>13

-----------------------------------------------------------------------------
(* Finality *)

LEMMA SettledStays ==
  ASSUME LeaseInv, ShardStep, NEW b \in Batches, row[b].status \in Terminal
  PROVE  SameBatch(b)
  <1>1. ASSUME NEW d \in Batches, NEW req \in Request, Accept(d, req) PROVE SameBatch(b)
    BY <1>1, SubmissionEffects DEF Terminal
  <1>2. CASE OpenRowsMove
    BY <1>2 DEF OpenRowsMove, StaysOpen, Open, Terminal, SameBatch
  <1>3. ASSUME NEW d \in Batches, CancelCardStatusBatch(d) PROVE SameBatch(b)
    BY <1>3, CancelEffects DEF Terminal, SameBatch
  <1>4. ASSUME NEW w \in Workers, Application(w) PROVE SameBatch(b)
    BY <1>4, ApplicationEffects DEF Terminal, Application, Holds
  <1>5. ASSUME NEW w \in Workers, Rejection(w) PROVE SameBatch(b)
    BY <1>5, RejectionEffects DEF Terminal, Rejection, Holds
  <1>6. ASSUME NEW c \in Cards, NEW action \in Commands, CardCommand(c, action)
        PROVE  SameBatch(b)
    BY <1>6, CommandEffects DEF SameBatch
  <1> QED
    BY <1>1, <1>2, <1>3, <1>4, <1>5, <1>6 DEF ShardStep, Submission

\* A settled batch keeps its row, its outcomes and its operations for ever,
\* whatever late workers, recovery, cancellation and retries do.
THEOREM Finality == Spec => TerminalImmutable
  <1>1. LeaseInv /\ [Next]_vars =>
          [\A b \in Batches : row[b].status \in Terminal =>
              /\ row'[b] = row[b]
              /\ outcome'[b] = outcome[b]
              /\ operation'[b] = operation[b]]_vars
    BY StepKinds, SettledStays DEF SameBatch
  <1> QED
    BY <1>1, LeaseInvariant, PTL DEF Spec, TerminalImmutable

-----------------------------------------------------------------------------
(* The inductive invariant *)

\* What was judged under the card locks may be done.
LegalReads ==
  \A w \in Workers : worker[w].pc = "locked" =>
     \A c \in Items(w) : CanTransition(worker[w].read[c], Target(w))

\* A batch that was not submitted has left no trace.
Untouched ==
  \A b \in Batches : row[b].status = "none" =>
     /\ request[b] = None
     /\ row[b].applied = 0 /\ row[b].ignored = 0
     /\ \A c \in Cards : outcome[b][c] = "none"

\* A batch has outcomes for its items alone.
ItemsOnly ==
  \A b \in Batches : row[b].status # "none" =>
     \A c \in Cards \ request[b].items : outcome[b][c] = "none"

ResultsInv ==
  /\ LeaseInv
  /\ LegalReads
  /\ Untouched
  /\ ItemsOnly
  /\ AllOrNothing
  /\ AppliedExactlyOnce
  /\ HistoryChains
  /\ RetryChainAppliesOnce

LEMMA InitResultsInv == Init => ResultsInv
  <1> SUFFICES ASSUME Init PROVE ResultsInv
    OBVIOUS
  <1>1. LeaseInv
    BY InitLeaseInv
  <1>2. /\ \A b \in Batches : /\ row[b].status = "none" /\ row[b].applied = 0
                              /\ row[b].ignored = 0 /\ request[b] = None
                              /\ \A c \in Cards : outcome[b][c] = "none"
        /\ \A c \in Cards : history[c] = << >>
        /\ \A w \in Workers : worker[w].pc = "idle"
    BY DEF Init, NewRow, IdleWorker
  <1>3. \A c \in Cards : DOMAIN history[c] = {}
    BY <1>2
  <1>4. AppliedExactlyOnce
    BY <1>2, <1>3 DEF AppliedExactlyOnce
  <1>5. HistoryChains
    BY <1>2, <1>3 DEF HistoryChains
  <1> QED
    BY <1>1, <1>2, <1>4, <1>5 DEF ResultsInv, LegalReads, Untouched, ItemsOnly,
       AllOrNothing, RetryChainAppliesOnce

\* A goroutine that comes to hold card locks has just judged the cards.
LEMMA LegalReadsStep ==
  ASSUME LeaseInv, LegalReads, [Next]_vars
  PROVE  LegalReads'
  <1> SUFFICES ASSUME NEW w \in Workers, worker'[w].pc = "locked", NEW c \in Items(w)'
               PROVE  CanTransition(worker'[w].read[c], Target(w)')
    BY DEF LegalReads
  <1>1. \/ worker'[w] = worker[w] /\ worker[w].pc = "locked"
        \/ /\ ApplyLockCards(w) /\ Busy(w)
           /\ \A d \in Items(w) : CanTransition(card[d], Target(w))
           /\ worker'[w].batch = worker[w].batch
           /\ \A d \in Items(w) : worker'[w].read[d] = card[d]
    <2>1. worker \in [Workers -> Worker]
      BY DEF LeaseInv, KnownInv, TypeOK
    <2>2. ASSUME NEW v \in Workers, Busy(v), MovesOutside(v)
          PROVE  worker'[w] = worker[w] /\ worker[w].pc = "locked"
      BY <2>1, <2>2 DEF MovesOutside, Outside
    <2>3. ASSUME NEW v \in Workers, ApplyLockCards(v)
          PROVE  \/ worker'[w] = worker[w] /\ worker[w].pc = "locked"
                 \/ /\ ApplyLockCards(w) /\ Busy(w)
                    /\ \A d \in Items(w) : CanTransition(card[d], Target(w))
                    /\ worker'[w].batch = worker[w].batch
                    /\ \A d \in Items(w) : worker'[w].read[d] = card[d]
      <3>1. CASE v # w
        BY <2>1, <2>3, <3>1 DEF ApplyLockCards, GotoFail
      <3>2. CASE v = w
        <4>1. Busy(w) /\ worker[w].pc = "verified"
          BY <2>3, <3>2 DEF ApplyLockCards, Busy
        <4>2. ~GotoFail(w, "invalid_transition")
          BY <2>1 DEF GotoFail, Worker
        <4>3. Items(w) \subseteq Cards
          BY <4>1, WorkerItems
        <4> DEFINE read == [d \in Cards |-> IF d \in Items(w) THEN card[d] ELSE "pending"]
        <4>4. /\ \A d \in Items(w) : CanTransition(card[d], Target(w))
              /\ worker' = [worker EXCEPT ![w].pc = "locked", ![w].read = read]
          BY <2>3, <3>2, <4>2 DEF ApplyLockCards
        <4>5. \A d \in Items(w) : read[d] = card[d]
          BY <4>3
        <4> HIDE DEF read
        <4>6. worker'[w].batch = worker[w].batch /\ worker'[w].read = read
          BY <2>1, <4>4 DEF Worker
        <4> QED
          BY <2>3, <3>2, <4>1, <4>4, <4>5, <4>6
      <3> QED
        BY <3>1, <3>2
    <2>4. ASSUME NEW v \in Workers, RunBatch(v) \/ Errors(v), ~ApplyLockCards(v)
          PROVE  worker'[w] = worker[w] /\ worker[w].pc = "locked"
      <3>1. Busy(v)
        BY <2>4 DEF RunBatch, Errors, Busy, LookupUser, LookupRoutes, ControlUnavailable,
           ApplyVerify, ApplyError, ReportLost, ReportFailure, RetryBatch, ApplyCommit,
           ApplyCommitUnacknowledged
      <3>2. \/ \E code \in FailureCodes : GotoFail(v, code) \/ GotoRetry(v, code)
            \/ Goto(v, "authorized") \/ Goto(v, "verified") \/ Finish(v)
            \/ \E ok \in BOOLEAN :
                  worker' = [worker EXCEPT ![v].pc = "routing", ![v].userOK = ok]
        BY <2>4 DEF RunBatch, Errors, LookupUser, LookupRoutes, ControlUnavailable, Eligible,
           ApplyVerify, ApplyError, AfterError, ReportLost, ReportFailure, RetryBatch,
           ApplyCommit, ApplyCommitUnacknowledged, FailureCodes
      <3>3. \A u \in Workers \ {v} : worker'[u] = worker[u]
        BY <2>1, <3>2 DEF GotoFail, GotoRetry, Goto, Finish
      <3>4. worker'[v].pc # "locked"
        <4>1. worker[v] \in Worker
          BY <2>1
        <4>2. CASE Finish(v)
          BY <2>1, <4>2 DEF Finish, IdleWorker
        <4>3. CASE Goto(v, "authorized") \/ Goto(v, "verified")
          BY <2>1, <4>1, <4>3 DEF Goto, Worker
        <4>4. CASE \E code \in FailureCodes : GotoFail(v, code) \/ GotoRetry(v, code)
          BY <2>1, <4>1, <4>4 DEF GotoFail, GotoRetry, Worker
        <4>5. CASE \E ok \in BOOLEAN :
                      worker' = [worker EXCEPT ![v].pc = "routing", ![v].userOK = ok]
          BY <2>1, <4>1, <4>5 DEF Worker
        <4> QED
          BY <3>2, <4>2, <4>3, <4>4, <4>5
      <3> QED
        BY <3>3, <3>4
    <2>5. ASSUME NEW v \in Workers, NEW b \in Batches, ClaimBatch(v, b)
          PROVE  worker'[w] = worker[w] /\ worker[w].pc = "locked"
      <3> DEFINE x == [IdleWorker EXCEPT !.pc = "claimed", !.batch = b,
                           !.version = row[b].version + 1, !.attempts = row[b].attempts + 1]
      <3>1. worker' = [worker EXCEPT ![v] = x]
        BY <2>5 DEF ClaimBatch
      <3>2. x.pc = "claimed"
        BY DEF IdleWorker
      <3> HIDE DEF x
      <3> QED
        BY <2>1, <3>1, <3>2
    <2>6. ASSUME NEW e \in Executors, ExecutorExits(e)
          PROVE  worker'[w] = worker[w] /\ worker[w].pc = "locked"
      BY <2>6 DEF ExecutorExits, IdleWorker
    <2>7. ASSUME UNCHANGED worker
          PROVE  worker'[w] = worker[w] /\ worker[w].pc = "locked"
      BY <2>7
    <2>8. ApiNext \/ ControlNext \/ TimeNext \/ UNCHANGED vars => UNCHANGED worker
      BY DEF ApiNext, ControlNext, TimeNext, vars, CreateCardStatusBatch, Accept,
         ExecuteCardStatusBatch, CancelCardStatusBatch, RetryCardStatusBatch, CardCommand,
         UpdateUser, SetBankRouteStatus, LeaseExpires, BackoffElapses
    <2>9. ASSUME NEW e \in Executors, ListBanks(e) \/ RecoverBatches(e) \/ SkipBank(e)
          PROVE  UNCHANGED worker
      BY <2>9 DEF ListBanks, RecoverBatches, SkipBank
    <2> QED
      BY <2>3, <2>4, <2>5, <2>6, <2>7, <2>8, <2>9 DEF Next, CycleNext
  <1>2. Busy(w) /\ worker'[w].batch = worker[w].batch
    BY <1>1 DEF Busy
  <1>3. worker[w].batch \in Batches /\ row[worker[w].batch].status # "none"
    BY <1>2 DEF LeaseInv, KnownInv, WorkersKnown
  <1>4. request'[worker[w].batch] = request[worker[w].batch]
    BY <1>3, StepKinds, SubmissionEffects, ApplicationEffects, RejectionEffects,
       CancelEffects, CommandEffects DEF ShardStep, Submission, OpenRowsMove, SameBatch
  <1>5. Items(w)' = Items(w) /\ Target(w)' = Target(w)
    BY <1>2, <1>4 DEF Items, Target
  <1> QED
    BY <1>1, <1>5 DEF LegalReads

LEMMA UntouchedStep ==
  ASSUME LeaseInv, Untouched, ShardStep
  PROVE  Untouched'
  <1> SUFFICES ASSUME NEW b \in Batches, row'[b].status = "none"
               PROVE  SameBatch(b) /\ row[b].status = "none"
    BY DEF Untouched, SameBatch
  <1>1. ASSUME NEW d \in Batches, NEW req \in Request, Accept(d, req)
        PROVE  SameBatch(b)
    BY <1>1, SubmissionEffects
  <1>2. CASE OpenRowsMove
    BY <1>2 DEF OpenRowsMove, StaysOpen, Open, SameBatch
  <1>3. ASSUME NEW d \in Batches, CancelCardStatusBatch(d) PROVE SameBatch(b)
    BY <1>3, CancelEffects DEF SameBatch
  <1>4. ASSUME NEW w \in Workers, Application(w) PROVE SameBatch(b)
    BY <1>4, ApplicationEffects
  <1>5. ASSUME NEW w \in Workers, Rejection(w) PROVE SameBatch(b)
    BY <1>5, RejectionEffects
  <1>6. ASSUME NEW c \in Cards, NEW action \in Commands, CardCommand(c, action)
        PROVE  SameBatch(b)
    BY <1>6, CommandEffects DEF SameBatch
  <1>7. SameBatch(b)
    BY <1>1, <1>2, <1>3, <1>4, <1>5, <1>6 DEF ShardStep, Submission
  <1> QED
    BY <1>7 DEF SameBatch

\* Application resolves items that are pending, and nothing else.
LEMMA ApplicationItems ==
  ASSUME LeaseInv, NEW w \in Workers, Application(w)
  PROVE  /\ Busy(w) /\ Holds(w)
         /\ Applied(w) \subseteq Items(w) /\ Ignored(w) = Items(w) \ Applied(w)
  BY DEF Application, Busy, Applied, Ignored

LEMMA ItemsOnlyStep ==
  ASSUME LeaseInv, ItemsOnly, ShardStep
  PROVE  ItemsOnly'
  <1> SUFFICES ASSUME NEW b \in Batches, row'[b].status # "none",
                      NEW c \in Cards, c \notin request'[b].items
               PROVE  outcome'[b][c] = "none"
    BY DEF ItemsOnly
  <1>1. ASSUME NEW d \in Batches, NEW req \in Request, Accept(d, req)
        PROVE  outcome'[b][c] = "none"
    BY <1>1, SubmissionEffects DEF SameBatch, ItemsOnly
  <1>2. CASE OpenRowsMove
    BY <1>2 DEF OpenRowsMove, StaysOpen, Open, ItemsOnly
  <1>3. ASSUME NEW d \in Batches, CancelCardStatusBatch(d) PROVE outcome'[b][c] = "none"
    BY <1>3, CancelEffects DEF ItemsOnly
  <1>4. SameBatch(b) => outcome'[b][c] = "none"
    BY DEF SameBatch, ItemsOnly
  <1>5. ASSUME NEW w \in Workers, Application(w) PROVE outcome'[b][c] = "none"
    <2>1. CASE b = worker[w].batch
      <3>1. /\ row[b].status # "none" /\ Items(w) = request[b].items
            /\ request' = request /\ Applied(w) \subseteq Items(w)
            /\ Ignored(w) = Items(w) \ Applied(w)
        BY <1>5, <2>1, ApplicationItems, ApplicationEffects, HeldBatch
      <3>2. c \notin Applied(w) /\ c \notin Ignored(w) /\ outcome[b][c] = "none"
        BY <3>1 DEF ItemsOnly
      <3> QED
        BY <1>5, <2>1, <3>2, ApplicationEffects
    <2>2. CASE b # worker[w].batch
      BY <1>4, <1>5, <2>2, ApplicationEffects
    <2> QED
      BY <2>1, <2>2
  <1>6. ASSUME NEW w \in Workers, Rejection(w) PROVE outcome'[b][c] = "none"
    <2>1. CASE b = worker[w].batch
      <3>1. row[b].status # "none" /\ request' = request
        BY <1>6, <2>1, RejectionEffects, HeldBatch DEF Rejection
      <3>2. outcome[b][c] = "none"
        BY <3>1 DEF ItemsOnly
      <3> QED
        BY <1>6, <2>1, <3>2, RejectionEffects
    <2>2. CASE b # worker[w].batch
      BY <1>4, <1>6, <2>2, RejectionEffects
    <2> QED
      BY <2>1, <2>2
  <1>7. ASSUME NEW e \in Cards, NEW action \in Commands, CardCommand(e, action)
        PROVE  outcome'[b][c] = "none"
    <2>1. SameBatch(b)
      BY <1>7, CommandEffects DEF SameBatch
    <2> QED
      BY <1>4, <2>1
  <1> QED
    BY <1>1, <1>2, <1>3, <1>5, <1>6, <1>7 DEF ShardStep, Submission

-----------------------------------------------------------------------------
(* All or nothing *)

\* What AllOrNothing says of one batch.
Consistent(b) ==
  /\ row[b].applied = Cardinality(ItemsWith(b, "applied"))
  /\ row[b].ignored = Cardinality(ItemsWith(b, "ignored"))
  /\ \/ /\ row[b].status = "succeeded"
        /\ ItemsWith(b, "applied") \cup ItemsWith(b, "ignored") = request[b].items
        /\ \A c \in request[b].items : operation[b][c] = "succeeded"
     \/ /\ row[b].status = "failed"
        /\ ItemsWith(b, "not_applied") \cup ItemsWith(b, "ignored") = request[b].items
        /\ \A c \in request[b].items : operation[b][c] = "failed"
     \/ /\ row[b].status \notin {"succeeded", "failed"}
        /\ ItemsWith(b, "pending") = request[b].items
        /\ \A c \in request[b].items : operation[b][c] = "queued"

LEMMA ConsistentBatches ==
  AllOrNothing <=> \A b \in Batches : row[b].status # "none" => Consistent(b)
  BY DEF AllOrNothing, Consistent

\* A batch whose items are left alone, while its row goes on unsettled.
LEMMA ConsistentFrame ==
  ASSUME NEW b \in Batches, Consistent(b),
         request'[b] = request[b], outcome'[b] = outcome[b], operation'[b] = operation[b],
         row'[b].applied = row[b].applied, row'[b].ignored = row[b].ignored,
         \/ row'[b].status = row[b].status
         \/ {row[b].status, row'[b].status} \cap {"succeeded", "failed"} = {}
  PROVE  Consistent(b)'
  <1>1. \A o \in Outcomes : ItemsWith(b, o)' = ItemsWith(b, o)
    BY DEF ItemsWith
  <1>2. /\ ItemsWith(b, "applied")' = ItemsWith(b, "applied")
        /\ ItemsWith(b, "ignored")' = ItemsWith(b, "ignored")
        /\ ItemsWith(b, "not_applied")' = ItemsWith(b, "not_applied")
        /\ ItemsWith(b, "pending")' = ItemsWith(b, "pending")
    BY <1>1 DEF Outcomes
  <1> QED
    BY <1>2 DEF Consistent

LEMMA AllOrNothingStep ==
  ASSUME LeaseInv, Untouched, ItemsOnly, AllOrNothing, ShardStep
  PROVE  AllOrNothing'
  <1> SUFFICES ASSUME NEW b \in Batches, row'[b].status # "none" PROVE Consistent(b)'
    BY DEF AllOrNothing, Consistent
  <1>1. row[b].status # "none" => Consistent(b)
    BY ConsistentBatches
  <1>2. SameBatch(b) => Consistent(b)'
    BY <1>1, ConsistentFrame DEF SameBatch
  <1>3. ASSUME NEW d \in Batches, NEW req \in Request, Accept(d, req), b = d
        PROVE  Consistent(b)'
    <2>1. /\ row'[b].status = "draft" /\ row'[b].applied = 0 /\ row'[b].ignored = 0
          /\ request'[b] = req /\ req.items \subseteq Cards
      BY <1>3, SubmissionEffects DEF Untouched, Request
    <2>2. /\ \A c \in req.items : outcome'[b][c] = "pending" /\ operation'[b][c] = "queued"
          /\ \A c \in Cards \ req.items : outcome'[b][c] = "none"
      BY <1>3, <2>1, SubmissionEffects
    <2>3. /\ ItemsWith(b, "applied")' = {} /\ ItemsWith(b, "ignored")' = {}
          /\ ItemsWith(b, "pending")' = req.items
      BY <2>1, <2>2 DEF ItemsWith
    <2>4. Cardinality({}) = 0
      BY FS_EmptySet
    <2> QED
      BY <2>1, <2>2, <2>3, <2>4 DEF Consistent
  <1>4. CASE OpenRowsMove
    <2>1. CASE row'[b] = row[b]
      BY <1>2, <1>4, <2>1 DEF SameBatch, OpenRowsMove
    <2>2. CASE StaysOpen(row[b], row'[b])
      BY <1>1, <1>4, <2>2, ConsistentFrame DEF OpenRowsMove, StaysOpen, Open
    <2> QED
      BY <1>4, <2>1, <2>2 DEF OpenRowsMove
  <1>5. ASSUME NEW d \in Batches, CancelCardStatusBatch(d) PROVE Consistent(b)'
    BY <1>1, <1>2, <1>5, CancelEffects, ConsistentFrame DEF SameBatch
  <1>6. ASSUME NEW w \in Workers, Application(w), b = worker[w].batch PROVE Consistent(b)'
    <2>1. /\ row[b].status = "processing" /\ Items(w) = request[b].items
          /\ Items(w) \subseteq Cards /\ request'[b] = request[b]
      BY <1>6, ApplicationItems, ApplicationEffects, HeldBatch
    <2>2. \A c \in Cards \ Items(w) : outcome[b][c] = "none"
      BY <2>1 DEF ItemsOnly
    <2>3. \A c \in Cards :
             /\ outcome'[b][c] = IF c \in Applied(w) THEN "applied"
                                 ELSE IF c \in Items(w) THEN "ignored" ELSE "none"
             /\ c \in Items(w) => operation'[b][c] = "succeeded"
      BY ZenonT(40), <1>6, <2>2, ApplicationEffects, ApplicationItems
    <2>4. ItemsWith(b, "applied")' = Applied(w) /\ ItemsWith(b, "ignored")' = Ignored(w)
      BY <1>6, <2>1, <2>3, ApplicationItems DEF ItemsWith
    <2> QED
      BY <1>6, <2>1, <2>3, <2>4, ApplicationEffects, ApplicationItems DEF Consistent
  <1>7. ASSUME NEW w \in Workers, Rejection(w), b = worker[w].batch PROVE Consistent(b)'
    <2> DEFINE ignored == {c \in Items(w) : card[c] = Target(w)}
    <2>1. /\ row[b].status = "processing" /\ Items(w) = request[b].items
          /\ Items(w) \subseteq Cards /\ request'[b] = request[b]
      BY <1>7, RejectionEffects, HeldBatch DEF Rejection
    <2>2. \A c \in Cards \ Items(w) : outcome[b][c] = "none"
      BY <2>1 DEF ItemsOnly
    <2>3. \A c \in Items(w) : outcome[b][c] = "pending" /\ operation[b][c] = "queued"
      BY <1>1, <2>1 DEF Consistent, ItemsWith
    <2>4. \A c \in Cards :
             /\ outcome'[b][c] = IF c \in ignored THEN "ignored"
                                 ELSE IF c \in Items(w) THEN "not_applied" ELSE "none"
             /\ c \in Items(w) => operation'[b][c] = "failed"
      <3> SUFFICES ASSUME NEW c \in Cards
                   PROVE  /\ outcome'[b][c] = IF c \in ignored THEN "ignored"
                                 ELSE IF c \in Items(w) THEN "not_applied" ELSE "none"
                          /\ c \in Items(w) => operation'[b][c] = "failed"
        OBVIOUS
      <3>1. /\ outcome'[b][c] = IF outcome[b][c] # "pending" THEN outcome[b][c]
                                 ELSE IF c \in ignored THEN "ignored" ELSE "not_applied"
            /\ operation'[b][c] = IF operation[b][c] = "queued" THEN "failed"
                                   ELSE operation[b][c]
        BY <1>7, RejectionEffects
      <3>2. c \in ignored => c \in Items(w)
        OBVIOUS
      <3> HIDE DEF ignored
      <3> QED
        BY <2>2, <2>3, <3>1, <3>2
    <2>5. /\ ItemsWith(b, "applied")' = {} /\ ItemsWith(b, "ignored")' = ignored
          /\ ItemsWith(b, "not_applied")' = Items(w) \ ignored
      BY <2>1, <2>4 DEF ItemsWith
    <2>6. row'[b].status = "failed" /\ row'[b].applied = 0 /\ row'[b].ignored = Cardinality(ignored)
      BY <1>7, RejectionEffects
    <2>7. Cardinality({}) = 0
      BY FS_EmptySet
    <2> QED
      BY <2>1, <2>4, <2>5, <2>6, <2>7 DEF Consistent
  <1>8. ASSUME NEW c \in Cards, NEW action \in Commands, CardCommand(c, action)
        PROVE  Consistent(b)'
    BY <1>2, <1>8, CommandEffects DEF SameBatch
  <1>9. ASSUME NEW d \in Batches, NEW req \in Request, Accept(d, req) PROVE Consistent(b)'
    BY <1>2, <1>3, <1>9, SubmissionEffects
  <1>10. ASSUME NEW w \in Workers, Application(w) \/ Rejection(w) PROVE Consistent(b)'
    BY <1>2, <1>6, <1>7, <1>10, ApplicationEffects, RejectionEffects
  <1> QED
    BY <1>4, <1>5, <1>8, <1>9, <1>10 DEF ShardStep, Submission

-----------------------------------------------------------------------------
(* Histories *)

LEMMA AppendedEntry ==
  ASSUME NEW h \in Seq(Entry), NEW e \in Entry
  PROVE  /\ Append(h, e) \in Seq(Entry)
         /\ Len(Append(h, e)) = Len(h) + 1 /\ Len(h) \in Nat
         /\ DOMAIN Append(h, e) = DOMAIN h \cup {Len(h) + 1}
         /\ Len(h) + 1 \notin DOMAIN h
         /\ Append(h, e)[Len(h) + 1] = e
         /\ \A i \in DOMAIN h : Append(h, e)[i] = h[i]
         /\ \A i \in DOMAIN h : i \in Nat /\ 1 <= i /\ i <= Len(h)
         /\ \A i \in DOMAIN h : i > 1 => i - 1 \in DOMAIN h
         /\ h # << >> <=> Len(h) \in DOMAIN h
         /\ Append(h, e) # << >>
  OBVIOUS

\* What HistoryChains says of one card in status s.
Chain(h, s) ==
  /\ \A i \in DOMAIN h :
        /\ h[i].previous # h[i].new
        /\ CanTransition(h[i].previous, h[i].new)
        /\ i > 1 => h[i].previous = h[i - 1].new
  /\ h # << >> => s = h[Len(h)].new

LEMMA ChainGrows ==
  ASSUME NEW h \in Seq(Entry), NEW e \in Entry, Chain(h, e.previous),
         e.previous # e.new, CanTransition(e.previous, e.new)
  PROVE  Chain(Append(h, e), e.new)
  <1> DEFINE g == Append(h, e)
             n == Len(h) + 1
  <1>1. /\ Len(g) = n /\ DOMAIN g = DOMAIN h \cup {n} /\ g[n] = e /\ n \notin DOMAIN h
        /\ \A i \in DOMAIN h : g[i] = h[i]
        /\ \A i \in DOMAIN h : i > 1 => i - 1 \in DOMAIN h
        /\ h # << >> <=> Len(h) \in DOMAIN h
        /\ n - 1 = Len(h) /\ (n > 1 => h # << >>)
    BY AppendedEntry
  <1> HIDE DEF g, n
  <1>2. ASSUME NEW i \in DOMAIN h
        PROVE  /\ g[i].previous # g[i].new
               /\ CanTransition(g[i].previous, g[i].new)
               /\ i > 1 => g[i].previous = g[i - 1].new
    BY <1>1 DEF Chain
  <1>3. n > 1 => g[n].previous = g[n - 1].new
    BY <1>1 DEF Chain
  <1>4. g[Len(g)].new = e.new
    BY <1>1
  <1>5. g[n].previous # g[n].new /\ CanTransition(g[n].previous, g[n].new)
    BY <1>1
  <1> QED
    BY <1>1, <1>2, <1>3, <1>4, <1>5 DEF Chain, g

LEMMA ChainedCards == HistoryChains <=> \A c \in Cards : Chain(history[c], card[c])
  BY DEF HistoryChains, Chain

LEMMA HistoryStep ==
  ASSUME LeaseInv, LegalReads, HistoryChains, ShardStep
  PROVE  HistoryChains'
  <1> SUFFICES ASSUME NEW c \in Cards PROVE Chain(history'[c], card'[c])
    BY DEF HistoryChains, Chain
  <1>1. /\ Chain(history[c], card[c]) /\ history[c] \in Seq(Entry) /\ card[c] \in CardStates
    BY ChainedCards DEF LeaseInv, KnownInv, TypeOK
  <1>2. card'[c] = card[c] /\ history'[c] = history[c] => Chain(history'[c], card'[c])
    BY <1>1
  <1>3. ASSUME NEW s \in Batches \cup {None}, card[c] # card'[c],
               CanTransition(card[c], card'[c]), card'[c] \in CardStates,
               history'[c] = Append(history[c], [previous |-> card[c], new |-> card'[c],
                                                 source |-> s])
        PROVE  Chain(history'[c], card'[c])
    <2> DEFINE e == [previous |-> card[c], new |-> card'[c], source |-> s]
    <2>1. e \in Entry /\ e.previous = card[c] /\ e.new = card'[c]
      BY <1>1, <1>3 DEF Entry
    <2> HIDE DEF e
    <2>2. Chain(Append(history[c], e), e.new)
      BY <1>1, <1>3, <2>1, ChainGrows
    <2> QED
      BY <1>3, <2>1, <2>2 DEF e
  <1>4. ASSUME NEW w \in Workers, Application(w) PROVE Chain(history'[c], card'[c])
    <2>1. CASE c \in Applied(w)
      <3>1. /\ Busy(w) /\ Holds(w) /\ worker[w].pc = "locked" /\ c \in Items(w)
            /\ card[c] # Target(w) /\ card'[c] = Target(w)
            /\ history'[c] = Append(history[c], [previous |-> card[c], new |-> Target(w),
                                                 source |-> worker[w].batch])
        BY <1>4, <2>1, ApplicationEffects, ApplicationItems DEF Application
      <3>2. worker[w].batch \in Batches /\ Target(w) \in CardStates
        BY <3>1, WorkerItems DEF BatchTargets, CardStates
      <3>3. CanTransition(card[c], Target(w))
        BY <3>1 DEF LegalReads, LeaseInv, ReadsStayCurrent
      <3> QED
        BY <1>3, <3>1, <3>2, <3>3
    <2>2. CASE c \notin Applied(w)
      <3>1. /\ history'[c] = history[c]
            /\ card'[c] = IF c \in Items(w) THEN Target(w) ELSE card[c]
            /\ c \in Items(w) => card[c] = Target(w)
        BY <1>4, <2>2, ApplicationEffects
      <3> QED
        BY <1>2, <3>1
    <2> QED
      BY <2>1, <2>2
  <1>5. ASSUME NEW d \in Cards, NEW action \in Commands, CardCommand(d, action)
        PROVE  Chain(history'[c], card'[c])
    BY <1>2, <1>3, <1>5, CommandEffects
  <1>6. ASSUME NEW d \in Batches, NEW req \in Request, Accept(d, req)
        PROVE  Chain(history'[c], card'[c])
    BY <1>2, <1>6 DEF Accept
  <1>7. ASSUME NEW d \in Batches, CancelCardStatusBatch(d) PROVE Chain(history'[c], card'[c])
    BY <1>2, <1>7 DEF CancelCardStatusBatch
  <1>8. ASSUME NEW w \in Workers, Rejection(w) PROVE Chain(history'[c], card'[c])
    BY <1>2, <1>8 DEF Rejection
  <1>9. CASE OpenRowsMove
    BY <1>2, <1>9 DEF OpenRowsMove
  <1> QED
    BY <1>4, <1>5, <1>6, <1>7, <1>8, <1>9 DEF ShardStep, Submission

-----------------------------------------------------------------------------
(* Once, and no more *)

\* The entries that batch b has made in a history, and what
\* AppliedExactlyOnce says of a batch and a card.
Moves(h, b) == {i \in DOMAIN h : h[i].source = b}

Once(h, b, o) ==
  /\ (Moves(h, b) # {}) <=> (o = "applied")
  /\ \A i, j \in Moves(h, b) : i = j

LEMMA OnceEach ==
  AppliedExactlyOnce <=>
    \A b \in Batches, c \in Cards : Once(history[c], b, outcome[b][c])
  BY DEF AppliedExactlyOnce, Once, Moves

LEMMA MovesGrow ==
  ASSUME NEW h \in Seq(Entry), NEW e \in Entry, NEW b
  PROVE  /\ e.source # b => Moves(Append(h, e), b) = Moves(h, b)
         /\ e.source = b => Moves(Append(h, e), b) = Moves(h, b) \cup {Len(h) + 1}
  <1> DEFINE g == Append(h, e)
             n == Len(h) + 1
  <1>1. /\ DOMAIN g = DOMAIN h \cup {n} /\ g[n] = e /\ n \notin DOMAIN h
        /\ \A i \in DOMAIN h : g[i] = h[i]
    BY AppendedEntry
  <1> HIDE DEF g, n
  <1>2. /\ e.source # b => Moves(g, b) = Moves(h, b)
        /\ e.source = b => Moves(g, b) = Moves(h, b) \cup {n}
    BY <1>1 DEF Moves
  <1> QED
    BY <1>2 DEF g, n

LEMMA OnceStep ==
  ASSUME LeaseInv, Untouched, AllOrNothing, ItemsOnly, AppliedExactlyOnce, ShardStep
  PROVE  AppliedExactlyOnce'
  <1> SUFFICES ASSUME NEW b \in Batches, NEW c \in Cards
               PROVE  Once(history'[c], b, outcome'[b][c])
    BY DEF AppliedExactlyOnce, Once, Moves
  <1>1. Once(history[c], b, outcome[b][c]) /\ history[c] \in Seq(Entry)
    BY OnceEach DEF LeaseInv, KnownInv, TypeOK
  <1>2. ASSUME history'[c] = history[c],
               outcome'[b][c] = "applied" <=> outcome[b][c] = "applied"
        PROVE  Once(history'[c], b, outcome'[b][c])
    BY <1>1, <1>2 DEF Once
  <1>3. ASSUME NEW d \in Batches, NEW req \in Request, Accept(d, req)
        PROVE  Once(history'[c], b, outcome'[b][c])
    <2>1. history'[c] = history[c]
      BY <1>3 DEF Accept
    <2>2. CASE b = d
      <3>1. outcome'[b][c] # "applied" /\ row[b].status = "none"
        BY <1>3, <2>2, SubmissionEffects
      <3>2. outcome[b][c] = "none"
        BY <3>1 DEF Untouched
      <3> QED
        BY <1>2, <2>1, <3>1, <3>2
    <2>3. CASE b # d
      BY <1>2, <1>3, <2>1, <2>3, SubmissionEffects DEF SameBatch
    <2> QED
      BY <2>2, <2>3
  <1>4. CASE OpenRowsMove
    BY <1>2, <1>4 DEF OpenRowsMove
  <1>5. ASSUME NEW d \in Batches, CancelCardStatusBatch(d)
        PROVE  Once(history'[c], b, outcome'[b][c])
    BY <1>2, <1>5 DEF CancelCardStatusBatch
  <1>6. ASSUME NEW w \in Workers, Application(w)
        PROVE  Once(history'[c], b, outcome'[b][c])
    <2> DEFINE e == [previous |-> card[c], new |-> Target(w), source |-> worker[w].batch]
    <2>1. Busy(w) /\ Holds(w) /\ Applied(w) \subseteq Items(w)
            /\ Ignored(w) = Items(w) \ Applied(w)
      BY <1>6, ApplicationItems
    <2>2. worker[w].batch \in Batches /\ row[worker[w].batch].status = "processing"
      BY <2>1, HeldBatch
    <2>3. \A d \in Items(w) : outcome[worker[w].batch][d] = "pending"
      <3>1. Consistent(worker[w].batch) /\ Items(w) = request[worker[w].batch].items
        BY <2>1, <2>2, HeldBatch, ConsistentBatches
      <3> QED
        BY <2>2, <3>1 DEF Consistent, ItemsWith
    <2>4. e \in Entry /\ e.source = worker[w].batch
      BY <2>1, <2>2, WorkerItems DEF Entry, BatchTargets, CardStates, LeaseInv, KnownInv, TypeOK
    <2>5. CASE c \in Applied(w)
      <3>1. history'[c] = Append(history[c], e)
        BY <1>6, <2>5, ApplicationEffects
      <3> HIDE DEF e
      <3>2. CASE b = worker[w].batch
        <4>1. outcome'[b][c] = "applied" /\ outcome[b][c] = "pending"
          BY <1>6, <2>1, <2>3, <2>5, <3>2, ApplicationEffects
        <4>2. Moves(history[c], b) = {}
          BY <1>1, <4>1 DEF Once
        <4>3. Moves(history'[c], b) = {Len(history[c]) + 1}
          <5>1. Moves(Append(history[c], e), b) = Moves(history[c], b) \cup {Len(history[c]) + 1}
            BY <1>1, <2>4, <3>2, MovesGrow
          <5> QED
            BY <3>1, <4>2, <5>1
        <4> QED
          BY <4>1, <4>3 DEF Once
      <3>3. CASE b # worker[w].batch
        <4>1. Moves(history'[c], b) = Moves(history[c], b)
          BY <1>1, <2>4, <3>1, <3>3, MovesGrow
        <4>2. outcome'[b][c] = outcome[b][c]
          BY <1>6, <3>3, ApplicationEffects DEF SameBatch
        <4> QED
          BY <1>1, <4>1, <4>2 DEF Once
      <3> QED
        BY <3>2, <3>3
    <2>6. CASE c \notin Applied(w)
      <3>1. history'[c] = history[c]
        BY <1>6, <2>6, ApplicationEffects
      <3>2. CASE b # worker[w].batch
        BY <1>2, <1>6, <3>1, <3>2, ApplicationEffects DEF SameBatch
      <3>3. CASE b = worker[w].batch
        <4>1. outcome'[b][c] = IF c \in Ignored(w) THEN "ignored" ELSE outcome[b][c]
          BY <1>6, <2>6, <3>3, ApplicationEffects
        <4> QED
          BY <1>2, <2>1, <2>3, <3>1, <3>3, <4>1
      <3> QED
        BY <3>2, <3>3
    <2> QED
      BY <2>5, <2>6
  <1>7. ASSUME NEW w \in Workers, Rejection(w)
        PROVE  Once(history'[c], b, outcome'[b][c])
    <2>1. history'[c] = history[c]
      BY <1>7 DEF Rejection
    <2>2. CASE b # worker[w].batch
      BY <1>2, <1>7, <2>1, <2>2, RejectionEffects DEF SameBatch
    <2>3. CASE b = worker[w].batch
      BY <1>2, <1>7, <2>1, <2>3, RejectionEffects
    <2> QED
      BY <2>2, <2>3
  <1>8. ASSUME NEW d \in Cards, NEW action \in Commands, CardCommand(d, action)
        PROVE  Once(history'[c], b, outcome'[b][c])
    <2>1. outcome' = outcome
      BY <1>8 DEF CardCommand
    <2>2. CASE history'[c] = history[c]
      BY <1>2, <2>1, <2>2
    <2>3. CASE history'[c] # history[c]
      <3> DEFINE e == [previous |-> card[c], new |-> card'[c], source |-> None]
      <3>1. /\ card[c] \in CardStates /\ card'[c] \in CardStates
            /\ history'[c] = Append(history[c], e)
        BY <1>8, <2>3, CommandEffects
      <3>2. e \in Entry /\ e.source # b
        BY <3>1, ConstantsAssumption DEF Entry
      <3> HIDE DEF e
      <3>3. Moves(history'[c], b) = Moves(history[c], b)
        BY <1>1, <3>1, <3>2, MovesGrow
      <3> QED
        BY <1>1, <2>1, <3>3 DEF Once
    <2> QED
      BY <2>2, <2>3
  <1> QED
    BY <1>3, <1>4, <1>5, <1>6, <1>7, <1>8 DEF ShardStep, Submission

-----------------------------------------------------------------------------
(* Retries, and the invariant as a whole *)

LEMMA RequestKept ==
  ASSUME LeaseInv, ShardStep, NEW b \in Batches, row[b].status # "none"
  PROVE  request'[b] = request[b]
  BY SubmissionEffects, ApplicationEffects, RejectionEffects, CancelEffects, CommandEffects
  DEF ShardStep, Submission, OpenRowsMove, SameBatch

\* A batch that ended without success has moved no card.
LEMMA UnsuccessfulMovedNothing ==
  ASSUME AllOrNothing, ItemsOnly, NEW b \in Batches, row[b].status \in {"failed", "cancelled"}
  PROVE  ItemsWith(b, "applied") = {}
  <1>1. Consistent(b) /\ \A c \in Cards \ request[b].items : outcome[b][c] = "none"
    BY ConsistentBatches DEF ItemsOnly
  <1> QED
    BY <1>1 DEF Consistent, ItemsWith

LEMMA RetryStep ==
  ASSUME LeaseInv, Untouched, ItemsOnly, AllOrNothing, RetryChainAppliesOnce, ShardStep
  PROVE  RetryChainAppliesOnce'
  <1> SUFFICES ASSUME NEW b \in Batches, request'[b] # None, request'[b].retryOf # None
               PROVE  LET source == request'[b].retryOf IN
                      /\ row'[source].status \in {"failed", "cancelled"}
                      /\ \A c \in Cards : outcome'[source][c] # "applied"
                      /\ request'[source].items = request'[b].items
    BY DEF RetryChainAppliesOnce, ItemsWith
  <1> DEFINE source == request'[b].retryOf
  <1>1. /\ source \in Batches /\ row[source].status \in {"failed", "cancelled"}
        /\ ItemsWith(source, "applied") = {}
        /\ request[source].items = request'[b].items
    <2>1. CASE request'[b] = request[b]
      <3>1. request[b] \in Request
        BY <2>1 DEF LeaseInv, KnownInv, TypeOK
      <3> QED
        BY <2>1, <3>1 DEF RetryChainAppliesOnce, Request
    <2>2. CASE request'[b] # request[b]
      <3>1. PICK req \in Request : Accept(b, req) /\ Repeats(req)
        BY ZenonT(40), <2>2, SubmissionEffects, ApplicationEffects, RejectionEffects, CancelEffects,
           CommandEffects DEF ShardStep, Submission, OpenRowsMove, SameBatch
      <3>2. request'[b] = req
        BY <3>1, SubmissionEffects
      <3> QED
        BY <3>1, <3>2, UnsuccessfulMovedNothing DEF Repeats
    <2> QED
      BY <2>1, <2>2
  <1> HIDE DEF source
  <1>2. SameBatch(source)
    BY <1>1, SettledStays DEF Terminal
  <1> QED
    BY <1>1, <1>2 DEF SameBatch, ItemsWith, source

LEMMA NextResultsInv == ResultsInv /\ [Next]_vars => ResultsInv'
  <1> SUFFICES ASSUME ResultsInv, [Next]_vars PROVE ResultsInv'
    OBVIOUS
  <1>1. LeaseInv /\ ShardStep /\ LeaseInv'
    BY StepKinds, NextLeaseInv DEF ResultsInv
  <1> QED
    BY <1>1, LegalReadsStep, UntouchedStep, ItemsOnlyStep, AllOrNothingStep, OnceStep,
       HistoryStep, RetryStep DEF ResultsInv

\* The inductive invariant holds in every behaviour.
THEOREM ResultsInvariant == Spec => []ResultsInv
  BY InitResultsInv, NextResultsInv, PTL DEF Spec

\* A succeeded batch resolved every item and counted them right, a failed one
\* applied none, any other one resolved nothing, for every number of cards,
\* workers, crashes and lost leases.
THEOREM AllOrNothingHolds == Spec => []AllOrNothing
  <1>1. ResultsInv => AllOrNothing
    BY DEF ResultsInv
  <1> QED
    BY <1>1, ResultsInvariant, PTL

\* A batch has made one entry in a card's history exactly when it reports the
\* item applied: retried executions and lost acknowledgements repeat nothing.
THEOREM ExactlyOnce == Spec => []AppliedExactlyOnce
  <1>1. ResultsInv => AppliedExactlyOnce
    BY DEF ResultsInv
  <1> QED
    BY <1>1, ResultsInvariant, PTL

\* Every card's history is a chain of legal moves that ends in its status,
\* with batches, commands and the expiry interleaved.
THEOREM ChainedHistories == Spec => []HistoryChains
  <1>1. ResultsInv => HistoryChains
    BY DEF ResultsInv
  <1> QED
    BY <1>1, ResultsInvariant, PTL

\* A batch that was retried has not taken effect itself.
THEOREM RetriesApplyOnce == Spec => []RetryChainAppliesOnce
  <1>1. ResultsInv => RetryChainAppliesOnce
    BY DEF ResultsInv
  <1> QED
    BY <1>1, ResultsInvariant, PTL

-----------------------------------------------------------------------------
(* The implementation of AtomicBatch *)

\* What the requester can observe of a batch.
Phase == [b \in Batches |-> PhaseOf(row[b].status)]
Wanted == [b \in Batches |->
             IF request[b] = None THEN None
             ELSE [target |-> request[b].target, items |-> request[b].items]]

\* AtomicBatch has the lifecycle that the cards have.
LEMMA PromisedLifecycle ==
  /\ Promise!CardStates = CardStates
  /\ \A s, t : Promise!CanTransition(s, t) <=> CanTransition(s, t)
  BY DEF CardStates, CanTransition, Transition, TargetOf, SourcesOf, CardActions,
     Promise!CardStates, Promise!CanTransition, Promise!Transition, Promise!TargetOf,
     Promise!SourcesOf, Promise!CardActions

LEMMA InitPromise == Init => Promise!Init
  <1> SUFFICES ASSUME Init PROVE Promise!Init
    OBVIOUS
  <1>1. card \in [Cards -> CardStates]
    BY DEF Init, InitialCards, CardStates
  <1>2. Phase = [b \in Batches |-> "none"] /\ Wanted = [b \in Batches |-> None]
    BY DEF Init, Phase, Wanted, PhaseOf, NewRow
  <1> QED
    BY <1>1, <1>2, PromisedLifecycle DEF Promise!Init, Phase, Wanted

\* Batches whose phase and request do not change look the same from outside.
LEMMA SameView ==
  ASSUME \A b \in Batches : /\ PhaseOf(row'[b].status) = PhaseOf(row[b].status)
                            /\ request'[b] = request[b]
  PROVE  Phase' = Phase /\ Wanted' = Wanted
  BY DEF Phase, Wanted

LEMMA OneViewChanges ==
  ASSUME NEW b \in Batches, NEW p, PhaseOf(row'[b].status) = p, request'[b] = request[b],
         \A d \in Batches \ {b} : row'[d] = row[d] /\ request'[d] = request[d]
  PROVE  Phase' = [Phase EXCEPT ![b] = p] /\ Wanted' = Wanted
  BY DEF Phase, Wanted

LEMMA NextPromise ==
  ASSUME ResultsInv, [Next]_vars
  PROVE  [Promise!Next]_<<card, Phase, Wanted>>
  <1>1. LeaseInv /\ ShardStep
    BY StepKinds DEF ResultsInv
  <1>2. ASSUME NEW b \in Batches, NEW req \in Request, Accept(b, req) PROVE Promise!Submit(b)
    <2>1. /\ row[b].status = "none" /\ row'[b].status = "draft" /\ request'[b] = req
          /\ \A d \in Batches \ {b} : row'[d] = row[d] /\ request'[d] = request[d]
          /\ card' = card
      BY <1>1, <1>2, SubmissionEffects DEF SameBatch
    <2>2. req \in Request /\ req.target \in CardStates /\ req.items \in SUBSET Cards
      BY DEF Request, BatchTargets, CardStates
    <2>3. req # None
      BY NoneAssumption
    <2>4. Wanted' = [Wanted EXCEPT ![b] = [target |-> req.target, items |-> req.items]]
      BY <2>1, <2>3 DEF Wanted
    <2>5. Phase[b] = "none" /\ Phase' = [Phase EXCEPT ![b] = "open"]
      BY <2>1 DEF Phase, PhaseOf
    <2>6. \E target \in Promise!CardStates, items \in SUBSET Cards :
             Wanted' = [Wanted EXCEPT ![b] = [target |-> target, items |-> items]]
      BY <2>2, <2>4, PromisedLifecycle
    <2> QED
      BY <2>1, <2>5, <2>6 DEF Promise!Submit, Phase, Wanted
  <1>3. CASE OpenRowsMove
    <2>1. card' = card
      BY <1>3 DEF OpenRowsMove
    <2>2. \A b \in Batches : /\ PhaseOf(row'[b].status) = PhaseOf(row[b].status)
                             /\ request'[b] = request[b]
      BY <1>3 DEF OpenRowsMove, StaysOpen, Open, PhaseOf
    <2> QED
      BY <2>1, <2>2, SameView
  <1>4. ASSUME NEW b \in Batches, CancelCardStatusBatch(b) PROVE Promise!Reject(b)
    <2>1. /\ row[b].status \in {"draft", "queued"} /\ row'[b].status = "cancelled"
          /\ \A d \in Batches \ {b} : row'[d] = row[d]
          /\ UNCHANGED <<card, request>>
      BY <1>1, <1>4, CancelEffects
    <2>2. Phase[b] = "open" /\ PhaseOf(row'[b].status) = "rejected"
      BY <2>1 DEF Phase, PhaseOf
    <2>3. Phase' = [Phase EXCEPT ![b] = "rejected"] /\ Wanted' = Wanted
      BY <2>1, <2>2, OneViewChanges
    <2> QED
      BY <2>1, <2>2, <2>3 DEF Promise!Reject, Phase, Wanted
  <1>5. ASSUME NEW w \in Workers, Application(w) PROVE Promise!Apply(worker[w].batch)
    <2> DEFINE b == worker[w].batch
    <2>1. /\ b \in Batches /\ row[b].status = "processing" /\ request[b] \in Request
          /\ Items(w) = request[b].items /\ Items(w) \subseteq Cards
      BY <1>1, <1>5, ApplicationItems, HeldBatch
    <2>2. /\ row'[b].status = "succeeded" /\ request' = request
          /\ \A d \in Batches \ {b} : row'[d] = row[d]
          /\ \A c \in Cards : card'[c] = IF c \in Items(w) THEN Target(w) ELSE card[c]
      BY ZenonT(40), <1>1, <1>5, ApplicationEffects DEF SameBatch
    <2>3. \A c \in Items(w) : CanTransition(card[c], Target(w))
      BY <1>5 DEF Application, ResultsInv, LegalReads, LeaseInv, ReadsStayCurrent
    <2>4. card' = [c \in Cards |-> IF c \in Items(w) THEN Target(w) ELSE card[c]]
      <3>1. card' = [c \in Cards |-> IF c \in Applied(w) THEN Target(w) ELSE card[c]]
        BY <1>5 DEF Application, ApplyEffects
      <3> QED
        BY <2>2, <3>1
    <2>5. Wanted[b] = [target |-> Target(w), items |-> Items(w)]
      BY <2>1, NoneAssumption DEF Wanted, Target
    <2>6. Wanted[b].target = Target(w) /\ Wanted[b].items = Items(w)
      BY <2>5
    <2>7. Phase[b] = "open" /\ PhaseOf(row'[b].status) = "applied"
      BY <2>1, <2>2 DEF Phase, PhaseOf
    <2>8. Phase' = [Phase EXCEPT ![b] = "applied"] /\ Wanted' = Wanted
      BY <2>1, <2>2, <2>7, OneViewChanges
    <2> HIDE DEF b
    <2> QED
      BY ZenonT(40), <2>3, <2>4, <2>6, <2>7, <2>8, PromisedLifecycle DEF Promise!Apply, Phase, Wanted, b
  <1>6. ASSUME NEW w \in Workers, Rejection(w) PROVE Promise!Reject(worker[w].batch)
    <2> DEFINE b == worker[w].batch
    <2>1. b \in Batches /\ row[b].status = "processing"
      BY <1>1, <1>6, HeldBatch DEF Rejection
    <2>2. /\ row'[b].status = "failed" /\ UNCHANGED <<card, request>>
          /\ \A d \in Batches \ {b} : row'[d] = row[d]
      BY <1>1, <1>6, RejectionEffects DEF SameBatch
    <2>3. Phase[b] = "open" /\ PhaseOf(row'[b].status) = "rejected"
      BY <2>1, <2>2 DEF Phase, PhaseOf
    <2>4. Phase' = [Phase EXCEPT ![b] = "rejected"] /\ Wanted' = Wanted
      BY <2>1, <2>2, <2>3, OneViewChanges
    <2> QED
      BY <2>2, <2>3, <2>4 DEF Promise!Reject, Phase, Wanted
  <1>7. ASSUME NEW c \in Cards, NEW action \in Commands, CardCommand(c, action)
        PROVE  Promise!MoveCard(c)
    <2>1. /\ UNCHANGED <<request, row>> /\ CanTransition(card[c], card'[c])
          /\ \/ \A d \in Cards \ {c} : card'[d] = card[d]
             \/ /\ card'[c] = "active" /\ Predecessor[c] \in Cards
                /\ CanTransition(card[Predecessor[c]], "closed")
                /\ card'[Predecessor[c]] = "closed"
                /\ \A d \in Cards \ {c, Predecessor[c]} : card'[d] = card[d]
          /\ card' \in [Cards -> CardStates]
      BY <1>1, <1>7, CommandEffects
    <2>2. card \in [Cards -> CardStates] /\ Predecessor[c] # c
      BY <1>1, ConstantsAssumption DEF LeaseInv, KnownInv, TypeOK
    <2>3. Phase' = Phase /\ Wanted' = Wanted
      BY <2>1, SameView
    <2>4. \/ card' = [card EXCEPT ![c] = card'[c]]
          \/ /\ card'[c] = "active" /\ Predecessor[c] \in Cards
             /\ CanTransition(card[Predecessor[c]], "closed")
             /\ card' = [card EXCEPT ![c] = "active", ![Predecessor[c]] = "closed"]
      BY <2>1, <2>2
    <2>5. card'[c] \in CardStates
      BY <2>1
    <2> QED
      BY <2>1, <2>3, <2>4, <2>5, PromisedLifecycle DEF Promise!MoveCard, Phase, Wanted
  <1> QED
    <2>1. Submission => Promise!Next
      BY <1>2 DEF Submission, Promise!Next
    <2>2. (\E b \in Batches : CancelCardStatusBatch(b)) => Promise!Next
      BY <1>4 DEF Promise!Next
    <2>3. ASSUME NEW w \in Workers, Application(w) \/ Rejection(w) PROVE Promise!Next
      <3>1. worker[w].batch \in Batches
        BY <1>1, <2>3, ApplicationItems, HeldBatch DEF Rejection
      <3> QED
        BY <1>5, <1>6, <2>3, <3>1 DEF Promise!Next
    <2>4. (\E c \in Cards, action \in Commands : CardCommand(c, action)) => Promise!Next
      BY <1>7 DEF Promise!Next
    <2> QED
      BY <1>1, <1>3, <2>1, <2>2, <2>3, <2>4 DEF ShardStep

\* Leases, goroutines, crashes and locks are invisible to the requester: the
\* batches behave as AtomicBatch says.
THEOREM Refinement == Spec => ImplementsAtomicBatch
  <1>1. ResultsInv /\ [Next]_vars => [Promise!Next]_<<card, Phase, Wanted>>
    BY NextPromise
  <1>2. Init => Promise!Init
    BY InitPromise
  <1> QED
    BY <1>1, <1>2, ResultsInvariant, PTL
    DEF Spec, ImplementsAtomicBatch, Promise!Spec, Phase, Wanted

-----------------------------------------------------------------------------
(* Authorization *)

\* What holds now has been noted for every claimed batch.
GrantsNoted ==
  \A b \in Batches : row[b].status = "processing" =>
     GrantsNow(request[b].by, users, routeActive) \subseteq authSince[b]

\* w works on the claim that the row is processing under.
CurrentClaim(w) ==
  /\ Busy(w)
  /\ row[worker[w].batch].status = "processing"
  /\ row[worker[w].batch].version = worker[w].version

\* What a goroutine with the current claim has found out was noted.
ChecksNoted ==
  \A w \in Workers : CurrentClaim(w) =>
     /\ worker[w].pc = "routing" /\ worker[w].userOK => "user" \in authSince[worker[w].batch]
     /\ worker[w].pc \in {"authorized", "verified", "locked"}
           => authSince[worker[w].batch] = Grants

AuthInv == LeaseInv /\ GrantsNoted /\ ChecksNoted

LEMMA InitAuthInv == Init => AuthInv
  <1> SUFFICES ASSUME Init PROVE AuthInv
    OBVIOUS
  <1>1. (\A b \in Batches : row[b].status = "none") /\ \A w \in Workers : worker[w].pc = "idle"
    BY DEF Init, NewRow, IdleWorker
  <1> QED
    BY <1>1, InitLeaseInv DEF AuthInv, GrantsNoted, ChecksNoted, CurrentClaim, Busy

\* No batch is newly claimed.
NoNewClaim ==
  \A b \in Batches : row'[b].status = "processing" =>
     /\ row[b].status = "processing" /\ row'[b].version = row[b].version
     /\ request'[b] = request[b]

LEMMA RowsUnclaimed ==
  ASSUME LeaseInv, [Next]_vars,
         ~\E w \in Workers, b \in Batches : ClaimBatch(w, b)
  PROVE  NoNewClaim
  <1> SUFFICES ASSUME NEW b \in Batches, row'[b].status = "processing"
               PROVE  row[b].status = "processing" /\ row'[b].version = row[b].version
    <2>1. \A b \in Batches : row[b].status # "none" => request'[b] = request[b]
      BY StepKinds, RequestKept
    <2> QED
      BY <2>1 DEF NoNewClaim
  <1>1. row \in [Batches -> Row]
    BY DEF LeaseInv, KnownInv, TypeOK
  <1>2. row'[b] = row[b] => row[b].status = "processing" /\ row'[b].version = row[b].version
    OBVIOUS
  <1>3. ASSUME NEW d \in Batches, NEW r, row' = [row EXCEPT ![d] = r],
               \/ r.status # "processing"
               \/ r.status = row[d].status /\ r.version = row[d].version
        PROVE  row[b].status = "processing" /\ row'[b].version = row[b].version
    BY <1>1, <1>2, <1>3
  <1>4. ASSUME NEW d \in Batches,
               \/ ExecuteCardStatusBatch(d) \/ CancelCardStatusBatch(d)
               \/ LeaseExpires(d) \/ BackoffElapses(d)
               \/ \E req \in Request : Accept(d, req)
        PROVE  row[b].status = "processing" /\ row'[b].version = row[b].version
    <2> DEFINE r == row[d]
    <2>1. r \in Row
      BY <1>1
    <2>2. \/ row' = [row EXCEPT ![d] = [r EXCEPT !.status = "queued", !.due = TRUE]]
          \/ row' = [row EXCEPT ![d] = [r EXCEPT !.status = "cancelled"]]
          \/ row' = [row EXCEPT ![d] = [r EXCEPT !.status = "draft"]]
          \/ row' = [row EXCEPT ![d] = [r EXCEPT !.current = FALSE]]
          \/ row' = [row EXCEPT ![d] = [r EXCEPT !.due = TRUE]]
      BY <1>4 DEF ExecuteCardStatusBatch, CancelCardStatusBatch, LeaseExpires,
         BackoffElapses, Accept, Dispatched
    <2> DEFINE q1 == [r EXCEPT !.status = "queued", !.due = TRUE]
               q2 == [r EXCEPT !.status = "cancelled"]
               q3 == [r EXCEPT !.status = "draft"]
               q4 == [r EXCEPT !.current = FALSE]
               q5 == [r EXCEPT !.due = TRUE]
    <2> HIDE DEF r
    <2>3. /\ q1.status = "queued" /\ q2.status = "cancelled" /\ q3.status = "draft"
          /\ q4.status = r.status /\ q4.version = r.version
          /\ q5.status = r.status /\ q5.version = r.version
      BY <2>1 DEF Row
    <2> HIDE DEF q1, q2, q3, q4, q5
    <2>4. \E q \in {q1, q2, q3, q4, q5} : row' = [row EXCEPT ![d] = q]
      BY <2>2 DEF r, q1, q2, q3, q4, q5
    <2> QED
      BY <1>3, <2>3, <2>4 DEF r
  <1>5. ASSUME NEW e \in Executors, RecoverBatches(e)
        PROVE  row[b].status = "processing" /\ row'[b].version = row[b].version
    BY <1>1, <1>2, <1>5, RecoveredRowType DEF RecoverBatches
  <1>6. ASSUME NEW w \in Workers, ReportFailure(w) \/ RetryBatch(w)
        PROVE  row[b].status = "processing" /\ row'[b].version = row[b].version
    <2> DEFINE d == worker[w].batch
               requeued == [Released(row[d], "queued") EXCEPT !.due = FALSE,
                                                              !.failure = worker[w].code]
    <2>1. Busy(w) /\ worker[w].code \in FailureCodes /\ "retry_exhausted" \in FailureCodes
      BY <1>6 DEF ReportFailure, RetryBatch, Busy, LeaseInv, KnownInv, TypeOK, Worker,
         FailureCodes
    <2>2. d \in Batches /\ row[d] \in Row
      BY <2>1, WorkerItems
    <2>3. \/ UNCHANGED row
          \/ Rejection(w)
          \/ row' = [row EXCEPT ![d] = requeued]
      BY <1>6, <2>1 DEF ReportFailure, RetryBatch, FailBatch, RequeueBatch, Fenced, Rejection,
         RequeueEffects
    <2>4. requeued.status = "queued"
      BY <2>1, <2>2, RequeuedRow
    <2> HIDE DEF requeued
    <2>5. CASE Rejection(w)
      BY <1>2, <2>5, RejectionEffects DEF SameBatch
    <2> QED
      BY <1>2, <1>3, <2>2, <2>3, <2>4, <2>5
  <1>7. ASSUME NEW w \in Workers, ApplyCommit(w) \/ ApplyCommitUnacknowledged(w)
        PROVE  row[b].status = "processing" /\ row'[b].version = row[b].version
    <2>1. UNCHANGED row \/ Application(w)
      BY <1>7 DEF ApplyCommit, ApplyCommitUnacknowledged, Application, dbVars
    <2>2. CASE Application(w)
      <3>1. /\ row'[worker[w].batch].status = "succeeded"
            /\ \A d \in Batches \ {worker[w].batch} : row'[d] = row[d]
        BY <2>2, ApplicationEffects DEF SameBatch
      <3> QED
        BY <1>2, <3>1
    <2> QED
      BY <1>2, <2>1, <2>2
  <1>8. CASE UNCHANGED row
    BY <1>2, <1>8
  <1>9. ASSUME NEW w \in Workers,
               \/ LookupUser(w) \/ LookupRoutes(w) \/ ApplyVerify(w) \/ ApplyLockCards(w)
               \/ ControlUnavailable(w) \/ ApplyError(w) \/ ReportLost(w)
        PROVE  UNCHANGED row
    BY <1>9 DEF LookupUser, LookupRoutes, ApplyVerify, ApplyLockCards, ControlUnavailable,
       ApplyError, ReportLost, dbVars
  <1>10. ControlNext \/ UNCHANGED vars => UNCHANGED row
    BY DEF ControlNext, UpdateUser, SetBankRouteStatus, vars, dbVars
  <1>11. ASSUME NEW e \in Executors, ListBanks(e) \/ SkipBank(e) \/ ExecutorExits(e)
         PROVE  UNCHANGED row
    BY <1>11 DEF ListBanks, SkipBank, ExecutorExits, dbVars
  <1>12. ASSUME ApiNext PROVE row[b].status = "processing" /\ row'[b].version = row[b].version
    <2>1. ASSUME NEW c \in Cards, NEW action \in Commands, CardCommand(c, action)
          PROVE  UNCHANGED row
      BY <2>1 DEF CardCommand
    <2>2. ASSUME NEW d \in Batches, NEW u \in Users,
                 \/ CreateCardStatusBatch(d, u)
                 \/ \E source \in Batches : RetryCardStatusBatch(d, source, u)
          PROVE  Submission
      BY <2>2, SubmissionSteps
    <2> QED
      BY <1>4, <1>8, <1>12, <2>1, <2>2 DEF ApiNext, Submission
  <1>13. ASSUME NEW w \in Workers, RunBatch(w) \/ Errors(w)
         PROVE  row[b].status = "processing" /\ row'[b].version = row[b].version
    BY <1>6, <1>7, <1>8, <1>9, <1>13 DEF RunBatch, Errors
  <1> QED
    BY <1>4, <1>5, <1>8, <1>10, <1>11, <1>12, <1>13 DEF Next, CycleNext, TimeNext

\* How a goroutine that is not started may move: what it learns is what holds.
Learns(w) ==
  /\ Busy(w)
  /\ worker'[w].batch = worker[w].batch /\ worker'[w].version = worker[w].version
  /\ \/ /\ worker'[w].pc = "routing"
        /\ worker'[w].userOK => Eligible(users[request[worker[w].batch].by])
     \/ /\ worker[w].pc = "routing" /\ worker[w].userOK /\ routeActive
        /\ worker'[w].pc = "authorized"
     \/ /\ worker[w].pc \in {"authorized", "verified"}
        /\ worker'[w].pc \in {"verified", "locked"}

Progress(w) ==
  \/ worker'[w] = worker[w]
  \/ worker'[w].pc \in {"idle", "claimed", "retry", "fail"}
  \/ Learns(w)

ControlKept == UNCHANGED <<users, routeActive, authSince>>

\* The records that a goroutine's steps produce.
LEMMA MovedGoroutine ==
  ASSUME NEW x \in Worker, NEW pc \in Steps, NEW ok \in BOOLEAN, NEW code, NEW read
  PROVE  /\ [x EXCEPT !.pc = pc].pc = pc
         /\ [x EXCEPT !.pc = pc].batch = x.batch
         /\ [x EXCEPT !.pc = pc].version = x.version
         /\ [x EXCEPT !.pc = pc, !.code = code].pc = pc
         /\ [x EXCEPT !.pc = pc, !.userOK = ok].pc = pc
         /\ [x EXCEPT !.pc = pc, !.userOK = ok].userOK = ok
         /\ [x EXCEPT !.pc = pc, !.userOK = ok].batch = x.batch
         /\ [x EXCEPT !.pc = pc, !.userOK = ok].version = x.version
         /\ [x EXCEPT !.pc = pc, !.read = read].pc = pc
         /\ [x EXCEPT !.pc = pc, !.read = read].batch = x.batch
         /\ [x EXCEPT !.pc = pc, !.read = read].version = x.version
  BY DEF Worker

LEMMA GoroutineProgress ==
  ASSUME LeaseInv, NEW w \in Workers, RunBatch(w) \/ Errors(w), NEW v \in Workers
  PROVE  ControlKept /\ Progress(v)
  <1> DEFINE x == worker[w]
  <1>1. worker \in [Workers -> Worker] /\ x \in Worker
    BY DEF LeaseInv, KnownInv, TypeOK
  <1>2. ControlKept
    BY DEF RunBatch, Errors, LookupUser, LookupRoutes, ApplyVerify, ApplyLockCards, ApplyCommit,
       ReportFailure, RetryBatch, ControlUnavailable, ApplyError, ApplyCommitUnacknowledged,
       ReportLost, ControlKept, controlVars
  <1>3. ASSUME NEW y, worker' = [worker EXCEPT ![w] = y]
        PROVE  /\ v # w => worker'[v] = worker[v]
               /\ worker'[w] = y
    BY <1>1, <1>3
  <1> SUFFICES Progress(v)
    BY <1>2
  <1>4. Finish(w) => Progress(v)
    <2>1. IdleWorker.pc = "idle"
      BY DEF IdleWorker
    <2> QED
      BY <1>3, <2>1 DEF Finish, Progress
  <1>5. ASSUME NEW code, GotoFail(w, code) \/ GotoRetry(w, code) PROVE Progress(v)
    <2> DEFINE y == [x EXCEPT !.pc = "fail", !.code = code]
               z == [x EXCEPT !.pc = "retry", !.code = code]
    <2>1. worker' = [worker EXCEPT ![w] = y] \/ worker' = [worker EXCEPT ![w] = z]
      BY <1>5 DEF GotoFail, GotoRetry
    <2>2. y.pc = "fail" /\ z.pc = "retry"
      BY <1>1, MovedGoroutine DEF Steps
    <2> HIDE DEF x, y, z
    <2> QED
      BY <1>3, <2>1, <2>2 DEF Progress
  <1>6. CASE LookupUser(w)
    <2> DEFINE u == users[request[worker[w].batch].by]
               y == [x EXCEPT !.pc = "routing", !.userOK = Eligible(u)]
    <2>1. CASE worker' = [worker EXCEPT ![w].pc = "routing", ![w].userOK = Eligible(u)]
      <3>1. worker' = [worker EXCEPT ![w] = y] /\ Busy(w)
        BY <1>6, <2>1 DEF LookupUser, Busy
      <3>2. Eligible(u) \in BOOLEAN
        BY DEF Eligible
      <3>3. /\ y.pc = "routing" /\ y.userOK = Eligible(u)
            /\ y.batch = x.batch /\ y.version = x.version
        BY <1>1, <3>2, MovedGoroutine DEF Steps
      <3> HIDE DEF y
      <3> QED
        BY <1>3, <3>1, <3>3 DEF Progress, Learns
    <2> QED
      BY <1>5, <1>6, <2>1 DEF LookupUser
  <1>7. ASSUME NEW pc \in {"authorized", "verified"}, Goto(w, pc), Busy(w),
               \/ /\ worker[w].pc = "routing" /\ worker[w].userOK /\ routeActive
                  /\ pc = "authorized"
               \/ worker[w].pc = "authorized" /\ pc = "verified"
        PROVE  Progress(v)
    <2> DEFINE y == [x EXCEPT !.pc = pc]
    <2>1. worker' = [worker EXCEPT ![w] = y]
      BY <1>7 DEF Goto
    <2>2. y.pc = pc /\ y.batch = x.batch /\ y.version = x.version
      BY <1>1, <1>7, MovedGoroutine DEF Steps
    <2> HIDE DEF y
    <2> QED
      BY <1>3, <1>7, <2>1, <2>2 DEF Progress, Learns
  <1>8. CASE LookupRoutes(w)
    BY <1>5, <1>7, <1>8 DEF LookupRoutes, Busy
  <1>9. CASE ApplyVerify(w)
    BY <1>4, <1>7, <1>9 DEF ApplyVerify, Busy
  <1>10. CASE ApplyLockCards(w)
    <2> DEFINE read == [c \in Cards |-> IF c \in Items(w) THEN card[c] ELSE "pending"]
               y == [x EXCEPT !.pc = "locked", !.read = read]
    <2>1. CASE worker' = [worker EXCEPT ![w].pc = "locked", ![w].read = read]
      <3>1. worker' = [worker EXCEPT ![w] = y] /\ Busy(w) /\ worker[w].pc = "verified"
        BY <1>10, <2>1 DEF ApplyLockCards, Busy
      <3>2. y.pc = "locked" /\ y.batch = x.batch /\ y.version = x.version
        BY <1>1, MovedGoroutine DEF Steps
      <3> HIDE DEF y
      <3> QED
        BY <1>3, <3>1, <3>2 DEF Progress, Learns
    <2> QED
      BY <1>5, <1>10, <2>1 DEF ApplyLockCards
  <1>11. CASE ApplyCommit(w) \/ ReportFailure(w) \/ RetryBatch(w) \/ ReportLost(w)
    BY <1>4, <1>11 DEF ApplyCommit, ReportFailure, RetryBatch, ReportLost
  <1>12. CASE ControlUnavailable(w) \/ ApplyError(w) \/ ApplyCommitUnacknowledged(w)
    BY <1>5, <1>12 DEF ControlUnavailable, ApplyError, ApplyCommitUnacknowledged, AfterError
  <1> QED
    BY <1>6, <1>8, <1>9, <1>10, <1>11, <1>12 DEF RunBatch, Errors

LEMMA UnclaimedSteps ==
  ASSUME LeaseInv, [Next]_vars,
         ~\E w \in Workers, b \in Batches : ClaimBatch(w, b), ~ControlNext
  PROVE  ControlKept /\ \A v \in Workers : Progress(v)
  <1>1. CASE ApiNext
    BY <1>1 DEF ApiNext, CreateCardStatusBatch, RetryCardStatusBatch, Accept,
       ExecuteCardStatusBatch, CancelCardStatusBatch, CardCommand, ControlKept, controlVars,
       Progress
  <1>2. ASSUME NEW e \in Executors, ListBanks(e) \/ RecoverBatches(e) \/ SkipBank(e)
        PROVE  ControlKept /\ \A v \in Workers : Progress(v)
    BY <1>2 DEF ListBanks, RecoverBatches, SkipBank, ControlKept, controlVars, Progress
  <1>3. CASE TimeNext
    BY <1>3 DEF TimeNext, LeaseExpires, BackoffElapses, ControlKept, controlVars, Progress
  <1>4. ASSUME NEW e \in Executors, ExecutorExits(e) PROVE ControlKept /\ \A v \in Workers : Progress(v)
    <2>1. IdleWorker.pc = "idle"
      BY DEF IdleWorker
    <2> QED
      BY <1>4, <2>1 DEF ExecutorExits, ControlKept, controlVars, Progress
  <1>5. CASE UNCHANGED vars
    BY <1>5 DEF vars, ControlKept, Progress
  <1> QED
    BY <1>1, <1>2, <1>3, <1>4, <1>5, GoroutineProgress DEF Next, CycleNext

-----------------------------------------------------------------------------

\* What a goroutine learns under the current claim has been noted.
LEMMA LearningStep ==
  ASSUME AuthInv, LeaseInv', NoNewClaim, ControlKept, \A w \in Workers : Progress(w)
  PROVE  AuthInv'
  <1>1. GrantsNoted'
    BY DEF AuthInv, GrantsNoted, NoNewClaim, ControlKept, GrantsNow
  <1>2. ChecksNoted'
    <2> SUFFICES ASSUME NEW w \in Workers, CurrentClaim(w)'
                 PROVE  /\ worker'[w].pc = "routing" /\ worker'[w].userOK
                             => "user" \in authSince'[worker'[w].batch]
                        /\ worker'[w].pc \in {"authorized", "verified", "locked"}
                             => authSince'[worker'[w].batch] = Grants
      BY DEF ChecksNoted
    <2> DEFINE b == worker'[w].batch
    <2>1. b \in Batches /\ row'[b].status = "processing" /\ row'[b].version = worker'[w].version
      BY DEF CurrentClaim, LeaseInv, KnownInv, WorkersKnown
    <2>2. row[b].status = "processing" /\ row[b].version = worker'[w].version
      BY <2>1 DEF NoNewClaim
    <2>3. GrantsNow(request[b].by, users, routeActive) \subseteq authSince[b]
      BY <2>1, <2>2 DEF AuthInv, GrantsNoted
    <2>4. authSince' = authSince /\ authSince[b] \subseteq Grants
      BY <2>1 DEF ControlKept, AuthInv, LeaseInv, KnownInv, TypeOK
    <2>5. CASE worker'[w] = worker[w]
      <3>1. CurrentClaim(w)
        BY <2>2, <2>5 DEF CurrentClaim, Busy
      <3> QED
        BY <2>4, <2>5, <3>1 DEF AuthInv, ChecksNoted
    <2>6. CASE Learns(w)
      <3>1. CurrentClaim(w) /\ worker[w].batch = b
        BY <2>2, <2>6 DEF CurrentClaim, Learns
      <3>2. /\ worker[w].pc = "routing" /\ worker[w].userOK => "user" \in authSince[b]
            /\ worker[w].pc \in {"authorized", "verified", "locked"} => authSince[b] = Grants
        BY <3>1 DEF AuthInv, ChecksNoted
      <3>3. /\ Eligible(users[request[b].by]) => "user" \in authSince[b]
            /\ routeActive => "route" \in authSince[b]
        BY <2>3 DEF GrantsNow, Grants
      <3> QED
        BY <2>4, <2>6, <3>1, <3>2, <3>3 DEF Learns, Grants
    <2> QED
      BY <2>5, <2>6 DEF Progress
  <1> QED
    BY <1>1, <1>2 DEF AuthInv

\* Administration: what holds from now on is noted, and nothing is forgotten.
LEMMA AdministrationStep ==
  ASSUME AuthInv, LeaseInv', ControlNext
  PROVE  AuthInv'
  <1>1. UNCHANGED <<row, request, worker>>
    BY DEF ControlNext, UpdateUser, SetBankRouteStatus, dbVars
  <1>2. authSince' = Witnessed(users', routeActive')
    BY DEF ControlNext, UpdateUser, SetBankRouteStatus
  <1>3. GrantsNoted'
    BY <1>1, <1>2 DEF GrantsNoted, Witnessed
  <1>4. \A b \in Batches : authSince[b] \subseteq authSince'[b] /\ authSince'[b] \subseteq Grants
    BY <1>2 DEF Witnessed, LeaseInv, KnownInv, TypeOK
  <1>5. ChecksNoted'
    <2> SUFFICES ASSUME NEW w \in Workers, CurrentClaim(w)
                 PROVE  /\ worker[w].pc = "routing" /\ worker[w].userOK
                             => "user" \in authSince'[worker[w].batch]
                        /\ worker[w].pc \in {"authorized", "verified", "locked"}
                             => authSince'[worker[w].batch] = Grants
      BY <1>1 DEF ChecksNoted, CurrentClaim, Busy
    <2>1. worker[w].batch \in Batches
      BY DEF AuthInv, LeaseInv, KnownInv, WorkersKnown, CurrentClaim
    <2> QED
      BY ZenonT(40), <1>4, <2>1 DEF AuthInv, ChecksNoted
  <1> QED
    BY <1>3, <1>5 DEF AuthInv

\* A claim starts a new account of what held; older claims are not current.
LEMMA ClaimingStep ==
  ASSUME AuthInv, LeaseInv', NEW w \in Workers, NEW b \in Batches, ClaimBatch(w, b)
  PROVE  AuthInv'
  <1> DEFINE fresh == [IdleWorker EXCEPT !.pc = "claimed", !.batch = b,
                                         !.version = row[b].version + 1,
                                         !.attempts = row[b].attempts + 1]
             r == ClaimedRow(row[b], Identity[w])
  <1>1. /\ row[b] \in Row /\ row[b].version \in Nat /\ Identity[w] \in Executors
        /\ row \in [Batches -> Row] /\ worker \in [Workers -> Worker]
        /\ authSince \in [Batches -> SUBSET Grants]
    BY ConstantsAssumption DEF AuthInv, LeaseInv, KnownInv, TypeOK, Row
  <1>2. fresh.pc = "claimed"
    BY DEF IdleWorker
  <1>3. r.version = row[b].version + 1
    BY <1>1, ClaimedRowType
  <1>4. /\ row' = [row EXCEPT ![b] = r]
        /\ worker' = [worker EXCEPT ![w] = fresh]
        /\ authSince' = [authSince EXCEPT ![b] = GrantsNow(request[b].by, users, routeActive)]
        /\ UNCHANGED <<request, users, routeActive>>
    BY DEF ClaimBatch, controlVars
  <1> HIDE DEF fresh, r
  <1>5. GrantsNoted'
    BY <1>1, <1>4 DEF AuthInv, GrantsNoted, GrantsNow
  <1>6. ChecksNoted'
    <2> SUFFICES ASSUME NEW v \in Workers, CurrentClaim(v)'
                 PROVE  /\ worker'[v].pc = "routing" /\ worker'[v].userOK
                             => "user" \in authSince'[worker'[v].batch]
                        /\ worker'[v].pc \in {"authorized", "verified", "locked"}
                             => authSince'[worker'[v].batch] = Grants
      BY DEF ChecksNoted
    <2>1. CASE v = w
      BY <1>1, <1>2, <1>4, <2>1
    <2>2. CASE v # w
      <3>1. worker'[v] = worker[v] /\ Busy(v)
        BY <1>1, <1>4, <2>2 DEF CurrentClaim, Busy
      <3>2. worker[v].batch \in Batches /\ worker[v].version <= row[worker[v].batch].version
        BY <3>1 DEF AuthInv, LeaseInv, KnownInv, WorkersKnown
      <3>3. worker[v].version \in Nat
        BY <1>1 DEF Worker
      <3>4. worker[v].batch # b
        BY <1>1, <1>3, <1>4, <3>1, <3>2, <3>3 DEF CurrentClaim
      <3>5. /\ row'[worker[v].batch] = row[worker[v].batch]
            /\ authSince'[worker[v].batch] = authSince[worker[v].batch]
        BY <1>1, <1>4, <3>2, <3>4
      <3>6. CurrentClaim(v)
        BY <3>1, <3>5 DEF CurrentClaim
      <3> QED
        BY <3>1, <3>5, <3>6 DEF AuthInv, ChecksNoted
    <2> QED
      BY <2>1, <2>2
  <1> QED
    BY <1>5, <1>6 DEF AuthInv

LEMMA NextAuthInv == AuthInv /\ [Next]_vars => AuthInv'
  <1> SUFFICES ASSUME AuthInv, [Next]_vars PROVE AuthInv'
    OBVIOUS
  <1>1. LeaseInv /\ LeaseInv'
    BY NextLeaseInv DEF AuthInv
  <1>2. CASE ControlNext
    BY <1>1, <1>2, AdministrationStep
  <1>3. CASE \E w \in Workers, b \in Batches : ClaimBatch(w, b)
    BY <1>1, <1>3, ClaimingStep
  <1>4. CASE ~ControlNext /\ ~\E w \in Workers, b \in Batches : ClaimBatch(w, b)
    <2>1. NoNewClaim
      BY <1>1, <1>4, RowsUnclaimed
    <2>2. ControlKept /\ \A v \in Workers : Progress(v)
      BY <1>1, <1>4, UnclaimedSteps
    <2> QED
      BY <1>1, <2>1, <2>2, LearningStep
  <1> QED
    BY <1>2, <1>3, <1>4

\* A worker that passed a check of authorized() passed it since its claim: what
\* it noted of the requester and the route was true at some moment after it.
THEOREM AuthInvariant == Spec => []AuthInv
  BY InitAuthInv, NextAuthInv, PTL DEF Spec

\* A batch becomes succeeded only by an application, under the claim its
\* goroutine was authorized for.
LEMMA AuthorizedStep ==
  ASSUME AuthInv, [Next]_vars, NEW b \in Batches,
         row[b].status # "succeeded", row'[b].status = "succeeded"
  PROVE  authSince[b] = Grants
  <1>1. LeaseInv /\ ShardStep
    BY StepKinds DEF AuthInv
  <1>2. ASSUME NEW w \in Workers, Application(w) PROVE authSince[b] = Grants
    <2>1. \A d \in Batches \ {worker[w].batch} : row'[d] = row[d]
      BY <1>1, <1>2, ApplicationEffects DEF SameBatch
    <2>2. worker[w].batch = b
      BY <2>1
    <2>3. CurrentClaim(w) /\ worker[w].pc = "locked"
      BY <1>2 DEF Application, Holds, CurrentClaim, Busy
    <2> QED
      BY <2>2, <2>3 DEF AuthInv, ChecksNoted
  <1>3. ASSUME NEW d \in Batches, NEW req \in Request, Accept(d, req) PROVE FALSE
    BY <1>1, <1>3, SubmissionEffects DEF SameBatch
  <1>4. ASSUME NEW d \in Batches, CancelCardStatusBatch(d) PROVE FALSE
    BY <1>1, <1>4, CancelEffects DEF SameBatch
  <1>5. ASSUME NEW w \in Workers, Rejection(w) PROVE FALSE
    BY <1>1, <1>5, RejectionEffects DEF SameBatch
  <1>6. OpenRowsMove => FALSE
    BY DEF OpenRowsMove, StaysOpen, Open
  <1>7. ASSUME NEW c \in Cards, NEW action \in Commands, CardCommand(c, action) PROVE FALSE
    BY <1>7 DEF CardCommand
  <1> QED
    BY <1>1, <1>2, <1>3, <1>4, <1>5, <1>6, <1>7 DEF ShardStep, Submission

\* A batch is applied only if its requester was an enabled operator of the
\* bank, and the route active, at some moment since the claim (authorized()).
THEOREM AuthorizedOnly == Spec => AppliedOnlyIfAuthorized
  <1>1. AuthInv /\ [Next]_vars =>
          [\A b \in Batches :
             row[b].status # "succeeded" /\ row'[b].status = "succeeded"
               => authSince[b] = Grants]_vars
    BY AuthorizedStep
  <1> QED
    BY <1>1, AuthInvariant, PTL DEF Spec, AppliedOnlyIfAuthorized

=============================================================================
