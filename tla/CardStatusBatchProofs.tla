----------------------- MODULE CardStatusBatchProofs -----------------------
(***************************************************************************)
(* Theorems about CardStatusBatch, for any number of cards, batches,       *)
(* users, executors and workers, and any bound on faults.                  *)
(***************************************************************************)
EXTENDS CardStatusBatch, FiniteSetTheorems, TLAPS

-----------------------------------------------------------------------------
(* Lemmas about the operators *)

\* The records that a lease change produces are rows, and which fields move.
LEMMA ReleasedRow ==
  ASSUME NEW r \in Row, NEW s \in BatchStates
  PROVE  /\ Released(r, s) \in Row
         /\ Released(r, s) = [r EXCEPT !.status = s, !.owner = None, !.current = FALSE]
         /\ Released(r, s).status = s
         /\ Released(r, s).owner = None
         /\ Released(r, s).version = r.version
  BY DEF Released, Row

LEMMA EditedRow ==
  ASSUME NEW r \in Row, NEW s \in BatchStates, NEW x \in BOOLEAN
  PROVE  /\ [r EXCEPT !.status = s] \in Row
         /\ [r EXCEPT !.status = s].status = s
         /\ [r EXCEPT !.status = s].version = r.version
         /\ [r EXCEPT !.status = s, !.due = x] \in Row
         /\ [r EXCEPT !.status = s, !.due = x].status = s
         /\ [r EXCEPT !.status = s, !.due = x].version = r.version
         /\ [r EXCEPT !.current = x] \in Row
         /\ [r EXCEPT !.current = x].status = r.status
         /\ [r EXCEPT !.current = x].version = r.version
         /\ [r EXCEPT !.current = x].owner = r.owner
         /\ [r EXCEPT !.due = x] \in Row
         /\ [r EXCEPT !.due = x].status = r.status
         /\ [r EXCEPT !.due = x].version = r.version
         /\ [r EXCEPT !.due = x].owner = r.owner
  BY DEF Row

LEMMA RecoveredRowType ==
  ASSUME NEW r \in Row
  PROVE  /\ RecoveredRow(r) \in Row
         /\ RecoveredRow(r).status = "queued"
         /\ RecoveredRow(r).version = r.version + 1
  <1> DEFINE q == Released(r, "queued")
  <1>1. q \in Row /\ q.status = "queued"
    BY ReleasedRow DEF BatchStates
  <1> HIDE DEF q
  <1>2. RecoveredRow(r) = [q EXCEPT !.version = r.version + 1, !.due = TRUE]
    BY DEF RecoveredRow, q
  <1>3. r.version + 1 \in Nat
    BY DEF Row
  <1> QED
    BY <1>1, <1>2, <1>3 DEF Row

LEMMA ClaimedRowType ==
  ASSUME NEW r \in Row, NEW e \in Executors
  PROVE  /\ ClaimedRow(r, e) \in Row
         /\ ClaimedRow(r, e).status = "processing"
         /\ ClaimedRow(r, e).owner = e
         /\ ClaimedRow(r, e).version = r.version + 1
  <1> DEFINE v == r.version + 1
             a == r.attempts + 1
  <1>1. v \in Nat /\ a \in Nat
    BY DEF Row
  <1>2. ClaimedRow(r, e) = [r EXCEPT !.status = "processing", !.owner = e, !.current = TRUE,
                                     !.version = v, !.attempts = a]
    BY DEF ClaimedRow
  <1> HIDE DEF v, a
  <1>3. ClaimedRow(r, e) \in Row
    BY <1>1, <1>2 DEF Row, BatchStates
  <1>4. ClaimedRow(r, e).status = "processing" /\ ClaimedRow(r, e).owner = e
    BY <1>2 DEF Row
  <1>5. ClaimedRow(r, e).version = v
    BY <1>2 DEF Row
  <1> QED
    BY <1>3, <1>4, <1>5 DEF v

LEMMA IdleWorkerType == IdleWorker \in Worker
  BY DEF IdleWorker, Worker, Steps, FailureCodes, NoReads, CardStates

\* The status a legal action leads to is a card status.
LEMMA TransitionType ==
  ASSUME NEW current \in CardStates, NEW action \in CardActions
  PROVE  Transition(current, action).target \in CardStates
  BY DEF Transition, TargetOf, CardActions, CardStates

-----------------------------------------------------------------------------
(* The inductive invariant *)

\* A row that exists belongs to an accepted request.
RequestsKnown == \A b \in Batches : row[b].status # "none" => request[b] \in Request

Busy(w) == worker[w].pc # "idle"

\* A goroutine's claim is of a real batch, under a version already issued.
WorkersKnown ==
  \A w \in Workers : Busy(w) =>
     /\ worker[w].batch \in Batches
     /\ row[worker[w].batch].status # "none"
     /\ worker[w].version <= row[worker[w].batch].version

\* No two goroutines hold the same version of the same batch.
ClaimsDistinct ==
  \A v, w \in Workers :
     v # w /\ Busy(v) /\ Busy(w) /\ worker[v].batch = worker[w].batch
       => worker[v].version # worker[w].version

\* Inside the transaction the row is held under the claimed version.
TransactionsHold ==
  \A w \in Workers : InTransaction(w) =>
     /\ row[worker[w].batch].status = "processing"
     /\ row[worker[w].batch].version = worker[w].version
     /\ row[worker[w].batch].owner = Identity[w]

\* Card locks are exclusive.
LocksDisjoint ==
  \A v, w \in Workers :
     v # w /\ worker[v].pc = "locked" /\ worker[w].pc = "locked"
       => Items(v) \cap Items(w) = {}

KnownInv == TypeOK /\ RequestsKnown /\ WorkersKnown

LeaseInv ==
  /\ KnownInv
  /\ ClaimsDistinct
  /\ TransactionsHold
  /\ LocksDisjoint
  /\ ReadsStayCurrent

LEMMA InitLeaseInv == Init => LeaseInv
  <1> SUFFICES ASSUME Init PROVE LeaseInv
    OBVIOUS
  <1>1. TypeOK
    <2>1. card \in [Cards -> CardStates]
      BY DEF Init, InitialCards, CardStates
    <2>2. row \in [Batches -> Row]
      BY DEF Init, NewRow, Row, BatchStates, FailureCodes
    <2>3. worker \in [Workers -> Worker]
      BY IdleWorkerType DEF Init
    <2>4. history \in [Cards -> Seq(Entry)]
      BY DEF Init
    <2> QED
      BY <2>1, <2>2, <2>3, <2>4
      DEF Init, TypeOK, Outcomes, OperationStates, Grants
  <1>2. \A w \in Workers : worker[w].pc = "idle"
    BY DEF Init, IdleWorker
  <1>3. \A b \in Batches : row[b].status = "none"
    BY DEF Init, NewRow
  <1> QED
    BY <1>1, <1>2, <1>3 DEF LeaseInv, KnownInv, RequestsKnown, WorkersKnown, Busy,
       ClaimsDistinct, TransactionsHold, InTransaction, LocksDisjoint, ReadsStayCurrent

-----------------------------------------------------------------------------
(* Steps that start no transaction *)

\* A goroutine that ends, or moves on with its claim outside a transaction.
StepsBack(v) ==
  \/ worker'[v].pc = "idle"
  \/ /\ Busy(v)
     /\ worker'[v].batch = worker[v].batch
     /\ worker'[v].version = worker[v].version
     /\ worker'[v].pc \notin {"verified", "locked"}

\* No row disappears, no request changes and no version goes back.
RowsGrow ==
  \A b \in Batches :
     /\ row[b].status # "none" => row'[b].status # "none" /\ request'[b] = request[b]
     /\ row[b].version <= row'[b].version

\* A worker that stays in its transaction finds its rows as they were.
LocksRespected ==
  \A v \in Workers : worker'[v] = worker[v] =>
     /\ InTransaction(v) =>
          /\ row'[worker[v].batch].status = row[worker[v].batch].status
          /\ row'[worker[v].batch].version = row[worker[v].batch].version
          /\ row'[worker[v].batch].owner = row[worker[v].batch].owner
     /\ worker[v].pc = "locked" =>
          \A c \in Items(v) : card'[c] = card[c]

LEMMA QuietStep ==
  ASSUME LeaseInv, TypeOK', RequestsKnown', RowsGrow, LocksRespected,
         \A v \in Workers : worker'[v] = worker[v] \/ StepsBack(v)
  PROVE  LeaseInv'
  <1> USE DEF LeaseInv, KnownInv
  <1>1. WorkersKnown'
    <2> SUFFICES ASSUME NEW w \in Workers, Busy(w)'
                 PROVE  /\ worker'[w].batch \in Batches
                        /\ row'[worker'[w].batch].status # "none"
                        /\ worker'[w].version <= row'[worker'[w].batch].version
      BY DEF WorkersKnown
    <2>1. Busy(w) /\ worker'[w].batch = worker[w].batch /\ worker'[w].version = worker[w].version
      BY DEF Busy, StepsBack
    <2>2. /\ worker[w].batch \in Batches
          /\ row[worker[w].batch].status # "none"
          /\ worker[w].version <= row[worker[w].batch].version
      BY <2>1 DEF WorkersKnown
    <2>3. /\ worker[w].version \in Nat
          /\ row[worker[w].batch].version \in Nat
          /\ row'[worker[w].batch].version \in Nat
      BY <2>2 DEF TypeOK, Worker, Row
    <2> QED
      BY <2>1, <2>2, <2>3 DEF RowsGrow
  <1>2. ClaimsDistinct'
    BY DEF ClaimsDistinct, Busy, StepsBack
  <1>3. \A w \in Workers : InTransaction(w)' => worker'[w] = worker[w] /\ InTransaction(w)
    BY DEF InTransaction, StepsBack
  <1>4. \A w \in Workers : worker'[w].pc = "locked" =>
           worker'[w] = worker[w] /\ worker[w].pc = "locked" /\ Items(w)' = Items(w)
    <2> SUFFICES ASSUME NEW w \in Workers, worker'[w].pc = "locked"
                 PROVE  worker'[w] = worker[w] /\ Items(w)' = Items(w)
      OBVIOUS
    <2>1. worker'[w] = worker[w] /\ Busy(w)
      BY DEF StepsBack, Busy
    <2>2. worker[w].batch \in Batches /\ row[worker[w].batch].status # "none"
      BY <2>1 DEF WorkersKnown
    <2> QED
      BY <2>1, <2>2 DEF RowsGrow, Items
  <1>5. TransactionsHold'
    BY <1>3 DEF TransactionsHold, LocksRespected
  <1>6. LocksDisjoint'
    BY <1>4 DEF LocksDisjoint
  <1>7. ReadsStayCurrent'
    BY <1>4 DEF ReadsStayCurrent, LocksRespected
  <1> QED
    BY <1>1, <1>2, <1>5, <1>6, <1>7

LEMMA AcceptStep ==
  ASSUME LeaseInv, NEW b \in Batches, NEW req \in Request, Accept(b, req)
  PROVE  LeaseInv'
  <1> USE DEF LeaseInv, KnownInv
  <1> DEFINE r == [row[b] EXCEPT !.status = "draft"]
  <1>1. row[b] \in Row /\ r \in Row /\ r.status = "draft" /\ r.version = row[b].version
    <2>1. row[b] \in Row
      BY DEF TypeOK
    <2> QED
      BY ZenonT(40), <2>1, EditedRow DEF BatchStates
  <1>2. row' = [row EXCEPT ![b] = r] /\ row[b].status = "none"
    BY DEF Accept, ItemsOf
  <1> HIDE DEF r
  <1>3. /\ row' \in [Batches -> Row]
        /\ row'[b] = r /\ \A d \in Batches \ {b} : row'[d] = row[d]
    BY <1>1, <1>2 DEF TypeOK
  <1>4. /\ request' \in [Batches -> Request \cup {None}]
        /\ request'[b] = req /\ \A d \in Batches \ {b} : request'[d] = request[d]
    BY DEF Accept, ItemsOf, TypeOK
  <1>5. TypeOK'
    <2>1. outcome' \in [Batches -> [Cards -> Outcomes]]
      BY DEF Accept, ItemsOf, TypeOK, Outcomes
    <2>2. operation' \in [Batches -> [Cards -> OperationStates]]
      BY DEF Accept, ItemsOf, TypeOK, OperationStates
    <2> QED
      BY <1>3, <1>4, <2>1, <2>2 DEF Accept, ItemsOf, TypeOK, controlVars
  <1>6. RequestsKnown'
    BY <1>1, <1>3, <1>4 DEF RequestsKnown
  <1>7. RowsGrow
    BY <1>1, <1>2, <1>3, <1>4 DEF RowsGrow, TypeOK, Row
  <1>8. LocksRespected
    <2> SUFFICES ASSUME NEW v \in Workers, InTransaction(v)
                 PROVE  row'[worker[v].batch] = row[worker[v].batch]
      BY DEF LocksRespected, Accept, ItemsOf, InTransaction
    <2>1. worker[v].batch \in Batches /\ row[worker[v].batch].status # "none"
      BY DEF WorkersKnown, Busy, InTransaction
    <2> QED
      BY <2>1, <1>2, <1>3
  <1>9. \A v \in Workers : worker'[v] = worker[v]
    BY DEF Accept, ItemsOf
  <1> QED
    BY SMTT(30), <1>5, <1>6, <1>7, <1>8, <1>9, QuietStep

\* Steps that change only the row of one batch nobody has locked.
LEMMA RowStep ==
  ASSUME LeaseInv, NEW b \in Batches, NEW r \in Row,
         row[b].status # "none", r.status # "none", row[b].version <= r.version,
         \/ ~BatchLocked(b)
         \/ r.status = row[b].status /\ r.version = row[b].version /\ r.owner = row[b].owner,
         row' = [row EXCEPT ![b] = r],
         UNCHANGED <<card, history, request, outcome, operation, controlVars,
                     cycle, worker, authSince>>,
         faults' \in Nat
  PROVE  LeaseInv'
  <1> USE DEF LeaseInv, KnownInv
  <1>1. row' \in [Batches -> Row] /\ row'[b] = r /\ \A d \in Batches \ {b} : row'[d] = row[d]
    BY DEF TypeOK
  <1>2. TypeOK'
    BY <1>1 DEF TypeOK, controlVars
  <1>3. RequestsKnown'
    BY <1>1 DEF RequestsKnown
  <1>4. RowsGrow
    BY <1>1 DEF RowsGrow, TypeOK, Row
  <1>5. LocksRespected
    <2> SUFFICES ASSUME NEW v \in Workers, InTransaction(v)
                 PROVE  /\ row'[worker[v].batch].status = row[worker[v].batch].status
                        /\ row'[worker[v].batch].version = row[worker[v].batch].version
                        /\ row'[worker[v].batch].owner = row[worker[v].batch].owner
      BY DEF LocksRespected
    <2>1. worker[v].batch \in Batches
      BY DEF WorkersKnown, Busy, InTransaction
    <2> QED
      BY <1>1, <2>1 DEF BatchLocked
  <1> QED
    BY <1>2, <1>3, <1>4, <1>5, QuietStep

LEMMA ExecuteStep ==
  ASSUME LeaseInv, NEW b \in Batches, ExecuteCardStatusBatch(b)
  PROVE  LeaseInv'
  <1> DEFINE r == [row[b] EXCEPT !.status = "queued", !.due = TRUE]
  <1>1. row[b] \in Row
    BY DEF LeaseInv, KnownInv, TypeOK
  <1>2. r \in Row /\ r.status = "queued" /\ r.version = row[b].version
    BY ZenonT(40), <1>1, EditedRow DEF BatchStates
  <1>3. row[b].version \in Nat
    BY <1>1 DEF Row
  <1>4. row' = [row EXCEPT ![b] = r] /\ row[b].status = "draft"
    BY DEF ExecuteCardStatusBatch, Dispatched
  <1>5. ~BatchLocked(b)
    BY <1>4 DEF LeaseInv, TransactionsHold, BatchLocked
  <1>6. faults' \in Nat
    BY DEF ExecuteCardStatusBatch, Dispatched, LeaseInv, KnownInv, TypeOK
  <1>7. UNCHANGED <<card, history, request, outcome, operation, controlVars,
                    cycle, worker, authSince>>
    BY DEF ExecuteCardStatusBatch, Dispatched
  <1>8. row[b].version <= r.version
    BY <1>2, <1>3
  <1> HIDE DEF r
  <1> QED
    BY <1>2, <1>4, <1>5, <1>6, <1>7, <1>8, RowStep

LEMMA CancelStep ==
  ASSUME LeaseInv, NEW b \in Batches, CancelCardStatusBatch(b)
  PROVE  LeaseInv'
  <1> DEFINE r == [row[b] EXCEPT !.status = "cancelled"]
  <1>1. row[b] \in Row
    BY DEF LeaseInv, KnownInv, TypeOK
  <1>2. r \in Row /\ r.status = "cancelled" /\ r.version = row[b].version
    BY <1>1, EditedRow DEF BatchStates
  <1>3. row[b].version \in Nat
    BY <1>1 DEF Row
  <1>4. row' = [row EXCEPT ![b] = r] /\ row[b].status \in {"draft", "queued"}
    BY DEF CancelCardStatusBatch
  <1>5. ~BatchLocked(b)
    BY <1>4 DEF LeaseInv, TransactionsHold, BatchLocked
  <1>6. faults' \in Nat
    BY DEF CancelCardStatusBatch, LeaseInv, KnownInv, TypeOK
  <1>7. UNCHANGED <<card, history, request, outcome, operation, controlVars,
                    cycle, worker, authSince>>
    BY DEF CancelCardStatusBatch
  <1>8. row[b].version <= r.version
    BY <1>2, <1>3
  <1> HIDE DEF r
  <1> QED
    BY <1>2, <1>4, <1>5, <1>6, <1>7, <1>8, RowStep

LEMMA TimeStep ==
  ASSUME LeaseInv, NEW b \in Batches, LeaseExpires(b) \/ BackoffElapses(b)
  PROVE  LeaseInv'
  <1>1. row[b] \in Row
    BY DEF LeaseInv, KnownInv, TypeOK
  <1>2. PICK r \in Row : /\ row' = [row EXCEPT ![b] = r]
                         /\ r.status = row[b].status
                         /\ r.version = row[b].version
                         /\ r.owner = row[b].owner
    <2>1. CASE LeaseExpires(b)
      <3> DEFINE r == [row[b] EXCEPT !.current = FALSE]
      <3>1. r \in Row /\ r.status = row[b].status /\ r.version = row[b].version
              /\ r.owner = row[b].owner
        BY <1>1, EditedRow DEF BatchStates
      <3>2. row' = [row EXCEPT ![b] = r]
        BY <2>1 DEF LeaseExpires
      <3> HIDE DEF r
      <3> QED
        BY <3>1, <3>2
    <2>2. CASE BackoffElapses(b)
      <3> DEFINE r == [row[b] EXCEPT !.due = TRUE]
      <3>1. r \in Row /\ r.status = row[b].status /\ r.version = row[b].version
              /\ r.owner = row[b].owner
        BY <1>1, EditedRow DEF BatchStates
      <3>2. row' = [row EXCEPT ![b] = r]
        BY <2>2 DEF BackoffElapses
      <3> HIDE DEF r
      <3> QED
        BY <3>1, <3>2
    <2> QED
      BY <2>1, <2>2
  <1>3. row[b].version \in Nat
    BY <1>1 DEF Row
  <1>4. row[b].status # "none"
    BY DEF LeaseExpires, BackoffElapses
  <1>5. faults' \in Nat
    BY DEF LeaseExpires, BackoffElapses, LeaseInv, KnownInv, TypeOK
  <1>6. UNCHANGED <<card, history, request, outcome, operation, controlVars,
                    cycle, worker, authSince>>
    BY DEF LeaseExpires, BackoffElapses
  <1>7. row[b].version <= r.version
    BY <1>2, <1>3
  <1> QED
    BY <1>2, <1>4, <1>5, <1>6, <1>7, RowStep

LEMMA RecoverStep ==
  ASSUME LeaseInv, NEW e \in Executors, RecoverBatches(e)
  PROVE  LeaseInv'
  <1> USE DEF LeaseInv, KnownInv
  <1>1. \A b \in Batches : row[b] \in Row
    BY DEF TypeOK
  <1>2. \A b \in Batches : /\ Recoverable(b) => row'[b] = RecoveredRow(row[b])
                           /\ ~Recoverable(b) => row'[b] = row[b]
    BY DEF RecoverBatches
  <1>3. \A b \in Batches : /\ RecoveredRow(row[b]) \in Row
                           /\ RecoveredRow(row[b]).status = "queued"
                           /\ RecoveredRow(row[b]).version = row[b].version + 1
    BY <1>1, RecoveredRowType
  <1>4. row' \in [Batches -> Row]
    BY <1>1, <1>3 DEF RecoverBatches
  <1>5. TypeOK'
    BY <1>4 DEF RecoverBatches, TypeOK, controlVars
  <1>6. \A b \in Batches : row[b].status # "none" => row'[b].status # "none"
    BY <1>2, <1>3
  <1>7. \A b \in Batches : row'[b].status # "none" => row[b].status # "none"
    BY <1>2 DEF Recoverable
  <1>8. RequestsKnown'
    BY <1>7 DEF RequestsKnown, RecoverBatches
  <1>9. RowsGrow
    <2> SUFFICES ASSUME NEW b \in Batches PROVE row[b].version <= row'[b].version
      BY <1>6 DEF RowsGrow, RecoverBatches
    <2>1. row[b].version \in Nat
      BY <1>1 DEF Row
    <2> QED
      BY <2>1, <1>2, <1>3
  <1>10. LocksRespected
    <2> SUFFICES ASSUME NEW v \in Workers, InTransaction(v)
                 PROVE  row'[worker[v].batch] = row[worker[v].batch]
      BY DEF LocksRespected, RecoverBatches, InTransaction
    <2>1. worker[v].batch \in Batches
      BY DEF WorkersKnown, Busy, InTransaction
    <2>2. ~Recoverable(worker[v].batch)
      BY DEF Recoverable, BatchLocked
    <2> QED
      BY <1>2, <2>1, <2>2
  <1>11. \A v \in Workers : worker'[v] = worker[v]
    BY DEF RecoverBatches
  <1> QED
    BY <1>5, <1>8, <1>9, <1>10, <1>11, QuietStep

\* Steps that leave the shard's rows and the goroutines alone.
LEMMA ElsewhereStep ==
  ASSUME LeaseInv, TypeOK', UNCHANGED <<dbVars, worker>>
  PROVE  LeaseInv'
  <1> USE DEF LeaseInv, KnownInv, dbVars
  <1>1. RowsGrow
    BY DEF RowsGrow, TypeOK, Row
  <1>2. LocksRespected
    BY DEF LocksRespected
  <1>3. RequestsKnown'
    BY DEF RequestsKnown
  <1> QED
    BY <1>1, <1>2, <1>3, QuietStep

LEMMA WitnessedType ==
  ASSUME TypeOK, NEW us, NEW active
  PROVE  Witnessed(us, active) \in [Batches -> SUBSET Grants]
  BY DEF TypeOK, Witnessed, GrantsNow

LEMMA ControlStep ==
  ASSUME LeaseInv, ControlNext
  PROVE  LeaseInv'
  <1> USE DEF LeaseInv, KnownInv
  <1>1. authSince' \in [Batches -> SUBSET Grants]
    BY WitnessedType DEF ControlNext, UpdateUser, SetBankRouteStatus
  <1>2. users' \in [Users -> UserRows] /\ routeActive' \in BOOLEAN
    BY DEF ControlNext, UpdateUser, SetBankRouteStatus, TypeOK
  <1>3. UNCHANGED <<dbVars, cycle, worker, faults>>
    BY DEF ControlNext, UpdateUser, SetBankRouteStatus
  <1>4. TypeOK'
    BY <1>1, <1>2, <1>3 DEF TypeOK, dbVars
  <1> QED
    BY <1>3, <1>4, ElsewhereStep

LEMMA PollStep ==
  ASSUME LeaseInv, NEW e \in Executors, ListBanks(e) \/ SkipBank(e)
  PROVE  LeaseInv'
  <1> USE DEF LeaseInv, KnownInv
  <1>1. cycle' \in [Executors -> {"waiting", "listed", "recovered"}]
    BY DEF ListBanks, SkipBank, TypeOK
  <1>2. UNCHANGED <<dbVars, controlVars, worker, authSince, faults>>
    BY DEF ListBanks, SkipBank
  <1>3. TypeOK'
    BY <1>1, <1>2 DEF TypeOK, dbVars, controlVars
  <1> QED
    BY <1>2, <1>3, ElsewhereStep

LEMMA CommandStep ==
  ASSUME LeaseInv, NEW c \in Cards, NEW action \in Commands, CardCommand(c, action)
  PROVE  LeaseInv'
  <1> USE DEF LeaseInv, KnownInv
  <1> DEFINE target == Transition(card[c], action).target
             closed == IF ClosesPredecessor(c, action) THEN {Predecessor[c]} ELSE {}
             moved == {c} \cup closed
             new(d) == IF d = c THEN target ELSE "closed"
             entry(d) == [previous |-> card[d], new |-> new(d), source |-> None]
  <1>1. /\ \A d \in moved : ~CardLocked(d)
        /\ card' = [d \in Cards |-> IF d \in moved THEN new(d) ELSE card[d]]
        /\ history' = [d \in Cards |-> IF d \in moved THEN Append(history[d], entry(d))
                                                       ELSE history[d]]
        /\ UNCHANGED <<request, row, outcome, operation, controlVars, cycle, worker,
                       authSince, faults>>
    BY DEF CardCommand
  <1>2. \A d \in Cards : new(d) \in CardStates /\ card[d] \in CardStates
    <2>1. target \in CardStates
      BY TransitionType, ConstantsAssumption DEF TypeOK
    <2> QED
      BY <2>1 DEF TypeOK, CardStates
  <1>3. \A d \in Cards : entry(d) \in Entry
    BY <1>2 DEF Entry
  <1> HIDE DEF moved, new, entry
  <1>4. card' \in [Cards -> CardStates]
    BY <1>1, <1>2
  <1>5. history' \in [Cards -> Seq(Entry)]
    <2>1. \A d \in Cards : history[d] \in Seq(Entry)
      BY DEF TypeOK
    <2>2. \A d \in Cards : Append(history[d], entry(d)) \in Seq(Entry)
      BY <2>1, <1>3
    <2> QED
      BY <1>1, <2>1, <2>2
  <1>6. TypeOK'
    BY <1>1, <1>4, <1>5 DEF TypeOK, controlVars
  <1>7. RequestsKnown'
    BY <1>1 DEF RequestsKnown
  <1>8. RowsGrow
    BY <1>1 DEF RowsGrow, TypeOK, Row
  <1>9. LocksRespected
    <2> SUFFICES ASSUME NEW v \in Workers, worker[v].pc = "locked", NEW d \in Items(v)
                 PROVE  card'[d] = card[d]
      BY <1>1 DEF LocksRespected
    <2>1. CardLocked(d)
      BY DEF CardLocked
    <2>2. d \in Cards
      BY DEF Items, RequestsKnown, WorkersKnown, Busy, Request
    <2> QED
      BY <1>1, <2>1, <2>2
  <1> QED
    BY <1>1, <1>6, <1>7, <1>8, <1>9, QuietStep

-----------------------------------------------------------------------------
(* Goroutines *)

\* A goroutine in state x no longer is, or is not yet, in a transaction.
Outside(w, x) ==
  \/ x.pc = "idle"
  \/ /\ Busy(w)
     /\ x.batch = worker[w].batch
     /\ x.version = worker[w].version
     /\ x.pc \notin {"verified", "locked"}

MovesOutside(w) ==
  \E x \in Worker : worker' = [worker EXCEPT ![w] = x] /\ Outside(w, x)

LEMMA FinishOutside ==
  ASSUME NEW w \in Workers, Finish(w)
  PROVE  MovesOutside(w)
  <1>1. Outside(w, IdleWorker)
    BY DEF Outside, IdleWorker
  <1> QED
    BY <1>1, IdleWorkerType DEF MovesOutside, Finish

LEMMA EditedOutside ==
  ASSUME NEW w, Busy(w), worker[w] \in Worker, NEW pc \in Steps \ {"verified", "locked"},
         NEW code \in FailureCodes, NEW ok \in BOOLEAN
  PROVE  /\ [worker[w] EXCEPT !.pc = pc, !.code = code] \in Worker
         /\ [worker[w] EXCEPT !.pc = pc] \in Worker
         /\ [worker[w] EXCEPT !.pc = pc, !.userOK = ok] \in Worker
         /\ Outside(w, [worker[w] EXCEPT !.pc = pc, !.code = code])
         /\ Outside(w, [worker[w] EXCEPT !.pc = pc])
         /\ Outside(w, [worker[w] EXCEPT !.pc = pc, !.userOK = ok])
  <1> DEFINE a == [worker[w] EXCEPT !.pc = pc, !.code = code]
             b == [worker[w] EXCEPT !.pc = pc]
             d == [worker[w] EXCEPT !.pc = pc, !.userOK = ok]
  <1>0. worker[w] \in Worker /\ pc \in Steps
    OBVIOUS
  <1>1. /\ a \in Worker /\ a.pc = pc /\ a.batch = worker[w].batch /\ a.version = worker[w].version
        /\ b \in Worker /\ b.pc = pc /\ b.batch = worker[w].batch /\ b.version = worker[w].version
        /\ d \in Worker /\ d.pc = pc /\ d.batch = worker[w].batch /\ d.version = worker[w].version
    <2> DEFINE x == worker[w]
    <2>1. x \in Worker
      OBVIOUS
    <2> HIDE DEF x
    <2>2. LET p == [x EXCEPT !.pc = pc, !.code = code]
              q == [x EXCEPT !.pc = pc]
              r == [x EXCEPT !.pc = pc, !.userOK = ok]
          IN  /\ p \in Worker /\ p.pc = pc /\ p.batch = x.batch /\ p.version = x.version
              /\ q \in Worker /\ q.pc = pc /\ q.batch = x.batch /\ q.version = x.version
              /\ r \in Worker /\ r.pc = pc /\ r.batch = x.batch /\ r.version = x.version
      BY <1>0, <2>1 DEF Worker
    <2> QED
      BY <2>2 DEF x
  <1> HIDE DEF a, b, d
  <1>2. a \in Worker /\ b \in Worker /\ d \in Worker
        /\ Outside(w, a) /\ Outside(w, b) /\ Outside(w, d)
    BY <1>1 DEF Outside
  <1> QED
    BY <1>2 DEF a, b, d

LEMMA GotoOutside ==
  ASSUME TypeOK, NEW w \in Workers, Busy(w), NEW code \in FailureCodes,
         \/ GotoFail(w, code)
         \/ GotoRetry(w, code)
         \/ Goto(w, "authorized")
         \/ \E ok \in BOOLEAN : worker' = [worker EXCEPT ![w].pc = "routing", ![w].userOK = ok]
  PROVE  MovesOutside(w)
  <1>1. worker[w] \in Worker
    BY DEF TypeOK
  <1>2. \A pc \in Steps \ {"verified", "locked"}, ok \in BOOLEAN :
          /\ [worker[w] EXCEPT !.pc = pc, !.code = code] \in Worker
          /\ [worker[w] EXCEPT !.pc = pc] \in Worker
          /\ [worker[w] EXCEPT !.pc = pc, !.userOK = ok] \in Worker
          /\ Outside(w, [worker[w] EXCEPT !.pc = pc, !.code = code])
          /\ Outside(w, [worker[w] EXCEPT !.pc = pc])
          /\ Outside(w, [worker[w] EXCEPT !.pc = pc, !.userOK = ok])
    BY <1>1, EditedOutside
  <1>3. CASE GotoFail(w, code)
    <2>1. worker' = [worker EXCEPT ![w] = [worker[w] EXCEPT !.pc = "fail", !.code = code]]
      BY <1>3 DEF GotoFail
    <2> QED
      BY <1>2, <2>1 DEF MovesOutside, Steps
  <1>4. CASE GotoRetry(w, code)
    <2>1. worker' = [worker EXCEPT ![w] = [worker[w] EXCEPT !.pc = "retry", !.code = code]]
      BY <1>4 DEF GotoRetry
    <2> QED
      BY <1>2, <2>1 DEF MovesOutside, Steps
  <1>5. CASE Goto(w, "authorized")
    <2>1. worker' = [worker EXCEPT ![w] = [worker[w] EXCEPT !.pc = "authorized"]]
      BY <1>5 DEF Goto
    <2> QED
      BY <1>2, <2>1 DEF MovesOutside, Steps
  <1>6. CASE \E ok \in BOOLEAN : worker' = [worker EXCEPT ![w].pc = "routing", ![w].userOK = ok]
    <2>1. PICK ok \in BOOLEAN :
            worker' = [worker EXCEPT ![w] = [worker[w] EXCEPT !.pc = "routing", !.userOK = ok]]
      BY <1>6
    <2> QED
      BY <1>2, <2>1 DEF MovesOutside, Steps
  <1> QED
    BY <1>3, <1>4, <1>5, <1>6

LEMMA OutsideStep ==
  ASSUME LeaseInv, NEW w \in Workers, MovesOutside(w)
  PROVE  /\ worker' \in [Workers -> Worker]
         /\ \A v \in Workers : worker'[v] = worker[v] \/ StepsBack(v)
         /\ \A v \in Workers \ {w} : worker'[v] = worker[v]
  <1>1. PICK x \in Worker : worker' = [worker EXCEPT ![w] = x] /\ Outside(w, x)
    BY DEF MovesOutside
  <1>2. worker \in [Workers -> Worker]
    BY DEF LeaseInv, KnownInv, TypeOK
  <1> QED
    BY <1>1, <1>2 DEF Outside, StepsBack

\* A goroutine moves outside any transaction and writes nothing.
LEMMA ReadingStep ==
  ASSUME LeaseInv, NEW w \in Workers, MovesOutside(w), faults' \in Nat,
         UNCHANGED <<dbVars, controlVars, cycle, authSince>>
  PROVE  LeaseInv'
  <1> USE DEF LeaseInv, KnownInv
  <1>1. TypeOK'
    BY OutsideStep DEF TypeOK, dbVars, controlVars
  <1>2. RowsGrow
    BY DEF RowsGrow, TypeOK, Row, dbVars
  <1>3. LocksRespected
    BY DEF LocksRespected, dbVars
  <1>4. RequestsKnown'
    BY DEF RequestsKnown, dbVars
  <1> QED
    BY <1>1, <1>2, <1>3, <1>4, OutsideStep, QuietStep

LEMMA LookupStep ==
  ASSUME LeaseInv, NEW w \in Workers,
         LookupUser(w) \/ LookupRoutes(w) \/ ControlUnavailable(w)
  PROVE  LeaseInv'
  <1> USE DEF LeaseInv, KnownInv
  <1>1. Busy(w)
    BY DEF Busy, LookupUser, LookupRoutes, ControlUnavailable
  <1>2. MovesOutside(w)
    <2>1. \A code \in FailureCodes : GotoFail(w, code) \/ GotoRetry(w, code) => MovesOutside(w)
      BY <1>1, GotoOutside
    <2>2. Goto(w, "authorized") => MovesOutside(w)
      BY <1>1, GotoOutside DEF FailureCodes
    <2>3. ASSUME NEW u, worker' = [worker EXCEPT ![w].pc = "routing", ![w].userOK = Eligible(u)]
          PROVE  MovesOutside(w)
      <3>1. Eligible(u) \in BOOLEAN
        BY DEF Eligible
      <3> QED
        BY <1>1, <2>3, <3>1, GotoOutside DEF FailureCodes
    <2>4. CASE LookupUser(w)
      BY <2>1, <2>3, <2>4 DEF LookupUser, FailureCodes
    <2>5. CASE LookupRoutes(w)
      BY <2>1, <2>2, <2>5 DEF LookupRoutes, FailureCodes
    <2>6. CASE ControlUnavailable(w)
      BY <2>1, <2>6 DEF ControlUnavailable, FailureCodes
    <2> QED
      BY <2>4, <2>5, <2>6
  <1>3. faults' \in Nat
    BY DEF LookupUser, LookupRoutes, ControlUnavailable, TypeOK
  <1>4. UNCHANGED <<dbVars, controlVars, cycle, authSince>>
    BY DEF LookupUser, LookupRoutes, ControlUnavailable
  <1> QED
    BY <1>2, <1>3, <1>4, ReadingStep

LEMMA ErrorOutside ==
  ASSUME TypeOK, NEW w \in Workers, Busy(w), AfterError(w)
  PROVE  MovesOutside(w)
  BY GotoOutside DEF AfterError, FailureCodes

LEMMA ApplyErrorStep ==
  ASSUME LeaseInv, NEW w \in Workers, ApplyError(w) \/ ReportLost(w)
  PROVE  LeaseInv'
  <1> USE DEF LeaseInv, KnownInv
  <1>1. Busy(w)
    BY DEF Busy, ApplyError, ReportLost
  <1>2. MovesOutside(w)
    BY <1>1, ErrorOutside, FinishOutside DEF ApplyError, ReportLost
  <1>3. faults' \in Nat
    BY DEF ApplyError, ReportLost, TypeOK
  <1>4. UNCHANGED <<dbVars, controlVars, cycle, authSince>>
    BY DEF ApplyError, ReportLost
  <1> QED
    BY <1>2, <1>3, <1>4, ReadingStep

LEMMA ExitStep ==
  ASSUME LeaseInv, NEW e \in Executors, ExecutorExits(e)
  PROVE  LeaseInv'
  <1> USE DEF LeaseInv, KnownInv
  <1>1. worker' \in [Workers -> Worker]
    BY IdleWorkerType DEF ExecutorExits, TypeOK
  <1>2. TypeOK'
    BY <1>1 DEF ExecutorExits, TypeOK, dbVars, controlVars
  <1>3. \A v \in Workers : worker'[v] = worker[v] \/ StepsBack(v)
    BY DEF ExecutorExits, StepsBack, IdleWorker
  <1>4. RowsGrow
    BY DEF RowsGrow, TypeOK, Row, dbVars, ExecutorExits
  <1>5. LocksRespected
    BY DEF LocksRespected, dbVars, ExecutorExits
  <1>6. RequestsKnown'
    BY DEF RequestsKnown, dbVars, ExecutorExits
  <1> QED
    BY <1>2, <1>3, <1>4, <1>5, <1>6, QuietStep

\* A goroutine leaves and settles, or requeues, a batch that no other
\* goroutine has locked, moving only cards that no other one has locked.
LEMMA LeavingStep ==
  ASSUME LeaseInv, NEW w \in Workers, MovesOutside(w), faults' \in Nat, Busy(w),
         card' \in [Cards -> CardStates], history' \in [Cards -> Seq(Entry)],
         outcome' \in [Batches -> [Cards -> Outcomes]],
         operation' \in [Batches -> [Cards -> OperationStates]],
         NEW r \in Row, r.status # "none", r.version = row[worker[w].batch].version,
         row' = [row EXCEPT ![worker[w].batch] = r],
         UNCHANGED <<request, controlVars, cycle, authSince>>,
         \A v \in Workers \ {w} :
            /\ InTransaction(v) => worker[v].batch # worker[w].batch
            /\ worker[v].pc = "locked" => \A c \in Items(v) : card'[c] = card[c]
  PROVE  LeaseInv'
  <1> USE DEF LeaseInv, KnownInv
  <1> DEFINE b == worker[w].batch
  <1>1. b \in Batches /\ row[b].status # "none"
    BY DEF WorkersKnown
  <1> HIDE DEF b
  <1>2. row' \in [Batches -> Row] /\ row'[b] = r /\ \A d \in Batches \ {b} : row'[d] = row[d]
    BY <1>1 DEF TypeOK, b
  <1>3. TypeOK'
    BY <1>2, OutsideStep DEF TypeOK, controlVars
  <1>4. RequestsKnown'
    BY <1>1, <1>2 DEF RequestsKnown
  <1>5. RowsGrow
    BY <1>1, <1>2 DEF RowsGrow, TypeOK, Row, b
  <1>6. LocksRespected
    <2> SUFFICES ASSUME NEW v \in Workers, worker'[v] = worker[v], InTransaction(v)
                 PROVE  /\ row'[worker[v].batch] = row[worker[v].batch]
                        /\ worker[v].pc = "locked" => \A c \in Items(v) : card'[c] = card[c]
      BY DEF LocksRespected, InTransaction
    <2>1. v # w
      BY DEF MovesOutside, Outside, InTransaction, TypeOK
    <2>2. worker[v].batch \in Batches
      BY SMTT(30) DEF WorkersKnown, Busy, InTransaction
    <2> QED
      BY <2>1, <2>2, <1>2 DEF b
  <1> QED
    BY <1>3, <1>4, <1>5, <1>6, OutsideStep, QuietStep

\* What a settled or requeued row looks like.
LEMMA SucceededRow ==
  ASSUME NEW r \in Row, NEW n \in Nat, NEW m \in Nat
  PROVE  LET q == [Released(r, "succeeded") EXCEPT !.applied = n, !.ignored = m]
         IN  q \in Row /\ q.status = "succeeded" /\ q.version = r.version
  <1> DEFINE x == Released(r, "succeeded")
  <1>1. x \in Row /\ x.status = "succeeded" /\ x.version = r.version
    BY ReleasedRow DEF BatchStates
  <1> HIDE DEF x
  <1>2. LET q == [x EXCEPT !.applied = n, !.ignored = m]
        IN  q \in Row /\ q.status = "succeeded" /\ q.version = r.version
    BY <1>1 DEF Row
  <1> QED
    BY <1>2 DEF x

LEMMA FailedRow ==
  ASSUME NEW r \in Row, NEW m \in Nat, NEW code \in FailureCodes
  PROVE  LET q == [Released(r, "failed") EXCEPT !.ignored = m, !.applied = 0, !.failure = code]
         IN  q \in Row /\ q.status = "failed" /\ q.version = r.version
  <1> DEFINE x == Released(r, "failed")
  <1>1. x \in Row /\ x.status = "failed" /\ x.version = r.version
    BY ReleasedRow DEF BatchStates
  <1> HIDE DEF x
  <1>2. LET q == [x EXCEPT !.ignored = m, !.applied = 0, !.failure = code]
        IN  q \in Row /\ q.status = "failed" /\ q.version = r.version
    BY <1>1 DEF Row
  <1> QED
    BY <1>2 DEF x

LEMMA RequeuedRow ==
  ASSUME NEW r \in Row, NEW code \in FailureCodes
  PROVE  LET q == [Released(r, "queued") EXCEPT !.due = FALSE, !.failure = code]
         IN  q \in Row /\ q.status = "queued" /\ q.version = r.version
  <1> DEFINE x == Released(r, "queued")
  <1>1. x \in Row /\ x.status = "queued" /\ x.version = r.version
    BY ReleasedRow DEF BatchStates
  <1> HIDE DEF x
  <1>2. LET q == [x EXCEPT !.due = FALSE, !.failure = code]
        IN  q \in Row /\ q.status = "queued" /\ q.version = r.version
    BY <1>1 DEF Row
  <1> QED
    BY <1>2 DEF x

\* A goroutine's batch is a real one, whose items are cards.
LEMMA WorkerItems ==
  ASSUME LeaseInv, NEW w \in Workers, Busy(w)
  PROVE  /\ worker[w].batch \in Batches
         /\ row[worker[w].batch] \in Row
         /\ Items(w) \subseteq Cards
         /\ Target(w) \in BatchTargets
         /\ \A s \in SUBSET Items(w) : Cardinality(s) \in Nat
  <1> USE DEF LeaseInv, KnownInv
  <1>1. worker[w].batch \in Batches /\ request[worker[w].batch] \in Request
    BY DEF WorkersKnown, RequestsKnown
  <1>2. Items(w) \subseteq Cards /\ Target(w) \in BatchTargets
    BY <1>1 DEF Items, Target, Request
  <1>3. \A s \in SUBSET Items(w) : Cardinality(s) \in Nat
    <2> SUFFICES ASSUME NEW s \in SUBSET Items(w) PROVE Cardinality(s) \in Nat
      OBVIOUS
    <2>1. IsFiniteSet(s)
      BY <1>2, FS_Subset, ConstantsAssumption
    <2> QED
      BY <2>1, FS_CardinalityType
  <1> QED
    BY <1>1, <1>2, <1>3 DEF TypeOK

LEMMA FailBatchStep ==
  ASSUME LeaseInv, NEW w \in Workers, Busy(w), NEW code \in FailureCodes,
         FailBatch(w, code) \/ RequeueBatch(w), Finish(w),
         UNCHANGED <<card, history, request, controlVars, cycle, authSince, faults>>
  PROVE  LeaseInv'
  <1> USE DEF LeaseInv, KnownInv
  <1>1. MovesOutside(w)
    BY FinishOutside
  <1>2. faults' \in Nat
    BY DEF TypeOK
  <1>3. CASE UNCHANGED <<outcome, operation, row>>
    BY <1>1, <1>2, <1>3, ReadingStep DEF dbVars
  <1>4. ASSUME ~BatchLocked(worker[w].batch), FailEffects(w, code) \/ RequeueEffects(w)
        PROVE  LeaseInv'
    <2> DEFINE b == worker[w].batch
               ignored == {c \in Items(w) : card[c] = Target(w)}
               failed == [Released(row[b], "failed") EXCEPT
                             !.ignored = Cardinality(ignored), !.applied = 0, !.failure = code]
               requeued == [Released(row[b], "queued") EXCEPT
                             !.due = FALSE, !.failure = worker[w].code]
    <2>1. b \in Batches /\ row[b] \in Row /\ Cardinality(ignored) \in Nat
      BY WorkerItems
    <2>2. worker[w].code \in FailureCodes
      BY DEF TypeOK, Worker
    <2>3. failed \in Row /\ failed.status # "none" /\ failed.version = row[b].version
      <3> DEFINE n == Cardinality(ignored)
                 r == row[b]
      <3>1. n \in Nat /\ r \in Row /\ code \in FailureCodes
        BY <2>1
      <3> HIDE DEF n, r
      <3>2. LET q == [Released(r, "failed") EXCEPT !.ignored = n, !.applied = 0, !.failure = code]
            IN  q \in Row /\ q.status # "none" /\ q.version = r.version
        BY <3>1, FailedRow
      <3> QED
        BY <3>2 DEF n, r
    <2>4. requeued \in Row /\ requeued.status # "none" /\ requeued.version = row[b].version
      <3> DEFINE d == worker[w].code
                 r == row[b]
      <3>1. d \in FailureCodes /\ r \in Row
        BY <2>1, <2>2
      <3> HIDE DEF d, r
      <3>2. LET q == [Released(r, "queued") EXCEPT !.due = FALSE, !.failure = d]
            IN  q \in Row /\ q.status # "none" /\ q.version = r.version
        BY <3>1, RequeuedRow
      <3> QED
        BY <3>2 DEF d, r
    <2>5. /\ outcome' \in [Batches -> [Cards -> Outcomes]]
          /\ operation' \in [Batches -> [Cards -> OperationStates]]
      <3>1. CASE FailEffects(w, code)
        <4>1. outcome' \in [Batches -> [Cards -> Outcomes]]
          BY <2>1, <3>1 DEF FailEffects, TypeOK, Outcomes
        <4>2. operation' \in [Batches -> [Cards -> OperationStates]]
          BY <2>1, <3>1 DEF FailEffects, TypeOK, OperationStates
        <4> QED
          BY <4>1, <4>2
      <3>2. CASE RequeueEffects(w)
        BY <3>2 DEF RequeueEffects, TypeOK
      <3> QED
        BY <1>4, <3>1, <3>2
    <2>6. row' = [row EXCEPT ![b] = failed] \/ row' = [row EXCEPT ![b] = requeued]
      BY <1>4 DEF FailEffects, RequeueEffects
    <2>7. PICK r \in Row : /\ r.status # "none" /\ r.version = row[b].version
                           /\ row' = [row EXCEPT ![b] = r]
      <3> HIDE DEF failed, requeued
      <3> QED
        BY <2>3, <2>4, <2>6
    <2>8. \A v \in Workers \ {w} : InTransaction(v) => worker[v].batch # b
      BY <1>4 DEF BatchLocked
    <2>9. card' \in [Cards -> CardStates] /\ history' \in [Cards -> Seq(Entry)]
      BY DEF TypeOK
    <2>10. \A v \in Workers \ {w} : worker[v].pc = "locked" =>
              \A c \in Items(v) : card'[c] = card[c]
      OBVIOUS
    <2>11. UNCHANGED <<request, controlVars, cycle, authSince>>
      OBVIOUS
    <2> HIDE DEF LeaseInv, KnownInv
    <2> QED
      BY <1>1, <1>2, <2>5, <2>7, <2>8, <2>9, <2>10, <2>11, LeavingStep
  <1> QED
    BY <1>3, <1>4 DEF FailBatch, RequeueBatch, Fenced

LEMMA ReportStep ==
  ASSUME LeaseInv, NEW w \in Workers, ReportFailure(w) \/ RetryBatch(w)
  PROVE  LeaseInv'
  <1>1. Busy(w)
    BY DEF Busy, ReportFailure, RetryBatch
  <1>2. worker[w].code \in FailureCodes /\ "retry_exhausted" \in FailureCodes
    BY DEF LeaseInv, KnownInv, TypeOK, Worker, FailureCodes
  <1> QED
    BY <1>1, <1>2, FailBatchStep DEF ReportFailure, RetryBatch

LEMMA LeaseInvFences == LeaseInv => FencedTransactions
  BY DEF LeaseInv, TransactionsHold, ClaimsDistinct, FencedTransactions, Busy, InTransaction

-----------------------------------------------------------------------------
(* The transaction of ApplyBatch *)

LEMMA CommitStep ==
  ASSUME LeaseInv, NEW w \in Workers, worker[w].pc = "locked", ApplyEffects(w),
         MovesOutside(w), faults' \in Nat, UNCHANGED <<controlVars, cycle, authSince>>
  PROVE  LeaseInv'
  <1> DEFINE b == worker[w].batch
  <1>1. Busy(w) /\ InTransaction(w)
    BY DEF Busy, InTransaction
  <1>2. /\ b \in Batches /\ row[b] \in Row /\ Items(w) \subseteq Cards
        /\ Target(w) \in CardStates
        /\ Cardinality(Applied(w)) \in Nat /\ Cardinality(Ignored(w)) \in Nat
    BY <1>1, WorkerItems DEF Applied, Ignored, BatchTargets, CardStates
  <1>3. card' \in [Cards -> CardStates]
    BY <1>2 DEF ApplyEffects, LeaseInv, KnownInv, TypeOK
  <1>4. history' \in [Cards -> Seq(Entry)]
    <2> DEFINE entry(c) == [previous |-> worker[w].read[c], new |-> Target(w), source |-> b]
    <2>1. \A c \in Cards : entry(c) \in Entry
      BY <1>2 DEF LeaseInv, KnownInv, TypeOK, Worker, Entry
    <2>2. \A c \in Cards : history[c] \in Seq(Entry)
      BY DEF LeaseInv, KnownInv, TypeOK
    <2>3. history' = [c \in Cards |-> IF c \in Applied(w) THEN Append(history[c], entry(c))
                                                            ELSE history[c]]
      BY DEF ApplyEffects
    <2> HIDE DEF entry
    <2>4. \A c \in Cards : Append(history[c], entry(c)) \in Seq(Entry)
      BY <2>1, <2>2
    <2> QED
      BY <2>2, <2>3, <2>4
  <1>5. outcome' \in [Batches -> [Cards -> Outcomes]]
    BY <1>2 DEF ApplyEffects, LeaseInv, KnownInv, TypeOK, Outcomes
  <1>6. operation' \in [Batches -> [Cards -> OperationStates]]
    BY <1>2 DEF ApplyEffects, LeaseInv, KnownInv, TypeOK, OperationStates
  <1>7. PICK r \in Row : /\ r.status # "none" /\ r.version = row[b].version
                         /\ row' = [row EXCEPT ![b] = r]
    <2> DEFINE n == Cardinality(Applied(w))
               m == Cardinality(Ignored(w))
               q == row[b]
               s == [Released(q, "succeeded") EXCEPT !.applied = n, !.ignored = m]
    <2>1. n \in Nat /\ m \in Nat /\ q \in Row
      BY <1>2
    <2>2. row' = [row EXCEPT ![b] = s]
      BY DEF ApplyEffects
    <2> HIDE DEF n, m, q
    <2>3. s \in Row /\ s.status = "succeeded" /\ s.version = q.version
      BY <2>1, SucceededRow
    <2> HIDE DEF s
    <2> QED
      BY <2>2, <2>3 DEF q
  <1>8. \A v \in Workers \ {w} : InTransaction(v) => worker[v].batch # b
    BY <1>1, LeaseInvFences DEF FencedTransactions
  <1>9. \A v \in Workers \ {w} : worker[v].pc = "locked" =>
           \A c \in Items(v) : card'[c] = card[c]
    <2> SUFFICES ASSUME NEW v \in Workers \ {w}, worker[v].pc = "locked", NEW c \in Items(v)
                 PROVE  card'[c] = card[c]
      OBVIOUS
    <2>1. c \in Cards
      BY WorkerItems DEF Busy
    <2>2. c \notin Items(w)
      BY DEF LeaseInv, LocksDisjoint
    <2> QED
      BY <2>1, <2>2 DEF ApplyEffects, Applied
  <1>10. UNCHANGED <<request, controlVars, cycle, authSince>>
    BY DEF ApplyEffects
  <1> QED
    BY <1>1, <1>3, <1>4, <1>5, <1>6, <1>7, <1>8, <1>9, <1>10, LeavingStep

LEMMA ApplyCommitStep ==
  ASSUME LeaseInv, NEW w \in Workers, ApplyCommit(w) \/ ApplyCommitUnacknowledged(w)
  PROVE  LeaseInv'
  <1>1. worker[w].pc = "locked" /\ Busy(w)
    BY DEF ApplyCommit, ApplyCommitUnacknowledged, Busy
  <1>2. MovesOutside(w)
    BY <1>1, FinishOutside, ErrorOutside
    DEF ApplyCommit, ApplyCommitUnacknowledged, LeaseInv, KnownInv
  <1>3. faults' \in Nat
    BY DEF ApplyCommit, ApplyCommitUnacknowledged, LeaseInv, KnownInv, TypeOK
  <1>4. UNCHANGED <<controlVars, cycle, authSince>>
    BY DEF ApplyCommit, ApplyCommitUnacknowledged
  <1>5. ApplyEffects(w) \/ UNCHANGED dbVars
    BY DEF ApplyCommit, ApplyCommitUnacknowledged
  <1>6. CASE ApplyEffects(w)
    BY <1>1, <1>2, <1>3, <1>4, <1>6, CommitStep
  <1>7. CASE UNCHANGED dbVars
    BY <1>2, <1>3, <1>4, <1>7, ReadingStep
  <1> QED
    BY <1>5, <1>6, <1>7

\* A goroutine enters, or goes on inside, the transaction of its batch.
LEMMA EnterStep ==
  ASSUME LeaseInv, NEW w \in Workers, Busy(w), NEW x \in Worker,
         worker' = [worker EXCEPT ![w] = x],
         x.batch = worker[w].batch, x.version = worker[w].version,
         x.pc # "idle",
         row[worker[w].batch].status = "processing",
         row[worker[w].batch].version = worker[w].version,
         row[worker[w].batch].owner = Identity[w],
         x.pc = "locked" => \A c \in Items(w) : ~CardLocked(c) /\ x.read[c] = card[c],
         UNCHANGED <<dbVars, controlVars, cycle, authSince, faults>>
  PROVE  LeaseInv'
  <1> USE DEF LeaseInv, KnownInv
  <1>1. /\ worker' \in [Workers -> Worker] /\ worker'[w] = x
        /\ \A v \in Workers \ {w} : worker'[v] = worker[v]
    BY DEF TypeOK
  <1>2. UNCHANGED <<card, history, request, row, outcome, operation>>
    BY DEF dbVars
  <1>3. TypeOK'
    BY <1>1, <1>2 DEF TypeOK, controlVars
  <1>4. RequestsKnown'
    BY <1>2 DEF RequestsKnown
  <1>5. WorkersKnown'
    BY <1>1, <1>2 DEF WorkersKnown, Busy
  <1>6. ClaimsDistinct'
    BY <1>1 DEF ClaimsDistinct, Busy
  <1>7. TransactionsHold'
    BY <1>1, <1>2 DEF TransactionsHold, InTransaction
  <1>8. \A v \in Workers : Items(v)' = Items(v)
    BY <1>1, <1>2 DEF Items
  <1>9. LocksDisjoint'
    BY <1>1, <1>8 DEF LocksDisjoint, CardLocked
  <1>10. ReadsStayCurrent'
    BY <1>1, <1>2, <1>8 DEF ReadsStayCurrent
  <1> QED
    BY <1>3, <1>4, <1>5, <1>6, <1>7, <1>9, <1>10

LEMMA VerifyStep ==
  ASSUME LeaseInv, NEW w \in Workers, ApplyVerify(w)
  PROVE  LeaseInv'
  <1>1. Busy(w)
    BY DEF ApplyVerify, Busy
  <1>2. faults' \in Nat /\ UNCHANGED <<dbVars, controlVars, cycle, authSince, faults>>
    BY DEF ApplyVerify, LeaseInv, KnownInv, TypeOK
  <1>3. CASE ~Holds(w)
    <2>1. MovesOutside(w)
      BY <1>3, FinishOutside DEF ApplyVerify
    <2> QED
      BY <1>2, <2>1, ReadingStep
  <1>4. CASE Holds(w)
    <2> DEFINE y == worker[w]
               x == [y EXCEPT !.pc = "verified"]
    <2>1. y \in Worker
      BY DEF LeaseInv, KnownInv, TypeOK
    <2>2. worker' = [worker EXCEPT ![w] = x]
      BY <1>4 DEF ApplyVerify, Goto
    <2> HIDE DEF y
    <2>3. x \in Worker /\ x.batch = y.batch /\ x.version = y.version /\ x.pc = "verified"
      BY <2>1 DEF Worker, Steps
    <2>4. x \in Worker /\ x.batch = worker[w].batch /\ x.version = worker[w].version
            /\ x.pc # "idle" /\ x.pc # "locked"
      BY <2>3 DEF y
    <2> HIDE DEF x
    <2>5. /\ row[worker[w].batch].status = "processing"
          /\ row[worker[w].batch].version = worker[w].version
          /\ row[worker[w].batch].owner = Identity[w]
      BY <1>4 DEF Holds
    <2> QED
      BY <1>1, <1>2, <2>2, <2>4, <2>5, EnterStep
  <1> QED
    BY <1>3, <1>4

LEMMA LockCardsStep ==
  ASSUME LeaseInv, NEW w \in Workers, ApplyLockCards(w)
  PROVE  LeaseInv'
  <1>1. Busy(w) /\ InTransaction(w)
    BY DEF ApplyLockCards, Busy, InTransaction
  <1>2. faults' \in Nat /\ UNCHANGED <<dbVars, controlVars, cycle, authSince, faults>>
    BY DEF ApplyLockCards, LeaseInv, KnownInv, TypeOK
  <1> DEFINE read == [c \in Cards |-> IF c \in Items(w) THEN card[c] ELSE "pending"]
             y == worker[w]
             x == [y EXCEPT !.pc = "locked", !.read = read]
  <1>3. CASE GotoFail(w, "invalid_transition")
    <2>1. MovesOutside(w)
      BY <1>1, <1>3, GotoOutside DEF FailureCodes, LeaseInv, KnownInv
    <2> QED
      BY <1>2, <2>1, ReadingStep
  <1>4. CASE worker' = [worker EXCEPT ![w] = x]
    <2>1. y \in Worker /\ read \in [Cards -> CardStates]
      BY DEF LeaseInv, KnownInv, TypeOK, CardStates
    <2>2. \A c \in Items(w) : ~CardLocked(c) /\ read[c] = card[c]
      BY <1>1, WorkerItems DEF ApplyLockCards
    <2> HIDE DEF y, read
    <2>3. x \in Worker /\ x.batch = y.batch /\ x.version = y.version /\ x.pc = "locked"
            /\ x.read = read
      BY <2>1 DEF Worker, Steps
    <2>4. x \in Worker /\ x.batch = worker[w].batch /\ x.version = worker[w].version
            /\ x.pc # "idle" /\ x.read = read
      BY <2>3 DEF y
    <2> HIDE DEF x
    <2>5. /\ row[worker[w].batch].status = "processing"
          /\ row[worker[w].batch].version = worker[w].version
          /\ row[worker[w].batch].owner = Identity[w]
      BY <1>1 DEF LeaseInv, TransactionsHold
    <2> QED
      BY <1>1, <1>2, <1>4, <2>2, <2>4, <2>5, EnterStep
  <1>5. GotoFail(w, "invalid_transition") \/ worker' = [worker EXCEPT ![w] = x]
    BY DEF ApplyLockCards
  <1> QED
    BY <1>3, <1>4, <1>5

LEMMA ClaimStep ==
  ASSUME LeaseInv, NEW w \in Workers, NEW b \in Batches, ClaimBatch(w, b)
  PROVE  LeaseInv'
  <1> USE DEF LeaseInv, KnownInv
  <1> DEFINE r == ClaimedRow(row[b], Identity[w])
             n == row[b].version + 1
             a == row[b].attempts + 1
             x == [IdleWorker EXCEPT !.pc = "claimed", !.batch = b, !.version = n, !.attempts = a]
  <1>1. row[b] \in Row /\ Identity[w] \in Executors
    BY ConstantsAssumption DEF TypeOK
  <1>2. r \in Row /\ r.status = "processing" /\ r.version = n
    BY <1>1, ClaimedRowType
  <1>3. n \in Nat /\ a \in Nat /\ row[b].version \in Nat /\ row[b].version < n
    BY <1>1 DEF Row
  <1>4. /\ row' = [row EXCEPT ![b] = r] /\ worker' = [worker EXCEPT ![w] = x]
        /\ row[b].status = "queued" /\ worker[w].pc = "idle"
        /\ UNCHANGED <<card, history, request, outcome, operation, controlVars, faults>>
    BY DEF ClaimBatch, Claimable
  <1>5. authSince' \in [Batches -> SUBSET Grants]
    BY DEF ClaimBatch, GrantsNow, TypeOK
  <1>6. cycle' \in [Executors -> {"waiting", "listed", "recovered"}]
    BY DEF ClaimBatch, TypeOK
  <1> HIDE DEF r, n, a
  <1>7. x \in Worker /\ x.pc = "claimed" /\ x.batch = b /\ x.version = n
    BY <1>3 DEF IdleWorker, Worker, Steps, FailureCodes, NoReads, CardStates
  <1> HIDE DEF x
  <1>8. /\ worker' \in [Workers -> Worker] /\ worker'[w] = x
        /\ \A v \in Workers \ {w} : worker'[v] = worker[v]
    BY <1>4, <1>7 DEF TypeOK
  <1>9. /\ row' \in [Batches -> Row] /\ row'[b] = r
        /\ \A d \in Batches \ {b} : row'[d] = row[d]
    BY <1>2, <1>4 DEF TypeOK
  <1>10. TypeOK'
    BY <1>4, <1>5, <1>6, <1>8, <1>9 DEF TypeOK, controlVars
  <1>11. RequestsKnown'
    BY <1>4, <1>9 DEF RequestsKnown
  <1>12. ASSUME NEW v \in Workers, Busy(v)
         PROVE  /\ worker[v].version < n \/ worker[v].batch # b
                /\ worker[v].batch \in Batches
                /\ row'[worker[v].batch].status # "none"
                /\ worker[v].version <= row'[worker[v].batch].version
    <2>1. /\ worker[v].batch \in Batches /\ row[worker[v].batch].status # "none"
          /\ worker[v].version <= row[worker[v].batch].version
          /\ worker[v].version \in Nat
      BY <1>12 DEF WorkersKnown, TypeOK, Worker
    <2> QED
      BY <1>2, <1>3, <1>9, <2>1
  <1>13. WorkersKnown'
    BY <1>2, <1>3, <1>7, <1>8, <1>9, <1>12 DEF WorkersKnown, Busy
  <1>14. ClaimsDistinct'
    <2> SUFFICES ASSUME NEW u \in Workers, NEW v \in Workers, u # v, Busy(u)', Busy(v)',
                        worker'[u].batch = worker'[v].batch
                 PROVE  worker'[u].version # worker'[v].version
      BY DEF ClaimsDistinct
    <2>1. \A z \in Workers \ {w} : Busy(z)' =>
             Busy(z) /\ (worker[z].batch # b \/ worker[z].version # n)
      <3> SUFFICES ASSUME NEW z \in Workers \ {w}, Busy(z)
                   PROVE  worker[z].batch # b \/ worker[z].version # n
        BY <1>8 DEF Busy
      <3>1. worker[z].version \in Nat
        BY DEF TypeOK, Worker
      <3> QED
        BY <1>3, <1>12, <3>1
    <2> QED
      BY <1>7, <1>8, <2>1 DEF ClaimsDistinct
  <1>15. \A v \in Workers : InTransaction(v)' =>
            /\ v # w /\ worker'[v] = worker[v] /\ InTransaction(v)
            /\ worker[v].batch \in Batches \ {b}
    BY <1>4, <1>7, <1>8 DEF InTransaction, TransactionsHold, WorkersKnown, Busy
  <1>16. TransactionsHold'
    BY <1>9, <1>15 DEF TransactionsHold
  <1>17. \A v \in Workers : worker'[v].pc = "locked" =>
            v # w /\ worker'[v] = worker[v] /\ Items(v)' = Items(v)
    BY <1>4, <1>7, <1>8 DEF Items
  <1>18. LocksDisjoint'
    BY <1>17 DEF LocksDisjoint
  <1>19. ReadsStayCurrent'
    BY <1>4, <1>17 DEF ReadsStayCurrent
  <1> QED
    BY <1>10, <1>11, <1>13, <1>14, <1>16, <1>18, <1>19

-----------------------------------------------------------------------------
(* Theorems *)

LEMMA RequestAccepted ==
  ASSUME LeaseInv, NEW b \in Batches, NEW u \in Users,
         \/ CreateCardStatusBatch(b, u)
         \/ \E source \in Batches : RetryCardStatusBatch(b, source, u)
  PROVE  LeaseInv'
  <1>1. CASE CreateCardStatusBatch(b, u)
    <2>1. PICK target \in Targets, items \in SUBSET Cards \ {{}} :
             Accept(b, [target |-> target, items |-> items, by |-> u, retryOf |-> None])
      BY <1>1 DEF CreateCardStatusBatch
    <2>2. [target |-> target, items |-> items, by |-> u, retryOf |-> None] \in Request
      BY ConstantsAssumption DEF Request
    <2> QED
      BY <2>1, <2>2, AcceptStep
  <1>2. CASE \E source \in Batches : RetryCardStatusBatch(b, source, u)
    <2>1. PICK source \in Batches :
             /\ row[source].status \in {"failed", "cancelled"}
             /\ Accept(b, [request[source] EXCEPT !.by = u, !.retryOf = source])
      BY <1>2 DEF RetryCardStatusBatch, RetryOf
    <2> DEFINE q == request[source]
    <2>2. q \in Request
      BY <2>1 DEF LeaseInv, KnownInv, RequestsKnown
    <2> HIDE DEF q
    <2>3. [q EXCEPT !.by = u, !.retryOf = source] \in Request
      BY <2>2 DEF Request
    <2> QED
      BY <2>1, <2>3, AcceptStep DEF q
  <1> QED
    BY <1>1, <1>2

LEMMA NextLeaseInv == LeaseInv /\ [Next]_vars => LeaseInv'
  <1> SUFFICES ASSUME LeaseInv, [Next]_vars PROVE LeaseInv'
    OBVIOUS
  <1>1. CASE ApiNext
    BY <1>1, RequestAccepted, ExecuteStep, CancelStep, CommandStep DEF ApiNext
  <1>2. CASE ControlNext
    BY <1>2, ControlStep
  <1>3. CASE CycleNext
    BY <1>3, PollStep, RecoverStep, ClaimStep DEF CycleNext
  <1>4. CASE TimeNext
    BY <1>4, TimeStep DEF TimeNext
  <1>5. ASSUME NEW w \in Workers, RunBatch(w) PROVE LeaseInv'
    BY <1>5, LookupStep, VerifyStep, LockCardsStep, ApplyCommitStep, ReportStep DEF RunBatch
  <1>6. ASSUME NEW w \in Workers, Errors(w) PROVE LeaseInv'
    BY <1>6, LookupStep, ApplyErrorStep, ApplyCommitStep DEF Errors
  <1>7. CASE \E e \in Executors : ExecutorExits(e)
    BY <1>7, ExitStep
  <1>8. CASE UNCHANGED vars
    <2>1. UNCHANGED <<dbVars, worker>>
      BY <1>8 DEF vars, dbVars
    <2>2. TypeOK'
      BY <1>8 DEF vars, LeaseInv, KnownInv, TypeOK
    <2> QED
      BY <2>1, <2>2, ElsewhereStep
  <1> QED
    BY <1>1, <1>2, <1>3, <1>4, <1>5, <1>6, <1>7, <1>8 DEF Next

\* The inductive invariant holds in every behaviour.
THEOREM LeaseInvariant == Spec => []LeaseInv
  BY InitLeaseInv, NextLeaseInv, PTL DEF Spec

\* Every table and every goroutine keeps its type.
THEOREM Typing == Spec => []TypeOK
  <1>1. LeaseInv => TypeOK
    BY DEF LeaseInv, KnownInv
  <1> QED
    BY <1>1, LeaseInvariant, PTL

\* However many workers, crashes and expired leases there are, a worker in
\* ApplyBatch's transaction owns its batch and is alone with it.
THEOREM Fencing == Spec => []FencedTransactions
  BY LeaseInvFences, LeaseInvariant, PTL

\* The statuses ApplyBatch read under its card locks are still the cards'
\* statuses when it commits.
THEOREM StableReads == Spec => []ReadsStayCurrent
  <1>1. LeaseInv => ReadsStayCurrent
    BY DEF LeaseInv
  <1> QED
    BY <1>1, LeaseInvariant, PTL

-----------------------------------------------------------------------------
(* Attempts *)

\* A claim under the row's version is the row's: its attempt and its owner.
ClaimCurrent ==
  \A w \in Workers : LET r == row[worker[w].batch] IN
     Busy(w) /\ worker[w].version = r.version =>
       /\ worker[w].attempts = r.attempts
       /\ r.status = "processing" => r.owner = Identity[w]

\* Nobody will give the batch back: only recovery will.
Adrift(b) == row[b].status = "processing" /\ (~row[b].current \/ ~Attended(b))

\* A batch in the queue has an attempt left, or a recovery has given it one.
AttemptOK(b) ==
  LET r == row[b] IN
  /\ r.attempts <= r.version
  /\ r.status \in {"none", "draft"} => r.version = 0
  /\ 2 * r.attempts <= BatchMaxAttempts + r.version
  /\ r.status = "queued" => 2 * r.attempts < BatchMaxAttempts + r.version
  /\ r.version - r.attempts <= faults
  /\ Adrift(b) => r.version - r.attempts < faults

AttemptsInv == ClaimCurrent /\ \A b \in Batches : AttemptOK(b)

LEMMA InitAttempts == Init => AttemptsInv
  <1> SUFFICES ASSUME Init PROVE AttemptsInv
    OBVIOUS
  <1>1. \A w \in Workers : ~Busy(w)
    BY DEF Init, IdleWorker, Busy
  <1>2. \A b \in Batches : row[b].status = "none" /\ row[b].version = 0 /\ row[b].attempts = 0
    BY DEF Init, NewRow
  <1>3. \A b \in Batches : AttemptOK(b)
    BY <1>2, ConstantsAssumption DEF AttemptOK, Adrift, Init
  <1> QED
    BY <1>1, <1>3 DEF AttemptsInv, ClaimCurrent

\* A goroutine goes on with its claim, or ends.
SameClaim(w) ==
  Busy(w)' => /\ Busy(w)
              /\ worker'[w].batch = worker[w].batch
              /\ worker'[w].version = worker[w].version
              /\ worker'[w].attempts = worker[w].attempts

\* The row keeps its counts; nobody else claims it, and it comes back to the
\* queue with an attempt left.
SameCounts(b) ==
  LET r == row[b]  q == row'[b] IN
  /\ q.version = r.version /\ q.attempts = r.attempts
  /\ q.status = "processing" => r.status = "processing" /\ q.owner = r.owner
  /\ q.status \in {"none", "draft"} => r.status \in {"none", "draft"}
  /\ q.status = "queued" => r.status = "queued" \/ 2 * r.attempts < BatchMaxAttempts + r.version
  /\ Adrift(b)' => Adrift(b) \/ faults' = faults + 1

LEMMA CountsKept ==
  ASSUME LeaseInv, AttemptsInv, faults' \in Nat, faults <= faults',
         \A w \in Workers : SameClaim(w), \A b \in Batches : SameCounts(b)
  PROVE  AttemptsInv'
  <1>1. ClaimCurrent'
    <2> SUFFICES ASSUME NEW w \in Workers, Busy(w)', worker'[w].version = row'[worker'[w].batch].version
                 PROVE  LET q == row'[worker'[w].batch] IN
                        /\ worker'[w].attempts = q.attempts
                        /\ q.status = "processing" => q.owner = Identity[w]
      BY DEF ClaimCurrent
    <2>1. /\ Busy(w) /\ worker'[w].batch = worker[w].batch /\ worker[w].batch \in Batches
          /\ worker'[w].version = worker[w].version /\ worker'[w].attempts = worker[w].attempts
      BY DEF SameClaim, LeaseInv, KnownInv, WorkersKnown
    <2> QED
      BY <2>1 DEF SameCounts, AttemptsInv, ClaimCurrent
  <1>2. ASSUME NEW b \in Batches PROVE AttemptOK(b)'
    <2>1. row[b].version \in Nat /\ row[b].attempts \in Nat /\ faults \in Nat /\ BatchMaxAttempts \in Nat
      BY ConstantsAssumption DEF LeaseInv, KnownInv, TypeOK, Row
    <2>2. AttemptOK(b) /\ SameCounts(b)
      BY DEF AttemptsInv
    <2> QED
      BY <2>1, <2>2 DEF AttemptOK, SameCounts
  <1> QED
    BY <1>1, <1>2 DEF AttemptsInv

\* Where the rows stay and no goroutine ends, or one is lost to a fault.
LEMMA RowsStay ==
  ASSUME LeaseInv, AttemptsInv, row' = row, \A w \in Workers : SameClaim(w),
         \/ faults' = faults /\ \A w \in Workers : Busy(w) => Busy(w)'
         \/ faults' = faults + 1
  PROVE  AttemptsInv'
  <1>1. faults \in Nat /\ faults' \in Nat /\ faults <= faults'
    BY DEF LeaseInv, KnownInv, TypeOK
  <1>2. ASSUME NEW b \in Batches, \A w \in Workers : Busy(w) => Busy(w)'
        PROVE  Adrift(b)' => Adrift(b)
    BY <1>2 DEF Adrift, Attended, SameClaim, Busy
  <1>3. \A b \in Batches : SameCounts(b)
    BY <1>2 DEF SameCounts
  <1> QED
    BY <1>1, <1>3, CountsKept

\* The claim of a goroutine that goes on.
LEMMA GoesOn ==
  ASSUME LeaseInv, NEW w \in Workers, Busy(w),
         \/ \E pc \in Steps \ {"idle"} : Goto(w, pc)
         \/ \E code : GotoFail(w, code) \/ GotoRetry(w, code)
         \/ \E pc \in Steps \ {"idle"} : \E ok : worker' = [worker EXCEPT ![w].pc = pc, ![w].userOK = ok]
         \/ \E pc \in Steps \ {"idle"} : \E f : worker' = [worker EXCEPT ![w].pc = pc, ![w].read = f]
  PROVE  \A v \in Workers : SameClaim(v) /\ (Busy(v) => Busy(v)')
  <1>1. worker \in [Workers -> Worker] /\ worker[w] \in Worker
    BY DEF LeaseInv, KnownInv, TypeOK
  <1>2. ASSUME NEW y, worker' = [worker EXCEPT ![w] = y], y.pc # "idle", y.batch = worker[w].batch,
               y.version = worker[w].version, y.attempts = worker[w].attempts
        PROVE  \A v \in Workers : SameClaim(v) /\ (Busy(v) => Busy(v)')
    <2>1. worker'[w] = y /\ \A v \in Workers : v # w => worker'[v] = worker[v]
      BY <1>1, <1>2
    <2> QED
      BY <1>2, <2>1 DEF SameClaim, Busy
  <1> DEFINE x == worker[w]
  <1>3. ASSUME NEW pc \in Steps \ {"idle"}, NEW value
        PROVE  /\ LET y == [x EXCEPT !.pc = pc] IN
                  y.pc = pc /\ y.batch = x.batch /\ y.version = x.version /\ y.attempts = x.attempts
               /\ LET y == [x EXCEPT !.pc = pc, !.code = value] IN
                  y.pc = pc /\ y.batch = x.batch /\ y.version = x.version /\ y.attempts = x.attempts
               /\ LET y == [x EXCEPT !.pc = pc, !.userOK = value] IN
                  y.pc = pc /\ y.batch = x.batch /\ y.version = x.version /\ y.attempts = x.attempts
               /\ LET y == [x EXCEPT !.pc = pc, !.read = value] IN
                  y.pc = pc /\ y.batch = x.batch /\ y.version = x.version /\ y.attempts = x.attempts
    BY <1>1 DEF Worker
  <1>4. ASSUME NEW pc \in Steps \ {"idle"}, Goto(w, pc)
        PROVE  \A v \in Workers : SameClaim(v) /\ (Busy(v) => Busy(v)')
    <2> DEFINE y == [x EXCEPT !.pc = pc]
    <2>1. worker' = [worker EXCEPT ![w] = y]
      BY <1>4 DEF Goto
    <2>2. y.pc = pc /\ y.batch = x.batch /\ y.version = x.version /\ y.attempts = x.attempts
      BY <1>3
    <2> HIDE DEF y
    <2> QED
      BY <1>2, <2>1, <2>2
  <1>5. ASSUME NEW code, GotoFail(w, code) \/ GotoRetry(w, code)
        PROVE  \A v \in Workers : SameClaim(v) /\ (Busy(v) => Busy(v)')
    <2>1. PICK pc \in {"fail", "retry"} : worker' = [worker EXCEPT ![w].pc = pc, ![w].code = code]
      BY <1>5 DEF GotoFail, GotoRetry
    <2> DEFINE y == [x EXCEPT !.pc = pc, !.code = code]
    <2>2. worker' = [worker EXCEPT ![w] = y]
      BY <2>1
    <2>3. y.pc = pc /\ y.batch = x.batch /\ y.version = x.version /\ y.attempts = x.attempts
      BY <1>3 DEF Steps
    <2> HIDE DEF y
    <2> QED
      BY <1>2, <2>2, <2>3
  <1>6. ASSUME NEW pc \in Steps \ {"idle"}, NEW ok, worker' = [worker EXCEPT ![w].pc = pc, ![w].userOK = ok]
        PROVE  \A v \in Workers : SameClaim(v) /\ (Busy(v) => Busy(v)')
    <2> DEFINE y == [x EXCEPT !.pc = pc, !.userOK = ok]
    <2>1. worker' = [worker EXCEPT ![w] = y]
      BY <1>6
    <2>2. y.pc = pc /\ y.batch = x.batch /\ y.version = x.version /\ y.attempts = x.attempts
      BY <1>3
    <2> HIDE DEF y
    <2> QED
      BY <1>2, <2>1, <2>2
  <1>7. ASSUME NEW pc \in Steps \ {"idle"}, NEW f, worker' = [worker EXCEPT ![w].pc = pc, ![w].read = f]
        PROVE  \A v \in Workers : SameClaim(v) /\ (Busy(v) => Busy(v)')
    <2> DEFINE y == [x EXCEPT !.pc = pc, !.read = f]
    <2>1. worker' = [worker EXCEPT ![w] = y]
      BY <1>7
    <2>2. y.pc = pc /\ y.batch = x.batch /\ y.version = x.version /\ y.attempts = x.attempts
      BY <1>3
    <2> HIDE DEF y
    <2> QED
      BY <1>2, <2>1, <2>2
  <1> QED
    BY <1>4, <1>5, <1>6, <1>7

\* A goroutine that ends without a lease leaves a batch that was adrift, or
\* another's.
LEMMA EndsWithout ==
  ASSUME LeaseInv, AttemptsInv, NEW w \in Workers, Busy(w), ~Holds(w), Finish(w),
         row' = row, faults' = faults
  PROVE  AttemptsInv'
  <1>1. worker \in [Workers -> Worker] /\ faults \in Nat
    BY DEF LeaseInv, KnownInv, TypeOK
  <1>2. ~Busy(w)' /\ \A v \in Workers : v # w => worker'[v] = worker[v]
    BY <1>1 DEF Finish, IdleWorker, Busy
  <1>3. \A v \in Workers : SameClaim(v)
    BY <1>2 DEF SameClaim, Busy
  <1>4. ASSUME NEW b \in Batches, Adrift(b)' PROVE Adrift(b)
    <2>1. CASE worker[w].batch = b /\ worker[w].version = row[b].version
      BY <1>4, <2>1 DEF Adrift, AttemptsInv, ClaimCurrent, Holds
    <2>2. CASE ~(worker[w].batch = b /\ worker[w].version = row[b].version)
      BY <1>2, <1>4, <2>2 DEF Adrift, Attended
    <2> QED
      BY <2>1, <2>2
  <1>5. \A b \in Batches : SameCounts(b)
    BY <1>4 DEF SameCounts
  <1> QED
    BY <1>1, <1>3, <1>5, CountsKept

\* A step that moves one row out of, or within, its status.
LEMMA OneRowKept ==
  ASSUME LeaseInv, AttemptsInv, NEW b \in Batches, NEW r, row' = [row EXCEPT ![b] = r],
         r.version = row[b].version, r.attempts = row[b].attempts, r.status # "processing",
         r.status \in {"none", "draft"} => row[b].status \in {"none", "draft"},
         r.status = "queued" => \/ row[b].status = "queued"
                               \/ 2 * row[b].attempts < BatchMaxAttempts + row[b].version,
         \A w \in Workers : SameClaim(w), faults' = faults \/ faults' = faults + 1,
         \A w \in Workers : worker[w].batch # b => worker'[w] = worker[w]
  PROVE  AttemptsInv'
  <1>1. faults \in Nat /\ row \in [Batches -> Row]
    BY DEF LeaseInv, KnownInv, TypeOK
  <1>2. row'[b] = r /\ \A a \in Batches : a # b => row'[a] = row[a]
    BY <1>1
  <1>3. SameCounts(b)
    BY <1>2 DEF SameCounts, Adrift
  <1>4. ASSUME NEW a \in Batches, a # b PROVE SameCounts(a)
    <2>1. row'[a] = row[a]
      BY <1>2, <1>4
    <2>2. ASSUME Attended(a) PROVE Attended(a)'
      <3>1. PICK w \in Workers : worker[w].batch = a /\ worker[w].pc # "idle" /\ worker[w].version = row[a].version
        BY <2>2 DEF Attended
      <3>2. worker'[w] = worker[w]
        BY <1>4, <3>1
      <3> QED
        BY <2>1, <3>1, <3>2 DEF Attended
    <2>3. Adrift(a)' => Adrift(a)
      BY <2>1, <2>2 DEF Adrift
    <2> QED
      BY <2>1, <2>3 DEF SameCounts
  <1>5. faults' \in Nat /\ faults <= faults'
    BY <1>1
  <1> QED
    BY <1>3, <1>4, <1>5, CountsKept

\* The records that requests, time and reports write.
LEMMA RewrittenRows ==
  ASSUME NEW r \in Row, NEW s \in BatchStates, NEW n, NEW m, NEW code, NEW x
  PROVE  /\ LET q == [r EXCEPT !.status = s] IN
            q.status = s /\ q.version = r.version /\ q.attempts = r.attempts
         /\ LET q == [r EXCEPT !.status = s, !.due = x] IN
            q.status = s /\ q.version = r.version /\ q.attempts = r.attempts
         /\ LET q == [r EXCEPT !.due = x] IN
            q.status = r.status /\ q.version = r.version /\ q.attempts = r.attempts
         /\ LET q == [r EXCEPT !.current = x] IN
            /\ q.status = r.status /\ q.version = r.version /\ q.attempts = r.attempts
            /\ q.owner = r.owner
         /\ LET q == [Released(r, s) EXCEPT !.applied = n, !.ignored = m] IN
            q.status = s /\ q.version = r.version /\ q.attempts = r.attempts
         /\ LET q == [Released(r, s) EXCEPT !.ignored = m, !.applied = n, !.failure = code] IN
            q.status = s /\ q.version = r.version /\ q.attempts = r.attempts
         /\ LET q == [Released(r, s) EXCEPT !.due = x, !.failure = code] IN
            q.status = s /\ q.version = r.version /\ q.attempts = r.attempts
         /\ RecoveredRow(r).attempts = r.attempts
  BY DEF Row, Released, RecoveredRow

LEMMA RequestAttempts ==
  ASSUME LeaseInv, AttemptsInv, NEW b \in Batches,
         \/ \E req : Accept(b, req)
         \/ ExecuteCardStatusBatch(b) \/ CancelCardStatusBatch(b) \/ BackoffElapses(b)
  PROVE  AttemptsInv'
  <1>1. row[b] \in Row /\ AttemptOK(b) /\ BatchMaxAttempts \in Nat \ {0}
    BY ConstantsAssumption DEF LeaseInv, KnownInv, TypeOK, AttemptsInv
  <1>2. worker' = worker /\ faults' = faults
    BY DEF Accept, ExecuteCardStatusBatch, CancelCardStatusBatch, BackoffElapses
  <1>3. \A w \in Workers : SameClaim(w)
    BY <1>2 DEF SameClaim, Busy
  <1> DEFINE Fits(r) == /\ row' = [row EXCEPT ![b] = r] /\ r.status # "processing"
                        /\ r.version = row[b].version /\ r.attempts = row[b].attempts
                        /\ r.status \in {"none", "draft"} => row[b].status \in {"none", "draft"}
                        /\ r.status = "queued" => row[b].status \in {"queued", "draft"}
  <1>4. \E r : Fits(r)
    <2>1. ASSUME NEW req, Accept(b, req) PROVE Fits([row[b] EXCEPT !.status = "draft"])
      BY <1>1, <2>1, RewrittenRows DEF Accept, BatchStates
    <2>2. CASE ExecuteCardStatusBatch(b)
      <3>1. Fits([row[b] EXCEPT !.status = "queued", !.due = TRUE])
        BY <1>1, <2>2, RewrittenRows DEF ExecuteCardStatusBatch, Dispatched, BatchStates
      <3> QED
        BY <3>1
    <2>3. CASE CancelCardStatusBatch(b)
      <3>1. Fits([row[b] EXCEPT !.status = "cancelled"])
        BY <1>1, <2>3, RewrittenRows DEF CancelCardStatusBatch, BatchStates
      <3> QED
        BY <3>1
    <2>4. CASE BackoffElapses(b)
      <3>1. Fits([row[b] EXCEPT !.due = TRUE])
        BY <1>1, <2>4, RewrittenRows DEF BackoffElapses, BatchStates
      <3> QED
        BY <3>1
    <2> HIDE DEF Fits
    <2> QED
      BY <2>1, <2>2, <2>3, <2>4
  <1>5. row[b].status = "draft" => 2 * row[b].attempts < BatchMaxAttempts + row[b].version
    BY <1>1 DEF AttemptOK, Row
  <1>6. PICK r : Fits(r)
    BY <1>4
  <1> QED
    BY <1>2, <1>3, <1>5, <1>6, OneRowKept

LEMMA ExpiryAttempts ==
  ASSUME LeaseInv, AttemptsInv, NEW b \in Batches, LeaseExpires(b)
  PROVE  AttemptsInv'
  <1> DEFINE r == [row[b] EXCEPT !.current = FALSE]
  <1>1. row \in [Batches -> Row] /\ row[b] \in Row /\ faults \in Nat
    BY DEF LeaseInv, KnownInv, TypeOK
  <1>2. r.status = row[b].status /\ r.version = row[b].version /\ r.attempts = row[b].attempts
          /\ r.owner = row[b].owner
    BY <1>1, RewrittenRows DEF BatchStates
  <1>3. row' = [row EXCEPT ![b] = r] /\ worker' = worker
    BY DEF LeaseExpires
  <1> HIDE DEF r
  <1>4. row'[b] = r /\ \A a \in Batches : a # b => row'[a] = row[a]
    BY <1>1, <1>3
  <1>5. \A w \in Workers : SameClaim(w)
    BY <1>3 DEF SameClaim, Busy
  <1>6. faults' = faults + 1 \/ (faults' = faults /\ Adrift(b))
    BY DEF LeaseExpires, Adrift
  <1>7. ASSUME NEW a \in Batches PROVE SameCounts(a)
    <2>1. CASE a = b
      BY <1>2, <1>4, <1>6, <2>1 DEF SameCounts
    <2>2. CASE a # b
      <3>1. row'[a] = row[a]
        BY <1>4, <2>2
      <3>2. Adrift(a)' => Adrift(a)
        BY <1>3, <3>1 DEF Adrift, Attended
      <3> QED
        BY <3>1, <3>2 DEF SameCounts
    <2> QED
      BY <2>1, <2>2
  <1>8. faults' \in Nat /\ faults <= faults'
    BY <1>1, <1>6
  <1> QED
    BY <1>5, <1>7, <1>8, CountsKept

\* A recovery is owed to the fault that set the batch adrift, and pays for the
\* attempt that follows it.
LEMMA RecoverAttempts ==
  ASSUME LeaseInv, AttemptsInv, NEW e \in Executors, RecoverBatches(e)
  PROVE  AttemptsInv'
  <1>1. row \in [Batches -> Row] /\ faults \in Nat /\ worker \in [Workers -> Worker]
    BY DEF LeaseInv, KnownInv, TypeOK
  <1>2. worker' = worker /\ faults' = faults
    BY DEF RecoverBatches
  <1>3. \A b \in Batches : row'[b] = IF Recoverable(b) THEN RecoveredRow(row[b]) ELSE row[b]
    BY DEF RecoverBatches
  <1>4. \A b \in Batches : /\ RecoveredRow(row[b]).status = "queued"
                           /\ RecoveredRow(row[b]).version = row[b].version + 1
                           /\ RecoveredRow(row[b]).attempts = row[b].attempts
                           /\ row[b].version \in Nat /\ row[b].attempts \in Nat
    <2> SUFFICES ASSUME NEW b \in Batches
                 PROVE  /\ RecoveredRow(row[b]).status = "queued"
                        /\ RecoveredRow(row[b]).version = row[b].version + 1
                        /\ RecoveredRow(row[b]).attempts = row[b].attempts
                        /\ row[b].version \in Nat /\ row[b].attempts \in Nat
      OBVIOUS
    <2>1. row[b] \in Row
      BY <1>1
    <2>2. RecoveredRow(row[b]).attempts = row[b].attempts
      BY <2>1, RewrittenRows DEF BatchStates
    <2> QED
      BY <2>1, <2>2, RecoveredRowType DEF Row
  <1>5. ClaimCurrent'
    <2> SUFFICES ASSUME NEW w \in Workers, Busy(w), worker[w].version = row'[worker[w].batch].version
                 PROVE  LET q == row'[worker[w].batch] IN
                        /\ worker[w].attempts = q.attempts
                        /\ q.status = "processing" => q.owner = Identity[w]
      BY <1>2 DEF ClaimCurrent, Busy
    <2>1. worker[w].batch \in Batches /\ worker[w].version <= row[worker[w].batch].version
            /\ worker[w].version \in Nat
      BY <1>1 DEF LeaseInv, KnownInv, WorkersKnown, Worker
    <2>2. row'[worker[w].batch] = row[worker[w].batch]
      BY <1>3, <1>4, <2>1
    <2> QED
      BY <2>2 DEF AttemptsInv, ClaimCurrent
  <1>6. ASSUME NEW b \in Batches PROVE AttemptOK(b)'
    <2>1. AttemptOK(b)
      BY DEF AttemptsInv
    <2>2. CASE Recoverable(b)
      <3>1. Adrift(b)
        BY <2>2 DEF Recoverable, Adrift
      <3>2. /\ row'[b].status = "queued" /\ row'[b].version = row[b].version + 1
            /\ row'[b].attempts = row[b].attempts
        BY <1>3, <1>4, <2>2
      <3>3. ~Adrift(b)'
        BY <3>2 DEF Adrift
      <3> QED
        BY <1>1, <1>2, <1>4, <2>1, <3>1, <3>2, <3>3, ConstantsAssumption DEF AttemptOK
    <2>3. CASE ~Recoverable(b)
      <3>1. row'[b] = row[b]
        BY <1>3, <2>3
      <3>2. Adrift(b)' = Adrift(b)
        BY <1>2, <3>1 DEF Adrift, Attended
      <3> QED
        BY <1>2, <2>1, <3>1, <3>2 DEF AttemptOK
    <2> QED
      BY <2>2, <2>3
  <1> QED
    BY <1>5, <1>6 DEF AttemptsInv

LEMMA ClaimAttempts ==
  ASSUME LeaseInv, AttemptsInv, NEW w \in Workers, NEW b \in Batches, ClaimBatch(w, b)
  PROVE  AttemptsInv'
  <1> DEFINE r == ClaimedRow(row[b], Identity[w])
             x == [IdleWorker EXCEPT !.pc = "claimed", !.batch = b,
                             !.version = row[b].version + 1, !.attempts = row[b].attempts + 1]
  <1>1. /\ row \in [Batches -> Row] /\ row[b] \in Row /\ faults \in Nat
        /\ worker \in [Workers -> Worker] /\ Identity[w] \in Executors
    BY ConstantsAssumption DEF LeaseInv, KnownInv, TypeOK
  <1>2. /\ row' = [row EXCEPT ![b] = r] /\ worker' = [worker EXCEPT ![w] = x] /\ faults' = faults
        /\ row[b].status = "queued" /\ worker[w].pc = "idle"
    BY DEF ClaimBatch, Claimable
  <1>3. /\ r.status = "processing" /\ r.version = row[b].version + 1 /\ r.owner = Identity[w]
        /\ r.attempts = row[b].attempts + 1 /\ r.current
    BY <1>1, ClaimedRowType DEF ClaimedRow, Row
  <1>4. /\ x.pc = "claimed" /\ x.batch = b
        /\ x.version = row[b].version + 1 /\ x.attempts = row[b].attempts + 1
    BY DEF IdleWorker
  <1> HIDE DEF r, x
  <1>5. row'[b] = r /\ \A a \in Batches : a # b => row'[a] = row[a]
    BY <1>1, <1>2
  <1>6. worker'[w] = x /\ \A v \in Workers : v # w => worker'[v] = worker[v]
    BY <1>1, <1>2
  <1>7. row[b].version \in Nat /\ row[b].attempts \in Nat
    BY <1>1 DEF Row
  <1>8. ClaimCurrent'
    <2> SUFFICES ASSUME NEW v \in Workers, Busy(v)', worker'[v].version = row'[worker'[v].batch].version
                 PROVE  LET q == row'[worker'[v].batch] IN
                        /\ worker'[v].attempts = q.attempts
                        /\ q.status = "processing" => q.owner = Identity[v]
      BY DEF ClaimCurrent
    <2>1. CASE v = w
      BY <1>3, <1>4, <1>5, <1>6, <2>1
    <2>2. CASE v # w
      <3>1. worker'[v] = worker[v] /\ Busy(v)
        BY <1>6, <2>2 DEF Busy
      <3>2. worker[v].batch \in Batches /\ worker[v].version <= row[worker[v].batch].version
              /\ worker[v].version \in Nat
        BY <1>1, <3>1 DEF LeaseInv, KnownInv, WorkersKnown, Worker
      <3>3. worker[v].batch # b
        BY <1>3, <1>5, <1>7, <3>1, <3>2
      <3>4. row'[worker[v].batch] = row[worker[v].batch]
        BY <1>5, <3>2, <3>3
      <3> QED
        BY <3>1, <3>4 DEF AttemptsInv, ClaimCurrent
    <2> QED
      BY <2>1, <2>2
  <1>9. ASSUME NEW a \in Batches PROVE AttemptOK(a)'
    <2>1. AttemptOK(a)
      BY DEF AttemptsInv
    <2>2. CASE a = b
      <3>1. ~Adrift(b)'
        BY <1>3, <1>4, <1>5, <1>6 DEF Adrift, Attended
      <3> QED
        BY <1>1, <1>2, <1>3, <1>5, <1>7, <2>1, <2>2, <3>1, ConstantsAssumption DEF AttemptOK
    <2>3. CASE a # b
      <3>1. row'[a] = row[a]
        BY <1>5, <2>3
      <3>2. Adrift(a)' = Adrift(a)
        BY <1>2, <1>4, <1>6, <2>3, <3>1 DEF Adrift, Attended
      <3> QED
        BY <1>2, <2>1, <3>1, <3>2 DEF AttemptOK
    <2> QED
      BY <2>2, <2>3
  <1> QED
    BY <1>8, <1>9 DEF AttemptsInv

\* A goroutine that settles or requeues its batch while it holds the lease: it
\* requeues only with an attempt left.
LEMMA ReturnAttempts ==
  ASSUME LeaseInv, AttemptsInv, NEW w \in Workers, Busy(w), Holds(w), NEW r,
         row' = [row EXCEPT ![worker[w].batch] = r], r.version = row[worker[w].batch].version,
         r.attempts = row[worker[w].batch].attempts,
         \/ r.status \in {"succeeded", "failed"}
         \/ r.status = "queued" /\ worker[w].attempts < BatchMaxAttempts,
         faults' = faults \/ faults' = faults + 1, \A v \in Workers : SameClaim(v),
         \A v \in Workers : v # w => worker'[v] = worker[v]
  PROVE  AttemptsInv'
  <1> DEFINE b == worker[w].batch
  <1>1. b \in Batches /\ row[b] \in Row /\ worker[w].attempts = row[b].attempts
    BY DEF LeaseInv, KnownInv, WorkersKnown, TypeOK, AttemptsInv, ClaimCurrent, Holds
  <1>2. row[b].version \in Nat /\ row[b].attempts \in Nat /\ BatchMaxAttempts \in Nat
          /\ row[b].attempts <= row[b].version
    BY <1>1, ConstantsAssumption DEF Row, AttemptsInv, AttemptOK
  <1>3. r.status = "queued" => 2 * row[b].attempts < BatchMaxAttempts + row[b].version
    BY <1>1, <1>2
  <1>4. \A v \in Workers : worker[v].batch # b => worker'[v] = worker[v]
    OBVIOUS
  <1>5. r.status # "processing" /\ r.status \notin {"none", "draft"}
    OBVIOUS
  <1> HIDE DEF b
  <1>6. row' = [row EXCEPT ![b] = r] /\ r.version = row[b].version /\ r.attempts = row[b].attempts
    BY DEF b
  <1> QED
    BY <1>1, <1>3, <1>4, <1>5, <1>6, OneRowKept

LEMMA EndedClaims ==
  ASSUME LeaseInv, NEW w \in Workers, Finish(w)
  PROVE  \A v \in Workers : SameClaim(v) /\ (v # w => worker'[v] = worker[v])
  <1>1. worker \in [Workers -> Worker]
    BY DEF LeaseInv, KnownInv, TypeOK
  <1>2. worker'[w] = IdleWorker /\ \A v \in Workers : v # w => worker'[v] = worker[v]
    BY <1>1 DEF Finish
  <1> QED
    BY <1>2 DEF SameClaim, Busy, IdleWorker

\* The steps of a goroutine that leave its row alone and go on.
LEMMA ProgressAttempts ==
  ASSUME LeaseInv, AttemptsInv, NEW w \in Workers,
         LookupUser(w) \/ LookupRoutes(w) \/ ApplyVerify(w) \/ ApplyLockCards(w)
           \/ ControlUnavailable(w) \/ ApplyError(w) \/ ReportLost(w)
  PROVE  AttemptsInv'
  <1>1. row' = row /\ Busy(w)
    BY DEF LookupUser, LookupRoutes, ApplyVerify, ApplyLockCards, ControlUnavailable, ApplyError,
       ReportLost, dbVars, Busy
  <1>2. ASSUME ~Finish(w) PROVE \A v \in Workers : SameClaim(v) /\ (Busy(v) => Busy(v)')
    <2>1. CASE LookupUser(w)
      BY <1>1, <2>1, GoesOn DEF LookupUser, Steps
    <2>2. CASE LookupRoutes(w)
      BY <1>1, <2>2, GoesOn DEF LookupRoutes, Steps
    <2>3. CASE ApplyVerify(w)
      BY <1>1, <1>2, <2>3, GoesOn DEF ApplyVerify, Steps
    <2>4. CASE ApplyLockCards(w)
      BY <1>1, <2>4, GoesOn DEF ApplyLockCards, Steps
    <2>5. CASE ControlUnavailable(w)
      BY <1>1, <2>5, GoesOn DEF ControlUnavailable
    <2>6. CASE ApplyError(w)
      BY <1>1, <2>6, GoesOn DEF ApplyError, AfterError
    <2>7. CASE ReportLost(w)
      BY <1>2, <2>7 DEF ReportLost
    <2> QED
      BY <2>1, <2>2, <2>3, <2>4, <2>5, <2>6, <2>7
  <1>3. faults' = faults \/ faults' = faults + 1
    BY DEF LookupUser, LookupRoutes, ApplyVerify, ApplyLockCards, ControlUnavailable, ApplyError,
       ReportLost
  <1>4. CASE ~Finish(w)
    BY <1>1, <1>2, <1>3, <1>4, RowsStay
  <1>5. CASE Finish(w)
    <2>1. CASE faults' = faults + 1
      BY <1>1, <1>5, <2>1, EndedClaims, RowsStay
    <2>2. CASE faults' = faults
      <3>1. faults' # faults + 1
        BY <2>2 DEF LeaseInv, KnownInv, TypeOK
      <3>2. worker'[w].pc = "idle"
        BY <1>5 DEF Finish, IdleWorker, LeaseInv, KnownInv, TypeOK
      <3>3. CASE ApplyVerify(w)
        <4>1. ~Holds(w)
          <5>1. ASSUME Goto(w, "verified") PROVE FALSE
            BY <1>1, <3>2, <5>1, GoesOn DEF Busy, Steps
          <5> QED
            BY <3>3, <5>1 DEF ApplyVerify
        <4> QED
          BY <1>1, <1>5, <2>2, <4>1, EndsWithout
      <3>4. CASE LookupUser(w) \/ LookupRoutes(w) \/ ApplyLockCards(w)
        <4>1. Busy(w)'
          <5>1. CASE LookupUser(w)
            BY <1>1, <5>1, GoesOn DEF LookupUser, Steps
          <5>2. CASE LookupRoutes(w)
            BY <1>1, <5>2, GoesOn DEF LookupRoutes, Steps
          <5>3. CASE ApplyLockCards(w)
            BY <1>1, <5>3, GoesOn DEF ApplyLockCards, Steps
          <5> QED
            BY <3>4, <5>1, <5>2, <5>3
        <4> QED
          BY <3>2, <4>1 DEF Busy
      <3> QED
        BY <3>1, <3>3, <3>4 DEF ControlUnavailable, ApplyError, ReportLost
    <2> QED
      BY <1>3, <2>1, <2>2
  <1> QED
    BY <1>4, <1>5

\* The steps that give a batch back.
LEMMA SettlingAttempts ==
  ASSUME LeaseInv, AttemptsInv, NEW w \in Workers,
         ApplyCommit(w) \/ ApplyCommitUnacknowledged(w) \/ ReportFailure(w) \/ RetryBatch(w)
  PROVE  AttemptsInv'
  <1> DEFINE b == worker[w].batch
  <1>1. Busy(w) /\ (faults' = faults \/ faults' = faults + 1)
    BY DEF ApplyCommit, ApplyCommitUnacknowledged, ReportFailure, RetryBatch, Busy
  <1>2. b \in Batches /\ row[b] \in Row
    BY <1>1 DEF LeaseInv, KnownInv, WorkersKnown, TypeOK
  <1>3. \A v \in Workers : SameClaim(v) /\ (v # w => worker'[v] = worker[v])
    <2>1. CASE Finish(w)
      BY <2>1, EndedClaims
    <2>2. CASE AfterError(w)
      <3>1. worker \in [Workers -> Worker]
        BY DEF LeaseInv, KnownInv, TypeOK
      <3>2. \A v \in Workers : v # w => worker'[v] = worker[v]
        BY <2>2, <3>1 DEF AfterError, GotoRetry, GotoFail
      <3> QED
        BY <1>1, <2>2, <3>2, GoesOn DEF AfterError
    <2> QED
      BY <2>1, <2>2 DEF ApplyCommit, ApplyCommitUnacknowledged, ReportFailure, RetryBatch
  <1> DEFINE Back(r) == /\ row' = [row EXCEPT ![b] = r] /\ r.version = row[b].version
                        /\ r.attempts = row[b].attempts
                        /\ \/ r.status \in {"succeeded", "failed"}
                           \/ r.status = "queued" /\ worker[w].attempts < BatchMaxAttempts
  <1>4. ASSUME NEW r, Back(r), Holds(w) PROVE AttemptsInv'
    BY <1>1, <1>3, <1>4, ReturnAttempts
  <1>5. ASSUME ApplyEffects(w) PROVE \E r : Back(r)
    <2>1. Back([Released(row[b], "succeeded") EXCEPT !.applied = Cardinality(Applied(w)),
                                                     !.ignored = Cardinality(Ignored(w))])
      BY <1>2, <1>5, RewrittenRows DEF ApplyEffects, BatchStates
    <2> QED
      BY <2>1
  <1>6. ASSUME NEW code, FailEffects(w, code) PROVE \E r : Back(r)
    <2> DEFINE ignored == {c \in Items(w) : card[c] = Target(w)}
    <2>1. Back([Released(row[b], "failed") EXCEPT !.ignored = Cardinality(ignored), !.applied = 0,
                                                  !.failure = code])
      BY <1>2, <1>6, RewrittenRows DEF FailEffects, BatchStates
    <2> QED
      BY <2>1
  <1>7. ASSUME RequeueEffects(w), worker[w].attempts < BatchMaxAttempts PROVE \E r : Back(r)
    <2>1. Back([Released(row[b], "queued") EXCEPT !.due = FALSE, !.failure = worker[w].code])
      BY <1>2, <1>7, RewrittenRows DEF RequeueEffects, BatchStates
    <2> QED
      BY <2>1
  <1> HIDE DEF Back
  <1>8. CASE ApplyCommit(w)
    BY <1>1, <1>4, <1>5, <1>8, EndsWithout DEF ApplyCommit, dbVars
  <1>9. CASE ApplyCommitUnacknowledged(w)
    BY <1>4, <1>5, <1>9 DEF ApplyCommitUnacknowledged
  <1>10. CASE ReportFailure(w)
    BY <1>1, <1>4, <1>6, <1>10, EndsWithout DEF ReportFailure, FailBatch, Fenced
  <1>11. CASE RetryBatch(w)
    BY <1>1, <1>4, <1>6, <1>7, <1>11, EndsWithout DEF RetryBatch, FailBatch, RequeueBatch, Fenced
  <1> QED
    BY <1>8, <1>9, <1>10, <1>11

\* A process that dies takes its goroutines along, which is a fault.
LEMMA ExitAttempts ==
  ASSUME LeaseInv, AttemptsInv, NEW e \in Executors, ExecutorExits(e)
  PROVE  AttemptsInv'
  <1>1. row' = row /\ faults' = faults + 1
    BY DEF ExecutorExits, dbVars
  <1>2. \A w \in Workers : SameClaim(w)
    BY DEF ExecutorExits, SameClaim, Busy, IdleWorker
  <1> QED
    BY <1>1, <1>2, RowsStay

LEMMA NextAttempts == LeaseInv /\ AttemptsInv /\ [Next]_vars => AttemptsInv'
  <1> SUFFICES ASSUME LeaseInv, AttemptsInv, [Next]_vars PROVE AttemptsInv'
    OBVIOUS
  <1>1. ASSUME UNCHANGED <<row, worker, faults>> PROVE AttemptsInv'
    BY <1>1, RowsStay DEF SameClaim, Busy
  <1>2. CASE ApiNext
    <2>1. CASE \E c \in Cards, action \in Commands : CardCommand(c, action)
      BY <1>1, <2>1 DEF CardCommand
    <2>2. CASE ~\E c \in Cards, action \in Commands : CardCommand(c, action)
      BY <1>2, <2>2, RequestAttempts DEF ApiNext, CreateCardStatusBatch, RetryCardStatusBatch
    <2> QED
      BY <2>1, <2>2
  <1>3. CASE ControlNext
    BY <1>1, <1>3 DEF ControlNext, UpdateUser, SetBankRouteStatus, dbVars
  <1>4. ASSUME NEW e \in Executors, ListBanks(e) \/ SkipBank(e) PROVE AttemptsInv'
    BY <1>1, <1>4 DEF ListBanks, SkipBank, dbVars
  <1>5. CASE CycleNext
    BY <1>4, <1>5, RecoverAttempts, ClaimAttempts DEF CycleNext
  <1>6. CASE TimeNext
    BY <1>6, ExpiryAttempts, RequestAttempts DEF TimeNext
  <1>7. ASSUME NEW w \in Workers, RunBatch(w) \/ Errors(w) PROVE AttemptsInv'
    BY <1>7, ProgressAttempts, SettlingAttempts DEF RunBatch, Errors
  <1>8. CASE UNCHANGED vars
    BY <1>1, <1>8 DEF vars
  <1> QED
    BY <1>2, <1>3, <1>5, <1>6, <1>7, <1>8, ExitAttempts DEF Next

\* However often executors die and leases run out, a batch is attempted past
\* the configured number only for recoveries, and recovered only for faults.
THEOREM AccountedAttempts == Spec => []AttemptsAccounted
  <1>1. LeaseInv /\ AttemptsInv => AttemptsAccounted
    <2> SUFFICES ASSUME LeaseInv, AttemptsInv, NEW b \in Batches
                 PROVE  /\ row[b].attempts <= BatchMaxAttempts + Recoveries(b)
                        /\ Recoveries(b) <= faults
      BY DEF AttemptsAccounted
    <2>1. row[b].version \in Nat /\ row[b].attempts \in Nat /\ BatchMaxAttempts \in Nat /\ AttemptOK(b)
      BY ConstantsAssumption DEF LeaseInv, KnownInv, TypeOK, Row, AttemptsInv
    <2> QED
      BY <2>1 DEF AttemptOK, Recoveries
  <1> QED
    BY <1>1, InitAttempts, NextAttempts, LeaseInvariant, PTL DEF Spec
=============================================================================
