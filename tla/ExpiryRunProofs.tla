-------------------------- MODULE ExpiryRunProofs --------------------------
(***************************************************************************)
(* The daily expiry runs, proved for any cards, days, daemons, goroutines, *)
(* limits and manual retries: ExpiredOnce, RetriesBounded, FinalIsFinal    *)
(* and CompletedRunsAreSettled of ExpiryRun.                               *)
(***************************************************************************)
EXTENDS ExpiryRun, FiniteSetTheorems, TLAPS

-----------------------------------------------------------------------------
(* The invariant *)

\* The goroutine has locked its item, or its card as well.
Locks(h) == h.pc \in {"verified", "judged", "prepared"}
LocksCard(h) == h.pc \in {"judged", "prepared"} /\ h.result \in Final

\* What a goroutine may rely on: only it holds the version it has claimed, and
\* under its locks neither the item nor the card changes.
WorkerOK(h) ==
  h.pc # "idle" =>
    LET r == item[h.item] IN
    /\ h.item \in Items /\ h.version <= r.version
    /\ r.status = "processing" /\ h.version = r.version => h.automatic = r.automatic
    /\ Locks(h) => r.status = "processing" /\ h.version = r.version
    /\ h.pc = "judged" => h.result \in Final
    /\ h.pc = "prepared" => h.result \in Final \cup {AfterFailure(h.automatic)}
    /\ LocksCard(h) => (card[h.item[2]] = "expired" <=> h.result # "expired")

Apart(h, g) ==
  /\ Locks(h) /\ Locks(g) => h.item # g.item
  /\ LocksCard(h) /\ LocksCard(g) => h.item[2] # g.item[2]

WorkersOK ==
  /\ \A w \in Workers : WorkerOK(worker[w])
  /\ \A w, v \in Workers : w # v => Apart(worker[w], worker[v])

RetryOK ==
  retry # None => retry.item \in Items /\ item[retry.item].status = "manual_retry_required"

\* Claims and attempts, counted against the retries granted so far.
ItemOK(r, n) ==
  /\ r.status = "none" => n = 0 /\ r.version = 0
  /\ r.attempts + (IF r.status = "processing" THEN 1 ELSE 0) <= n
  /\ n <= r.automatic + r.manual + (IF r.status \in {"none", "pending"} THEN 0 ELSE 1)
  /\ r.status = "manual_retry_required" => r.automatic = AutomaticRetries

ItemsOK == \A i \in Items : ItemOK(item[i], claims[i])

\* The history of a card, and the items that were skipped.
CardOK(c) ==
  /\ expiredBy[c] = {i \in Items : i[2] = c /\ item[i].status = "expired"}
  /\ IF card[c] = "expired"
       THEN \E i \in Items : expiredBy[c] = {i}
       ELSE /\ expiredBy[c] = {}
            /\ \A i \in Items : i[2] = c => item[i].status # "skipped_already_expired"

CardsOK == \A c \in Cards : CardOK(c)

ExpiryInv == TypeOK /\ WorkersOK /\ RetryOK /\ ItemsOK /\ CardsOK

\* The items of a run that are scheduled.
Scheduled(d) == {i \in ItemsOf(d) : item[i].status # "none"}

\* f gives the items of a day but those of X the status they have or, if their
\* retry found the run not completed, the one they had before it.
Past(d, f, X) ==
  \A i \in ItemsOf(d) \ X :
     \/ f[i] = item[i].status
     \/ f[i] = "manual_retry_required" /\ item[i].status # "none" /\ i[2] \in run[d].late

Accounts(d, f, tally) == (\A i \in ItemsOf(d) : f[i] \notin Open) /\ tally = TallyOf(d, f)

\* A run counts the items scheduled and, completed, accounts for them.
RunOK(d) ==
  /\ run[d].count = Cardinality(Scheduled(d))
  /\ run[d].status = "completed" => \E f : Past(d, f, {}) /\ Accounts(d, f, run[d].tally)

\* A goroutine about to complete its run, and what its commit will publish.
Closing(h) == h.pc = "prepared" /\ h.completes

ClosingOK(h) ==
  Closing(h) =>
    LET d == h.item[1] IN
    /\ run[d].status = "processing"
    /\ \E f : Past(d, f, {h.item}) /\ f[h.item] = h.result /\ Accounts(d, f, h.tally)

\* The row of its run is locked by one goroutine that completes it at a time.
OneCloses ==
  \A w, v \in Workers : Closing(worker[w]) /\ Closing(worker[v]) /\ w # v
                          => worker[w].item[1] # worker[v].item[1]

\* The run of a manual retry stays completed under its lock, or it was not.
RetryRun ==
  retry # None =>
    LET q == run[retry.item[1]] IN
    IF retry.reopens THEN q.status = "completed" ELSE retry.item[2] \in q.late

SettledInv ==
  /\ \A d \in Days : RunOK(d)
  /\ \A w \in Workers : ClosingOK(worker[w])
  /\ OneCloses /\ RetryRun

-----------------------------------------------------------------------------
(* The life of an item *)

\* A version that is claimed again is another one, and what is final stays.
ForwardRow(r, s) ==
  /\ r.version <= s.version
  /\ s.status = "processing" /\ s.version = r.version
       => r.status = "processing" /\ s.automatic = r.automatic
  /\ r.status \in Final => s = r

SameResult(r, s) == \A x \in Final : r.status = x <=> s.status = x

LEMMA RowKept ==
  ASSUME NEW r \in Item
  PROVE  ForwardRow(r, r) /\ SameResult(r, r)
BY DEF ForwardRow, SameResult, Item

LEMMA RowCreated ==
  ASSUME NEW r \in Item, NEW n \in Nat, ItemOK(r, n), r.status = "none",
         NEW s, s = [NewItem EXCEPT !.status = "pending", !.due = TRUE]
  PROVE  s \in Item /\ ItemOK(s, n) /\ ForwardRow(r, s) /\ SameResult(r, s) /\ s.status = "pending"
<1>1. AutomaticRetries \in Nat
  BY ExpiryAssumption
<1>2. NewItem \in Item /\ "pending" \in ItemStates
  BY <1>1 DEF NewItem, Item, ItemStates, Open
<1>3. s \in Item
  BY <1>2 DEF Item
<1>4. n = 0 /\ r.version = 0
  BY DEF ItemOK
<1>5. s.status = "pending" /\ s.attempts = 0 /\ s.automatic = 0 /\ s.manual = 0 /\ s.version = 0
  BY DEF NewItem
<1>6. ItemOK(s, n)
  BY <1>4, <1>5 DEF ItemOK
<1> QED
  BY <1>3, <1>4, <1>5, <1>6 DEF ForwardRow, SameResult, Final

\* What ClaimExpiryItem makes of a row.
ClaimedRow(r, e) ==
  [r EXCEPT !.status = "processing", !.owner = e, !.current = TRUE, !.version = @ + 1]

LEMMA RowClaimed ==
  ASSUME NEW r \in Item, NEW n \in Nat, ItemOK(r, n), r.status = "pending", NEW e \in Executors,
         NEW s, s = ClaimedRow(r, e)
  PROVE  /\ s \in Item /\ ItemOK(s, n + 1) /\ ForwardRow(r, s) /\ SameResult(r, s)
         /\ s.status = "processing" /\ s.version = r.version + 1 /\ s.automatic = r.automatic
<1>1. s \in Item
  <2>1. "processing" \in ItemStates
    BY DEF ItemStates, Open
  <2>2. PICK m \in Nat : m = r.version + 1
    BY DEF Item
  <2>3. s = [r EXCEPT !.status = "processing", !.owner = e, !.current = TRUE, !.version = m]
    BY <2>2 DEF ClaimedRow
  <2> QED
    BY <2>1, <2>3 DEF Item
<1>2. /\ s.status = "processing" /\ s.version = r.version + 1 /\ s.automatic = r.automatic
      /\ s.attempts = r.attempts /\ s.manual = r.manual
  BY DEF Item, ClaimedRow
<1>3. r.version \in Nat /\ r.attempts \in Nat /\ r.automatic \in Nat /\ r.manual \in Nat
  BY ExpiryAssumption DEF Item
<1>4. ItemOK(s, n + 1)
  BY <1>2, <1>3 DEF ItemOK
<1> QED
  BY <1>1, <1>2, <1>3, <1>4 DEF ForwardRow, SameResult, Final

LEMMA RowFailed ==
  ASSUME NEW r \in Item, NEW n \in Nat, ItemOK(r, n), r.status = "processing", NEW recovered \in BOOLEAN,
         NEW x, x = AfterFailure(r.automatic), NEW s, s = FailedItem(r, x, recovered)
  PROVE  s \in Item /\ ItemOK(s, n) /\ ForwardRow(r, s) /\ SameResult(r, s) /\ s.status = x
<1>1. /\ r.version \in Nat /\ r.attempts \in Nat /\ r.automatic \in 0..AutomaticRetries /\ r.manual \in Nat
      /\ AutomaticRetries \in Nat
  BY ExpiryAssumption DEF Item
<1>2. x \in {"pending", "manual_retry_required"}
  BY DEF AfterFailure
<1>3. x = "pending" => r.automatic + 1 \in 0..AutomaticRetries
  BY <1>1 DEF AfterFailure
<1>4. x # "pending" => r.automatic = AutomaticRetries
  BY <1>1 DEF AfterFailure
<1>5. PICK a \in 0..AutomaticRetries : a = IF x = "pending" THEN r.automatic + 1 ELSE r.automatic
  BY <1>1, <1>3
<1>6. PICK v \in Nat : v = IF recovered THEN r.version + 1 ELSE r.version
  BY <1>1
<1>7. s = [r EXCEPT !.status = x, !.attempts = @ + 1, !.owner = None, !.current = FALSE,
                    !.automatic = a, !.version = v, !.due = recovered]
  BY <1>5, <1>6 DEF FailedItem
<1>8. s \in Item
  <2>1. x \in ItemStates
    BY <1>2 DEF ItemStates, Open, Settled
  <2>2. PICK m \in Nat : m = r.attempts + 1
    BY <1>1
  <2>3. s = [r EXCEPT !.status = x, !.attempts = m, !.owner = None, !.current = FALSE,
                      !.automatic = a, !.version = v, !.due = recovered]
    BY <1>7, <2>2
  <2> QED
    BY <2>1, <2>3 DEF Item
<1>9. /\ s.status = x /\ s.attempts = r.attempts + 1 /\ s.automatic = a /\ s.version = v
      /\ s.manual = r.manual
  BY <1>7 DEF Item
<1>10. ItemOK(s, n)
  <2>1. r.attempts + 1 <= n /\ n <= r.automatic + r.manual + 1
    BY DEF ItemOK
  <2> QED
    BY <1>1, <1>2, <1>4, <1>5, <1>9, <2>1 DEF ItemOK
<1>11. r.version <= s.version
  BY <1>1, <1>6, <1>9
<1> QED
  BY <1>2, <1>8, <1>9, <1>10, <1>11 DEF ForwardRow, SameResult, Final

LEMMA RowDone ==
  ASSUME NEW r \in Item, NEW n \in Nat, ItemOK(r, n), r.status = "processing", NEW x \in Final,
         NEW s, s = DoneItem(r, x)
  PROVE  s \in Item /\ ItemOK(s, n) /\ ForwardRow(r, s) /\ s.status = x
<1>1. r.version \in Nat /\ r.attempts \in Nat /\ r.automatic \in Nat /\ r.manual \in Nat
  BY ExpiryAssumption DEF Item
<1>2. s \in Item
  <2>1. x \in ItemStates
    BY DEF ItemStates, Settled, Final
  <2>2. PICK m \in Nat : m = r.attempts + 1
    BY <1>1
  <2>3. s = [r EXCEPT !.status = x, !.attempts = m, !.owner = None, !.current = FALSE]
    BY <2>2 DEF DoneItem
  <2> QED
    BY <2>1, <2>3 DEF Item
<1>3. /\ s.status = x /\ s.attempts = r.attempts + 1 /\ s.automatic = r.automatic
      /\ s.version = r.version /\ s.manual = r.manual
  BY DEF Item, DoneItem
<1>4. x # "processing" /\ x # "pending" /\ x # "none" /\ x # "manual_retry_required"
  BY DEF Final
<1>5. ItemOK(s, n)
  BY <1>1, <1>3, <1>4 DEF ItemOK
<1> QED
  BY <1>1, <1>2, <1>3, <1>4, <1>5 DEF ForwardRow, Final

LEMMA RowRetried ==
  ASSUME NEW r \in Item, NEW n \in Nat, ItemOK(r, n), r.status = "manual_retry_required",
         NEW s, s = [r EXCEPT !.status = "pending", !.due = TRUE, !.manual = @ + 1]
  PROVE  s \in Item /\ ItemOK(s, n) /\ ForwardRow(r, s) /\ SameResult(r, s)
<1>1. r.version \in Nat /\ r.attempts \in Nat /\ r.automatic \in Nat /\ r.manual \in Nat
  BY ExpiryAssumption DEF Item
<1>2. s \in Item
  <2>1. "pending" \in ItemStates
    BY DEF ItemStates, Open
  <2>2. PICK m \in Nat : m = r.manual + 1
    BY <1>1
  <2>3. s = [r EXCEPT !.status = "pending", !.due = TRUE, !.manual = m]
    BY <2>2
  <2> QED
    BY <2>1, <2>3 DEF Item
<1>3. /\ s.status = "pending" /\ s.attempts = r.attempts /\ s.automatic = r.automatic
      /\ s.version = r.version /\ s.manual = r.manual + 1
  BY DEF Item
<1>4. ItemOK(s, n)
  BY <1>1, <1>3 DEF ItemOK
<1> QED
  BY <1>1, <1>2, <1>3, <1>4 DEF ForwardRow, SameResult, Final

\* A lease or a backoff runs out.
LEMMA RowAged ==
  ASSUME NEW r \in Item, NEW n \in Nat, ItemOK(r, n), r.status \in Open, NEW s,
         s = [r EXCEPT !.current = FALSE] \/ s = [r EXCEPT !.due = TRUE]
  PROVE  /\ s \in Item /\ ItemOK(s, n) /\ ForwardRow(r, s) /\ SameResult(r, s)
         /\ s.status = r.status /\ s.version = r.version
<1>1. r.version \in Nat
  BY DEF Item
<1>2. s \in Item
  BY DEF Item
<1>3. /\ s.status = r.status /\ s.attempts = r.attempts /\ s.automatic = r.automatic
      /\ s.version = r.version /\ s.manual = r.manual
  BY DEF Item
<1>4. ItemOK(s, n)
  BY <1>3 DEF ItemOK
<1> QED
  BY <1>1, <1>2, <1>3, <1>4 DEF ForwardRow, SameResult, Final, Open

-----------------------------------------------------------------------------
(* What the others see of a step *)

Steady(i) == item'[i].status = item[i].status /\ item'[i].version = item[i].version
SameCard(c) == card'[c] = "expired" <=> card[c] = "expired"

LEMMA WorkerKept ==
  ASSUME NEW h \in Worker, WorkerOK(h),
         h.pc # "idle" => /\ item[h.item] \in Item /\ item'[h.item] \in Item
                          /\ ForwardRow(item[h.item], item'[h.item]),
         Locks(h) => Steady(h.item),
         LocksCard(h) => SameCard(h.item[2])
  PROVE  WorkerOK(h)'
<1> SUFFICES ASSUME h.pc # "idle" PROVE WorkerOK(h)'
  BY DEF WorkerOK
<1>1. PICK r \in Item, s \in Item : r = item[h.item] /\ s = item'[h.item]
  OBVIOUS
<1>2. /\ h.item \in Items /\ h.version <= r.version
      /\ r.status = "processing" /\ h.version = r.version => h.automatic = r.automatic
      /\ Locks(h) => r.status = "processing" /\ h.version = r.version
  BY <1>1 DEF WorkerOK
<1>3. h.version \in Nat /\ r.version \in Nat /\ s.version \in Nat
  BY DEF Worker, Item
<1>4. h.version <= s.version
  BY <1>1, <1>2, <1>3 DEF ForwardRow
<1>5. s.status = "processing" /\ h.version = s.version => h.automatic = s.automatic
  BY <1>1, <1>2, <1>3 DEF ForwardRow
<1>6. Locks(h) => s.status = "processing" /\ h.version = s.version
  BY <1>1, <1>2 DEF Steady
<1>7. LocksCard(h) => (card'[h.item[2]] = "expired" <=> h.result # "expired")
  BY DEF WorkerOK, SameCard
<1>8. /\ h.pc = "judged" => h.result \in Final
      /\ h.pc = "prepared" => h.result \in Final \cup {AfterFailure(h.automatic)}
  BY DEF WorkerOK
<1> QED
  BY <1>1, <1>2, <1>4, <1>5, <1>6, <1>7, <1>8 DEF WorkerOK

LEMMA IdleIsOK ==
  /\ IdleWorker \in Worker /\ WorkerOK(IdleWorker) /\ WorkerOK(IdleWorker)'
  /\ \A g : Apart(IdleWorker, g) /\ Apart(g, IdleWorker)
<1>1. IdleWorker \in Worker
  BY DEF IdleWorker, Worker, ItemStates, NoTally, Tally
<1>2. IdleWorker.pc = "idle"
  BY DEF IdleWorker
<1> QED
  BY <1>1, <1>2 DEF WorkerOK, Apart, Locks, LocksCard

\* Goroutines end or stay as they are.
LEMMA QuietStep ==
  ASSUME ExpiryInv, TypeOK', RetryOK', CardsOK',
         \A i \in Items : ForwardRow(item[i], item'[i]) /\ ItemOK(item[i], claims[i])',
         \A v \in Workers :
           \/ worker'[v] = IdleWorker
           \/ /\ worker'[v] = worker[v]
              /\ Locks(worker[v]) => Steady(worker[v].item)
              /\ LocksCard(worker[v]) => SameCard(worker[v].item[2])
  PROVE  ExpiryInv'
<1>1. TypeOK /\ WorkersOK
  BY DEF ExpiryInv
<1>2. ASSUME NEW v \in Workers PROVE WorkerOK(worker[v])'
  <2>1. CASE worker'[v] = IdleWorker
    BY <2>1 DEF WorkerOK, IdleWorker
  <2>2. CASE worker'[v] # IdleWorker
    <3>1. PICK h \in Worker : h = worker[v]
      BY <1>1 DEF TypeOK
    <3>2. /\ WorkerOK(h) /\ worker'[v] = h /\ (Locks(h) => Steady(h.item))
          /\ LocksCard(h) => SameCard(h.item[2])
      BY <1>1, <2>2, <3>1 DEF WorkersOK
    <3>3. h.pc # "idle" => h.item \in Items
      BY <3>2 DEF WorkerOK
    <3>4. h.pc # "idle" => /\ item[h.item] \in Item /\ item'[h.item] \in Item
                           /\ ForwardRow(item[h.item], item'[h.item])
      BY <1>1, <3>3 DEF TypeOK
    <3>5. WorkerOK(h)'
      BY <3>2, <3>4, WorkerKept
    <3> QED
      BY <3>2, <3>5 DEF WorkerOK, Locks, LocksCard
  <2> QED
    BY <2>1, <2>2
<1>3. \A v, u \in Workers : v # u => Apart(worker'[v], worker'[u])
  BY <1>1, IdleIsOK DEF WorkersOK
<1>4. WorkersOK'
  BY <1>2, <1>3 DEF WorkersOK, Apart, Locks, LocksCard
<1> QED
  BY <1>4 DEF ExpiryInv, ItemsOK

\* One goroutine moves.
LEMMA MoveStep ==
  ASSUME ExpiryInv, TypeOK', RetryOK', CardsOK',
         \A i \in Items : ForwardRow(item[i], item'[i]) /\ ItemOK(item[i], claims[i])',
         NEW w \in Workers, NEW g \in Worker, worker' = [worker EXCEPT ![w] = g], WorkerOK(g)',
         \A v \in Workers : v # w =>
           /\ Apart(g, worker[v])
           /\ Locks(worker[v]) => Steady(worker[v].item)
           /\ LocksCard(worker[v]) => SameCard(worker[v].item[2])
  PROVE  ExpiryInv'
<1>1. TypeOK /\ WorkersOK
  BY DEF ExpiryInv
<1>2. worker'[w] = g /\ \A v \in Workers : v # w => worker'[v] = worker[v]
  BY <1>1 DEF TypeOK
<1>3. ASSUME NEW v \in Workers PROVE WorkerOK(worker[v])'
  <2>1. CASE v = w
    BY <1>2, <2>1 DEF WorkerOK, Locks, LocksCard
  <2>2. CASE v # w
    <3>1. PICK h \in Worker : h = worker[v]
      BY <1>1 DEF TypeOK
    <3>2. /\ WorkerOK(h) /\ worker'[v] = h /\ (Locks(h) => Steady(h.item))
          /\ LocksCard(h) => SameCard(h.item[2])
      BY <1>1, <1>2, <2>2, <3>1 DEF WorkersOK
    <3>3. h.pc # "idle" => h.item \in Items
      BY <3>2 DEF WorkerOK
    <3>4. h.pc # "idle" => /\ item[h.item] \in Item /\ item'[h.item] \in Item
                           /\ ForwardRow(item[h.item], item'[h.item])
      BY <1>1, <3>3 DEF TypeOK
    <3>5. WorkerOK(h)'
      BY <3>2, <3>4, WorkerKept
    <3> QED
      BY <3>2, <3>5 DEF WorkerOK, Locks, LocksCard
  <2> QED
    BY <2>1, <2>2
<1>4. \A h : Apart(g, h) => Apart(h, g)
  BY DEF Apart
<1>5. \A v, u \in Workers : v # u => Apart(worker'[v], worker'[u])
  BY <1>1, <1>2, <1>4 DEF WorkersOK
<1>6. WorkersOK'
  BY <1>3, <1>5 DEF WorkersOK, Apart, Locks, LocksCard
<1> QED
  BY <1>6 DEF ExpiryInv, ItemsOK

\* No item gets or loses a result.
LEMMA CardsKept ==
  ASSUME CardsOK, UNCHANGED expiredBy, \A i \in Items : SameResult(item[i], item'[i]),
         \A c \in Cards : SameCard(c)
  PROVE  CardsOK'
<1> SUFFICES ASSUME NEW c \in Cards PROVE CardOK(c)'
  BY DEF CardsOK
<1>1. CardOK(c) /\ SameCard(c)
  BY DEF CardsOK
<1>2. \A i \in Items : /\ item'[i].status = "expired" <=> item[i].status = "expired"
                       /\ item'[i].status = "skipped_already_expired" <=> item[i].status = "skipped_already_expired"
  BY DEF SameResult, Final
<1> QED
  BY <1>1, <1>2 DEF CardOK, SameCard

-----------------------------------------------------------------------------
(* Steps that change no row *)

\* A step goes forward when every item does.
StepsForward == ExpiryInv' /\ \A i \in Items : ForwardRow(item[i], item'[i])

LEMMA RowsUntouched ==
  ASSUME ExpiryInv, UNCHANGED <<card, expiredBy, item, claims>>
  PROVE  /\ CardsOK'
         /\ \A i \in Items : ForwardRow(item[i], item'[i]) /\ ItemOK(item[i], claims[i])' /\ Steady(i)
         /\ \A c : SameCard(c)
<1>1. UNCHANGED <<card, expiredBy, item, claims>>
  OBVIOUS
<1>2. TypeOK /\ ItemsOK /\ CardsOK
  BY DEF ExpiryInv
<1>3. ASSUME NEW i \in Items
      PROVE  ForwardRow(item[i], item'[i]) /\ ItemOK(item[i], claims[i])' /\ Steady(i)
  <2>1. item[i] \in Item /\ item'[i] = item[i] /\ claims'[i] = claims[i] /\ ItemOK(item[i], claims[i])
    BY <1>1, <1>2 DEF TypeOK, ItemsOK
  <2> QED
    BY <2>1, RowKept DEF Steady, ItemOK
<1>4. CardsOK'
  BY <1>1, <1>2 DEF CardsOK, CardOK
<1> QED
  BY <1>1, <1>3, <1>4 DEF SameCard

LEMMA StillStep ==
  ASSUME ExpiryInv, UNCHANGED <<rowVars, claims>>, today' \in Days, faults' \in Nat,
         cycle' \in [Executors -> {"waiting", "ensured", "recovered"}],
         retry' = None \/ retry' = retry, worker' \in [Workers -> Worker],
         \A v \in Workers : worker'[v] = IdleWorker \/ worker'[v] = worker[v]
  PROVE  StepsForward
<1>1. TypeOK'
  BY DEF ExpiryInv, TypeOK, rowVars
<1>2. RetryOK'
  BY DEF ExpiryInv, RetryOK, rowVars
<1>3. \A v \in Workers : Locks(worker[v]) => worker[v].item \in Items
  BY DEF ExpiryInv, WorkersOK, WorkerOK, Locks
<1> QED
  BY <1>1, <1>2, <1>3, RowsUntouched, QuietStep DEF StepsForward, rowVars

LEMMA ProcessEndsStep ==
  ASSUME ExpiryInv, NEW e \in Executors, ProcessEnds(e), UNCHANGED <<rowVars, claims>>,
         today' = today, retry' = retry, faults' = faults \/ faults' = faults + 1
  PROVE  StepsForward
<1>1. TypeOK
  BY DEF ExpiryInv
<1>2. /\ worker' = [w \in Workers |-> IF Identity[w] = e THEN IdleWorker ELSE worker[w]]
      /\ cycle' = [cycle EXCEPT ![e] = "waiting"]
  BY DEF ProcessEnds
<1>3. worker' \in [Workers -> Worker] /\ \A v \in Workers : worker'[v] = IdleWorker \/ worker'[v] = worker[v]
  BY <1>1, <1>2, IdleIsOK DEF TypeOK
<1>4. cycle' \in [Executors -> {"waiting", "ensured", "recovered"}] /\ today' \in Days /\ faults' \in Nat
  BY <1>1, <1>2 DEF TypeOK
<1> QED
  BY <1>3, <1>4, StillStep

LEMMA FinishStep ==
  ASSUME ExpiryInv, NEW w \in Workers, Finish(w), UNCHANGED <<rowVars, claims>>,
         UNCHANGED <<today, cycle, retry>>, faults' = faults \/ faults' = faults + 1
  PROVE  StepsForward
<1>1. TypeOK
  BY DEF ExpiryInv
<1>2. worker' \in [Workers -> Worker] /\ \A v \in Workers : worker'[v] = IdleWorker \/ worker'[v] = worker[v]
  BY <1>1, IdleIsOK DEF Finish, TypeOK
<1>3. cycle' \in [Executors -> {"waiting", "ensured", "recovered"}] /\ today' \in Days /\ faults' \in Nat
  BY <1>1 DEF TypeOK
<1> QED
  BY <1>2, <1>3, StillStep

LEMMA ClockStep ==
  ASSUME ExpiryInv, MidnightPasses \/ RetryAborted
  PROVE  StepsForward
<1>1. TypeOK
  BY DEF ExpiryInv
<1>2. CASE MidnightPasses
  <2>1. today' \in Days
    <3>1. today \in 1..LastDay /\ LastDay \in Nat
      BY <1>1, ExpiryAssumption DEF TypeOK, Days
    <3> QED
      BY <1>2, <3>1 DEF MidnightPasses, Days
  <2> QED
    BY <1>1, <1>2, <2>1, StillStep DEF MidnightPasses, TypeOK
<1>3. CASE RetryAborted
  BY <1>1, <1>3, StillStep DEF RetryAborted, TypeOK
<1> QED
  BY <1>2, <1>3

\* The daemon's loop, and its end.
LEMMA LoopStep ==
  ASSUME ExpiryInv, NEW e \in Executors,
         SkipBank(e) \/ EnsureRaises(e) \/ RecoverRaises(e) \/ ExecutorExits(e)
  PROVE  StepsForward
<1>1. TypeOK
  BY DEF ExpiryInv
<1>2. CASE SkipBank(e)
  <2>1. cycle' \in [Executors -> {"waiting", "ensured", "recovered"}]
    BY <1>1, <1>2 DEF SkipBank, TypeOK
  <2> QED
    BY <1>1, <1>2, <2>1, StillStep DEF SkipBank, TypeOK
<1>3. CASE EnsureRaises(e) \/ RecoverRaises(e) \/ ExecutorExits(e)
  BY <1>3, ProcessEndsStep DEF EnsureRaises, RecoverRaises, ExecutorExits
<1> QED
  BY <1>2, <1>3

LEMMA ClaimRaisesStep ==
  ASSUME ExpiryInv, NEW w \in Workers, NEW i \in Items, ClaimRaises(w, i)
  PROVE  StepsForward
<1>1. Identity[w] \in Executors
  BY ExpiryAssumption
<1> QED
  BY <1>1, ProcessEndsStep DEF ClaimRaises

\* A goroutine moves on its own; it has locked what it relies on.
LEMMA WorkerStep ==
  ASSUME ExpiryInv, NEW w \in Workers, NEW g \in Worker, worker' = [worker EXCEPT ![w] = g],
         UNCHANGED <<rowVars, claims>>, UNCHANGED <<today, cycle, retry>>,
         faults' = faults \/ faults' = faults + 1,
         WorkerOK(g), \A v \in Workers : v # w => Apart(g, worker[v])
  PROVE  StepsForward
<1>1. TypeOK
  BY DEF ExpiryInv
<1>2. TypeOK'
  <2>1. worker' \in [Workers -> Worker] /\ faults' \in Nat
    BY <1>1 DEF TypeOK
  <2> QED
    BY <1>1, <2>1 DEF TypeOK, rowVars
<1>3. RetryOK' /\ WorkerOK(g)'
  BY DEF ExpiryInv, RetryOK, rowVars, WorkerOK, Locks, LocksCard
<1>4. \A v \in Workers : Locks(worker[v]) => worker[v].item \in Items
  BY DEF ExpiryInv, WorkersOK, WorkerOK, Locks
<1> QED
  BY <1>2, <1>3, <1>4, RowsUntouched, MoveStep DEF StepsForward, rowVars

\* An attempt that fails gives up its locks.
LEMMA GiveUpStep ==
  ASSUME ExpiryInv, NEW w \in Workers, worker[w].pc # "idle", Goto(w, "failed"),
         UNCHANGED <<rowVars, claims>>, UNCHANGED <<today, cycle, retry>>,
         faults' = faults \/ faults' = faults + 1
  PROVE  StepsForward
<1> DEFINE old == worker[w]
           new == [old EXCEPT !.pc = "failed"]
<1>1. TypeOK /\ old \in Worker /\ WorkerOK(old) /\ old.pc # "idle"
  BY DEF ExpiryInv, TypeOK, WorkersOK
<1>2. worker' = [worker EXCEPT ![w] = new]
  BY <1>1 DEF Goto, TypeOK
<1> HIDE DEF old
<1>3. new \in Worker
  BY <1>1 DEF Worker
<1>4. /\ new.pc = "failed" /\ new.item = old.item /\ new.version = old.version
      /\ new.automatic = old.automatic /\ new.result = old.result
  BY <1>1 DEF Worker
<1> HIDE DEF new
<1>5. WorkerOK(new) /\ ~Locks(new) /\ ~LocksCard(new)
  BY <1>1, <1>4 DEF WorkerOK, Locks, LocksCard
<1>6. \A v \in Workers : Apart(new, worker[v])
  BY <1>5 DEF Apart
<1> QED
  BY <1>2, <1>3, <1>5, <1>6, WorkerStep

\* The item is free: no goroutine has it locked.
LEMMA ItemFree ==
  ASSUME NEW i, ~ItemLocked(i), NEW v \in Workers, Locks(worker[v])
  PROVE  worker[v].item # i
BY DEF ItemLocked, Locks

LEMMA ApplyVerifyStep ==
  ASSUME ExpiryInv, NEW w \in Workers, ApplyVerify(w)
  PROVE  StepsForward
<1> DEFINE old == worker[w]
           new == [old EXCEPT !.pc = "verified"]
<1>1. TypeOK /\ old \in Worker /\ WorkerOK(old) /\ old.pc = "claimed"
  BY DEF ExpiryInv, TypeOK, WorkersOK, ApplyVerify
<1>2. /\ ~ItemLocked(old.item) /\ UNCHANGED <<rowVars, claims>> /\ UNCHANGED <<today, cycle, retry>>
      /\ faults' = faults /\ IF Holds(w) THEN Goto(w, "verified") ELSE Finish(w)
  BY DEF ApplyVerify
<1>3. CASE ~Holds(w)
  BY <1>2, <1>3, FinishStep
<1>4. CASE Holds(w)
  <2>1. worker' = [worker EXCEPT ![w] = new]
    BY <1>1, <1>2, <1>4 DEF Goto, TypeOK
  <2>2. item[old.item].status = "processing" /\ item[old.item].version = old.version
    BY <1>4 DEF Holds
  <2>3. \A v \in Workers : Locks(worker[v]) => worker[v].item # old.item
    BY <1>2, ItemFree
  <2> HIDE DEF old
  <2>4. new \in Worker
    BY <1>1 DEF Worker
  <2>5. /\ new.pc = "verified" /\ new.item = old.item /\ new.version = old.version
        /\ new.automatic = old.automatic /\ new.result = old.result
    BY <1>1 DEF Worker
  <2> HIDE DEF new
  <2>6. WorkerOK(new) /\ ~LocksCard(new)
    BY <1>1, <2>2, <2>5 DEF WorkerOK, LocksCard
  <2>7. \A v \in Workers : Apart(new, worker[v])
    BY <2>3, <2>5, <2>6 DEF Apart
  <2> QED
    BY <1>2, <2>1, <2>4, <2>6, <2>7, WorkerStep
<1> QED
  BY <1>3, <1>4

LEMMA ApplyJudgeStep ==
  ASSUME ExpiryInv, NEW w \in Workers, ApplyJudge(w)
  PROVE  StepsForward
<1> DEFINE old == worker[w]
           c == old.item[2]
           status == card[c]
<1>1. TypeOK /\ old \in Worker /\ WorkerOK(old) /\ old.pc = "verified"
  BY DEF ExpiryInv, TypeOK, WorkersOK, ApplyJudge
<1>2. /\ ~CardLocked(c) /\ UNCHANGED <<rowVars, claims>> /\ UNCHANGED <<today, cycle, retry>> /\ faults' = faults
      /\ \/ worker' = [worker EXCEPT ![w].pc = "judged", ![w].result =
                          IF status = "expired" THEN "skipped_already_expired" ELSE "expired"]
         \/ Goto(w, "failed")
  BY DEF ApplyJudge
<1>3. CASE Goto(w, "failed")
  BY <1>1, <1>2, <1>3, GiveUpStep
<1>4. CASE worker' = [worker EXCEPT ![w].pc = "judged", ![w].result =
                          IF status = "expired" THEN "skipped_already_expired" ELSE "expired"]
  <2>1. PICK x \in Final : x = IF status = "expired" THEN "skipped_already_expired" ELSE "expired"
    BY DEF Final
  <2> DEFINE new == [old EXCEPT !.pc = "judged", !.result = x]
  <2>2. worker' = [worker EXCEPT ![w] = new]
    BY <1>1, <1>4, <2>1 DEF TypeOK
  <2>3. \A v \in Workers : v # w => Apart(old, worker[v])
    BY DEF ExpiryInv, WorkersOK
  <2>4. \A v \in Workers : LocksCard(worker[v]) => worker[v].item[2] # old.item[2]
    BY <1>2 DEF CardLocked, LocksCard
  <2>5. Locks(old) /\ (card[old.item[2]] = "expired" <=> x # "expired")
    BY <1>1, <2>1 DEF Locks
  <2> HIDE DEF old
  <2>6. new \in Worker
    <3>1. x \in ItemStates
      BY DEF Final, ItemStates, Settled
    <3> QED
      BY <1>1, <3>1 DEF Worker
  <2>7. /\ new.pc = "judged" /\ new.item = old.item /\ new.version = old.version
        /\ new.automatic = old.automatic /\ new.result = x
    BY <1>1 DEF Worker
  <2> HIDE DEF new
  <2>8. WorkerOK(new)
    BY <1>1, <2>5, <2>7 DEF WorkerOK, Locks, LocksCard
  <2>9. \A v \in Workers : v # w => Apart(new, worker[v])
    BY <2>3, <2>4, <2>5, <2>7 DEF Apart
  <2> QED
    BY <1>2, <2>2, <2>6, <2>8, <2>9, WorkerStep
<1> QED
  BY <1>2, <1>3, <1>4

\* The items of a day can be counted.
LEMMA DayFinite ==
  ASSUME NEW d
  PROVE  IsFiniteSet(ItemsOf(d))
BY ExpiryAssumption, FS_Singleton, FS_Product DEF ItemsOf

LEMMA TallyTyped ==
  ASSUME NEW d, NEW status
  PROVE  TallyOf(d, status) \in Tally
<1>1. \A y : Cardinality({i \in ItemsOf(d) : status[i] = y}) \in Nat
  <2> TAKE y
  <2>1. IsFiniteSet({i \in ItemsOf(d) : status[i] = y})
    BY DayFinite, FS_Subset
  <2> QED
    BY <2>1, FS_CardinalityType
<1> QED
  BY <1>1 DEF TallyOf, Tally

\* The end of an attempt, prepared under the locks of its transaction.
LEMMA PrepareStep ==
  ASSUME ExpiryInv, NEW w \in Workers, NEW x, Prepare(w, x), worker[w].pc # "idle",
         UNCHANGED <<rowVars, claims>>, UNCHANGED <<today, cycle, retry>>, faults' = faults,
         item[worker[w].item].status = "processing", item[worker[w].item].version = worker[w].version,
         \A v \in Workers : v # w /\ Locks(worker[v]) => worker[v].item # worker[w].item,
         \/ x \in Final /\ x = worker[w].result /\ LocksCard(worker[w])
         \/ x = AfterFailure(worker[w].automatic)
  PROVE  StepsForward
<1> DEFINE old == worker[w]
           d == old.item[1]
           status == [StatusOf EXCEPT ![old.item] = x]
           done == Completable(d, status)
           counts == IF done THEN TallyOf(d, status) ELSE NoTally
<1>1. TypeOK /\ old \in Worker /\ WorkerOK(old) /\ old.pc # "idle"
  BY DEF ExpiryInv, TypeOK, WorkersOK
<1>2. worker' = [worker EXCEPT ![w].pc = "prepared", ![w].result = x, ![w].completes = done, ![w].tally = counts]
  BY DEF Prepare
<1>3. done \in BOOLEAN
  BY DEF Completable
<1>4. counts \in Tally
  BY TallyTyped DEF NoTally, Tally
<1>5. PICK b \in BOOLEAN, t \in Tally : b = done /\ t = counts
  BY <1>3, <1>4
<1>6. \A v \in Workers : v # w => Apart(old, worker[v])
  BY DEF ExpiryInv, WorkersOK
<1>7. /\ item[old.item].status = "processing" /\ item[old.item].version = old.version
      /\ \A v \in Workers : v # w /\ Locks(worker[v]) => worker[v].item # old.item
      /\ \/ x \in Final /\ x = old.result /\ LocksCard(old)
         \/ x = AfterFailure(old.automatic)
  OBVIOUS
<1> DEFINE new == [old EXCEPT !.pc = "prepared", !.result = x, !.completes = b, !.tally = t]
<1>8. worker' = [worker EXCEPT ![w] = new]
  BY <1>1, <1>2, <1>5 DEF TypeOK
<1> HIDE DEF old, done, counts
<1>9. x \in ItemStates
  BY <1>7 DEF AfterFailure, Final, ItemStates, Settled, Open
<1>10. new \in Worker
  BY <1>1, <1>9 DEF Worker
<1>11. /\ new.pc = "prepared" /\ new.item = old.item /\ new.version = old.version
       /\ new.automatic = old.automatic /\ new.result = x
  BY <1>1 DEF Worker
<1> HIDE DEF new
<1>12. AfterFailure(old.automatic) \notin Final
  BY DEF AfterFailure, Final
<1>13. WorkerOK(new)
  BY <1>1, <1>7, <1>11, <1>12 DEF WorkerOK, Locks, LocksCard
<1>14. \A v \in Workers : v # w => Apart(new, worker[v])
  BY <1>6, <1>7, <1>11, <1>12 DEF Apart, LocksCard
<1> QED
  BY <1>8, <1>10, <1>13, <1>14, WorkerStep

LEMMA ApplyFinishStep ==
  ASSUME ExpiryInv, NEW w \in Workers, ApplyFinish(w)
  PROVE  StepsForward
<1>1. /\ worker[w].pc = "judged" /\ UNCHANGED <<rowVars, claims>> /\ UNCHANGED <<today, cycle, retry>> /\ faults' = faults
      /\ (Holds(w) /\ Prepare(w, worker[w].result)) \/ Goto(w, "failed") \/ Finish(w)
  BY DEF ApplyFinish
<1>2. CASE Goto(w, "failed")
  BY <1>1, <1>2, GiveUpStep
<1>3. CASE Finish(w)
  BY <1>1, <1>3, FinishStep
<1>4. CASE Holds(w) /\ Prepare(w, worker[w].result)
  <2>1. PICK x : x = worker[w].result
    OBVIOUS
  <2>2. WorkerOK(worker[w]) /\ \A v \in Workers : v # w => Apart(worker[w], worker[v])
    BY DEF ExpiryInv, WorkersOK
  <2>3. Locks(worker[w]) /\ x \in Final /\ LocksCard(worker[w])
    BY <1>1, <2>1, <2>2 DEF Locks, WorkerOK, LocksCard
  <2>4. item[worker[w].item].status = "processing" /\ item[worker[w].item].version = worker[w].version
    BY <1>4 DEF Holds
  <2>5. \A v \in Workers : v # w /\ Locks(worker[v]) => worker[v].item # worker[w].item
    BY <2>2, <2>3 DEF Apart
  <2> QED
    BY <1>1, <1>4, <2>1, <2>3, <2>4, <2>5, PrepareStep
<1> QED
  BY <1>1, <1>2, <1>3, <1>4

LEMMA RequeueStep ==
  ASSUME ExpiryInv, NEW w \in Workers, RequeueExpiryItem(w)
  PROVE  StepsForward
<1>1. /\ worker[w].pc = "failed" /\ ~ItemLocked(worker[w].item)
      /\ UNCHANGED <<rowVars, claims>> /\ UNCHANGED <<today, cycle, retry>> /\ faults' = faults
      /\ (Holds(w) /\ Prepare(w, AfterFailure(worker[w].automatic))) \/ Finish(w)
  BY DEF RequeueExpiryItem
<1>2. CASE Finish(w)
  BY <1>1, <1>2, FinishStep
<1>3. CASE Holds(w) /\ Prepare(w, AfterFailure(worker[w].automatic))
  <2>1. PICK x : x = AfterFailure(worker[w].automatic)
    OBVIOUS
  <2>2. item[worker[w].item].status = "processing" /\ item[worker[w].item].version = worker[w].version
    BY <1>3 DEF Holds
  <2>3. \A v \in Workers : v # w /\ Locks(worker[v]) => worker[v].item # worker[w].item
    BY <1>1, ItemFree
  <2> QED
    BY <1>1, <1>3, <2>1, <2>2, <2>3, PrepareStep
<1> QED
  BY <1>1, <1>2, <1>3

LEMMA ErrorStep ==
  ASSUME ExpiryInv, NEW w \in Workers, ApplyError(w) \/ RequeueError(w)
  PROVE  StepsForward
BY GiveUpStep, FinishStep DEF ApplyError, RequeueError

-----------------------------------------------------------------------------
(* Steps that change rows *)

\* Goroutines have locked items that are being processed.
LEMMA LockedRows ==
  ASSUME ExpiryInv
  PROVE  \A v \in Workers : /\ Locks(worker[v]) => /\ worker[v].item \in Items
                                                  /\ item[worker[v].item].status = "processing"
                            /\ LocksCard(worker[v]) => worker[v].item[2] \in Cards
<1>1. \A v \in Workers : WorkerOK(worker[v])
  BY DEF ExpiryInv, WorkersOK
<1>2. \A v \in Workers : Locks(worker[v]) => worker[v].item \in Items
  BY <1>1 DEF WorkerOK, Locks
<1>3. \A v \in Workers : LocksCard(worker[v]) => Locks(worker[v])
  BY DEF LocksCard, Locks
<1> QED
  BY <1>1, <1>2, <1>3 DEF WorkerOK, Locks, Items

LEMMA EnsureStep ==
  ASSUME ExpiryInv, NEW e \in Executors, EnsureExpiryRun(e)
  PROVE  StepsForward
<1>1. TypeOK /\ ItemsOK /\ CardsOK
  BY DEF ExpiryInv
<1>2. PICK new \in SUBSET Eligible :
        /\ item' = [i \in Items |-> IF i \in {today} \X new
                                      THEN [NewItem EXCEPT !.status = "pending", !.due = TRUE]
                                      ELSE item[i]]
        /\ run' = [run EXCEPT ![today].count = @ + Cardinality(new),
                              ![today].status = IF @ = "completed" /\ new = {}
                                                  THEN "completed" ELSE "processing"]
  BY DEF EnsureExpiryRun
<1>3. /\ cycle' = [cycle EXCEPT ![e] = "ensured"]
      /\ UNCHANGED <<today, card, expiredBy, worker, retry, claims, faults>>
  BY DEF EnsureExpiryRun
<1>4. ASSUME NEW i \in Items
      PROVE  /\ item'[i] \in Item /\ ForwardRow(item[i], item'[i]) /\ ItemOK(item'[i], claims[i])
             /\ SameResult(item[i], item'[i])
             /\ item[i].status # "none" => item'[i] = item[i]
  <2>1. item[i] \in Item /\ claims[i] \in Nat /\ ItemOK(item[i], claims[i])
    BY <1>1 DEF TypeOK, ItemsOK
  <2>2. CASE i \in {today} \X new
    <3>1. item[i].status = "none"
      BY <2>2 DEF Eligible
    <3>2. PICK s : s = [NewItem EXCEPT !.status = "pending", !.due = TRUE]
      OBVIOUS
    <3>3. item'[i] = s
      BY <1>2, <2>2, <3>2
    <3>4. PICK r \in Item, n \in Nat : r = item[i] /\ n = claims[i]
      BY <2>1
    <3>5. s \in Item /\ ItemOK(s, n) /\ ForwardRow(r, s) /\ SameResult(r, s)
      BY <2>1, <3>1, <3>2, <3>4, RowCreated
    <3> QED
      BY <3>1, <3>3, <3>4, <3>5
  <2>3. CASE i \notin {today} \X new
    <3>1. item'[i] = item[i]
      BY <1>2, <2>3
    <3> QED
      BY <2>1, <3>1, RowKept
  <2> QED
    BY <2>2, <2>3
<1>5. TypeOK'
  <2>1. item' \in [Items -> Item]
    BY <1>2, <1>4
  <2>2. PICK n \in Nat : n = Cardinality(new)
    <3>1. IsFiniteSet(new)
      BY ExpiryAssumption, FS_Subset DEF Eligible
    <3> QED
      BY <3>1, FS_CardinalityType
  <2>3. PICK x \in {"completed", "processing"} :
          x = IF run[today].status = "completed" /\ new = {} THEN "completed" ELSE "processing"
    OBVIOUS
  <2>4. run \in [Days -> Run] /\ today \in Days /\ run[today] \in Run
    BY <1>1 DEF TypeOK
  <2>5. PICK m \in Nat : m = run[today].count + n
    BY <2>4 DEF Run
  <2>6. run' = [run EXCEPT ![today] = [@ EXCEPT !.count = m, !.status = x]]
    BY <1>2, <2>2, <2>3, <2>4, <2>5 DEF Run
  <2>7. [run[today] EXCEPT !.count = m, !.status = x] \in Run
    BY <2>4 DEF Run
  <2>8. run' \in [Days -> Run]
    BY <2>4, <2>6, <2>7
  <2>9. cycle' \in [Executors -> {"waiting", "ensured", "recovered"}]
    BY <1>1, <1>3 DEF TypeOK
  <2> QED
    BY <1>1, <1>3, <2>1, <2>8, <2>9 DEF TypeOK
<1>6. \A v \in Workers : /\ Locks(worker[v]) => Steady(worker[v].item)
                         /\ LocksCard(worker[v]) => SameCard(worker[v].item[2])
  BY <1>3, <1>4, LockedRows DEF Steady, SameCard
<1>7. CardsOK'
  BY <1>1, <1>3, <1>4, CardsKept DEF SameCard
<1>8. RetryOK'
  BY <1>3, <1>4 DEF ExpiryInv, RetryOK
<1>9. \A i \in Items : ItemOK(item[i], claims[i])'
  BY <1>3, <1>4 DEF ItemOK
<1> QED
  BY <1>3, <1>4, <1>5, <1>6, <1>7, <1>8, <1>9, QuietStep DEF StepsForward

LEMMA RecoverStep ==
  ASSUME ExpiryInv, NEW e \in Executors, RecoverExpiryItems(e)
  PROVE  StepsForward
<1>1. TypeOK /\ ItemsOK /\ CardsOK
  BY DEF ExpiryInv
<1>2. /\ item' = [i \in Items |->
             IF Recoverable(i) THEN FailedItem(item[i], AfterFailure(item[i].automatic), TRUE)
                               ELSE item[i]]
      /\ cycle' = [cycle EXCEPT ![e] = "recovered"]
      /\ UNCHANGED <<today, card, expiredBy, worker, retry, claims, faults>>
  BY DEF RecoverExpiryItems
<1>3. ASSUME NEW i \in Items
      PROVE  /\ item'[i] \in Item /\ ForwardRow(item[i], item'[i]) /\ ItemOK(item'[i], claims[i])
             /\ SameResult(item[i], item'[i])
             /\ ~Recoverable(i) => item'[i] = item[i]
  <2>1. item[i] \in Item /\ claims[i] \in Nat /\ ItemOK(item[i], claims[i])
    BY <1>1 DEF TypeOK, ItemsOK
  <2>2. CASE Recoverable(i)
    <3>1. PICK r \in Item, n \in Nat : r = item[i] /\ n = claims[i]
      BY <2>1
    <3>2. PICK x, s : x = AfterFailure(r.automatic) /\ s = FailedItem(r, x, TRUE)
      OBVIOUS
    <3>3. item'[i] = s /\ r.status = "processing"
      BY <1>2, <2>2, <3>1, <3>2 DEF Recoverable
    <3>4. s \in Item /\ ItemOK(s, n) /\ ForwardRow(r, s) /\ SameResult(r, s)
      BY <2>1, <3>1, <3>2, <3>3, RowFailed
    <3> QED
      BY <2>2, <3>1, <3>3, <3>4
  <2>3. CASE ~Recoverable(i)
    <3>1. item'[i] = item[i]
      BY <1>2, <2>3
    <3> QED
      BY <2>1, <3>1, RowKept
  <2> QED
    BY <2>2, <2>3
<1>4. TypeOK'
  <2>1. item' \in [Items -> Item]
    BY <1>2, <1>3
  <2>2. PICK completed, status :
          run' = [d \in Days |-> IF d \in completed
                                   THEN [run[d] EXCEPT !.status = "completed", !.tally = TallyOf(d, status)]
                                   ELSE run[d]]
    BY DEF RecoverExpiryItems
  <2>3. ASSUME NEW d \in Days PROVE run'[d] \in Run
    <3>1. PICK r \in Run, t \in Tally : r = run[d] /\ t = TallyOf(d, status)
      BY <1>1, TallyTyped DEF TypeOK
    <3>2. [r EXCEPT !.status = "completed", !.tally = t] \in Run
      BY DEF Run
    <3> QED
      BY <2>2, <3>1, <3>2
  <2>4. run' \in [Days -> Run]
    BY <2>2, <2>3
  <2>5. cycle' \in [Executors -> {"waiting", "ensured", "recovered"}]
    BY <1>1, <1>2 DEF TypeOK
  <2> QED
    BY <1>1, <1>2, <2>1, <2>4, <2>5 DEF TypeOK
<1>5. \A v \in Workers : Locks(worker[v]) => ~Recoverable(worker[v].item)
  BY ItemFree DEF Recoverable
<1>6. \A v \in Workers : /\ Locks(worker[v]) => Steady(worker[v].item)
                         /\ LocksCard(worker[v]) => SameCard(worker[v].item[2])
  BY <1>2, <1>3, <1>5, LockedRows DEF Steady, SameCard
<1>7. CardsOK'
  BY <1>1, <1>2, <1>3, CardsKept DEF SameCard
<1>8. RetryOK'
  BY <1>2, <1>3 DEF ExpiryInv, RetryOK, Recoverable
<1>9. \A i \in Items : ItemOK(item[i], claims[i])'
  BY <1>2, <1>3 DEF ItemOK
<1> QED
  BY <1>2, <1>3, <1>4, <1>6, <1>7, <1>8, <1>9, QuietStep DEF StepsForward

LEMMA ClaimStep ==
  ASSUME ExpiryInv, NEW w \in Workers, NEW i \in Items, ClaimExpiryItem(w, i)
  PROVE  StepsForward
<1>1. TypeOK /\ ItemsOK /\ CardsOK /\ Identity[w] \in Executors
  BY ExpiryAssumption DEF ExpiryInv
<1>2. PICK r \in Item, n \in Nat, e \in Executors : r = item[i] /\ n = claims[i] /\ e = Identity[w]
  BY <1>1 DEF TypeOK
<1>3. PICK s : s = ClaimedRow(r, e)
  OBVIOUS
<1>4. ItemOK(r, n) /\ r.status = "pending" /\ ~ItemLocked(i)
  BY <1>1, <1>2 DEF ItemsOK, ClaimExpiryItem, Claimable
<1>5. /\ s \in Item /\ ItemOK(s, n + 1) /\ ForwardRow(r, s) /\ SameResult(r, s)
      /\ s.status = "processing" /\ s.version = r.version + 1 /\ s.automatic = r.automatic
  BY <1>3, <1>4, RowClaimed
<1>6. /\ item' = [item EXCEPT ![i] = s] /\ claims' = [claims EXCEPT ![i] = n + 1]
      /\ cycle' = [cycle EXCEPT ![e] = "waiting"]
      /\ UNCHANGED <<today, card, expiredBy, run, retry, faults>>
  BY <1>1, <1>2, <1>3 DEF ClaimExpiryItem, ClaimedRow, TypeOK
<1>7. PICK g : /\ g = [IdleWorker EXCEPT !.pc = "claimed", !.item = i, !.version = r.version + 1,
                                         !.automatic = r.automatic]
               /\ worker' = [worker EXCEPT ![w] = g]
  BY <1>2 DEF ClaimExpiryItem
<1>8. PICK m \in Nat, a \in Nat : m = r.version + 1 /\ a = r.automatic
  BY ExpiryAssumption DEF Item
<1>9. g = [IdleWorker EXCEPT !.pc = "claimed", !.item = i, !.version = m, !.automatic = a]
  BY <1>7, <1>8
<1>10. g \in Worker
  <2>1. IdleWorker \in Worker
    BY IdleIsOK
  <2> QED
    BY <1>9, <2>1 DEF Worker
<1>11. g.pc = "claimed" /\ g.item = i /\ g.version = m /\ g.automatic = a
  BY <1>9 DEF IdleWorker
<1>12. item'[i] = s /\ claims'[i] = n + 1 /\ \A j \in Items : j # i => item'[j] = item[j] /\ claims'[j] = claims[j]
  BY <1>1, <1>6 DEF TypeOK
<1>13. TypeOK'
  <2>1. item' \in [Items -> Item] /\ claims' \in [Items -> Nat]
    BY <1>1, <1>5, <1>6 DEF TypeOK
  <2>2. worker' \in [Workers -> Worker] /\ cycle' \in [Executors -> {"waiting", "ensured", "recovered"}]
    BY <1>1, <1>6, <1>7, <1>10 DEF TypeOK
  <2> QED
    BY <1>1, <1>6, <2>1, <2>2 DEF TypeOK
<1>14. ASSUME NEW j \in Items
       PROVE  /\ ForwardRow(item[j], item'[j]) /\ SameResult(item[j], item'[j])
              /\ ItemOK(item'[j], claims'[j])
  <2>1. CASE j = i
    BY <1>2, <1>5, <1>12, <2>1
  <2>2. CASE j # i
    <3>1. item[j] \in Item /\ ItemOK(item[j], claims[j]) /\ item'[j] = item[j] /\ claims'[j] = claims[j]
      BY <1>1, <1>12, <2>2 DEF TypeOK, ItemsOK
    <3> QED
      BY <3>1, RowKept
  <2> QED
    BY <2>1, <2>2
<1>15. \A j \in Items : ItemOK(item[j], claims[j])'
  BY <1>14 DEF ItemOK
<1>16. WorkerOK(g)' /\ ~Locks(g) /\ ~LocksCard(g)
  BY <1>5, <1>8, <1>11, <1>12 DEF WorkerOK, Locks, LocksCard
<1>17. \A v \in Workers : /\ Apart(g, worker[v])
                          /\ Locks(worker[v]) => Steady(worker[v].item)
                          /\ LocksCard(worker[v]) => SameCard(worker[v].item[2])
  BY <1>4, <1>6, <1>12, <1>16, ItemFree, LockedRows DEF Apart, Steady, SameCard
<1>18. CardsOK'
  BY <1>1, <1>6, <1>14, CardsKept DEF SameCard
<1>19. RetryOK'
  BY <1>2, <1>4, <1>6, <1>12 DEF ExpiryInv, RetryOK
<1> QED
  BY <1>7, <1>10, <1>13, <1>14, <1>15, <1>16, <1>17, <1>18, <1>19, MoveStep DEF StepsForward

\* Operators and clients.
LEMMA CommandStep ==
  ASSUME ExpiryInv, NEW c \in Cards, NEW action \in Commands, CardCommand(c, action)
  PROVE  StepsForward
<1>1. TypeOK /\ CardsOK /\ ItemsOK
  BY DEF ExpiryInv
<1>2. /\ card' = [card EXCEPT ![c] = TargetOf[action]]
      /\ UNCHANGED <<today, expiredBy, run, item, cycle, worker, retry, claims, faults>>
      /\ card[c] # TargetOf[action] /\ card[c] \in SourcesOf[action] /\ ~CardLocked(c)
  BY DEF CardCommand, Transition
<1>3. action \in {"activate", "suspend", "resume", "close"}
  BY ExpiryAssumption DEF CardActions
<1>4. card[c] # "expired" /\ TargetOf[action] \in CardStates \ {"expired"}
  BY <1>2, <1>3 DEF TargetOf, SourcesOf, CardStates
<1>5. card' \in [Cards -> CardStates] /\ \A x \in Cards : SameCard(x)
  BY <1>1, <1>2, <1>4 DEF TypeOK, SameCard
<1>6. TypeOK'
  BY <1>1, <1>2, <1>5 DEF TypeOK
<1>7. ASSUME NEW i \in Items
      PROVE  ForwardRow(item[i], item'[i]) /\ SameResult(item[i], item'[i]) /\ Steady(i) /\ ItemOK(item[i], claims[i])'
  <2>1. item[i] \in Item /\ item'[i] = item[i] /\ claims'[i] = claims[i] /\ ItemOK(item[i], claims[i])
    BY <1>1, <1>2 DEF TypeOK, ItemsOK
  <2> QED
    BY <2>1, RowKept DEF Steady, ItemOK
<1>8. CardsOK'
  BY <1>1, <1>2, <1>5, <1>7, CardsKept
<1>9. RetryOK'
  BY <1>2 DEF ExpiryInv, RetryOK
<1>10. \A v \in Workers : /\ worker'[v] = worker[v]
                          /\ Locks(worker[v]) => Steady(worker[v].item)
                          /\ LocksCard(worker[v]) => SameCard(worker[v].item[2])
  BY <1>2, <1>5, <1>7, LockedRows
<1> QED
  BY <1>6, <1>7, <1>8, <1>9, <1>10, QuietStep DEF StepsForward

LEMMA RetryStep ==
  ASSUME ExpiryInv, NEW i \in Items, RetryExpiryItem(i)
  PROVE  StepsForward
<1>1. /\ item[i].status = "manual_retry_required" /\ UNCHANGED <<card, expiredBy, item, claims>>
      /\ UNCHANGED <<today, cycle, worker, faults>> /\ TypeOK
  BY DEF RetryExpiryItem, ExpiryInv
<1>2. PICK b \in BOOLEAN : retry' = [item |-> i, reopens |-> b]
  BY DEF RetryExpiryItem
<1>3. TypeOK'
  <2>1. PICK d \in Days, c \in Cards : d = i[1] /\ c = i[2]
    BY DEF Items
  <2>2. PICK q \in Run : q = run[d]
    BY <1>1 DEF TypeOK
  <2>3. [q EXCEPT !.late = q.late \cup {c}] \in Run
    BY DEF Run
  <2>4. run' = run \/ run' = [run EXCEPT ![d] = [q EXCEPT !.late = q.late \cup {c}]]
    BY <1>1, <2>1, <2>2 DEF RetryExpiryItem, TypeOK
  <2>5. run' \in [Days -> Run]
    BY <1>1, <2>3, <2>4 DEF TypeOK
  <2> QED
    BY <1>1, <1>2, <2>5 DEF TypeOK
<1>4. RetryOK'
  BY <1>1, <1>2 DEF RetryOK
<1>5. \A v \in Workers : /\ worker'[v] = worker[v]
                         /\ Locks(worker[v]) => Steady(worker[v].item)
                         /\ LocksCard(worker[v]) => SameCard(worker[v].item[2])
  BY <1>1, RowsUntouched, LockedRows
<1> QED
  BY <1>1, <1>3, <1>4, <1>5, RowsUntouched, QuietStep DEF StepsForward

\* One item changes, which no goroutine has locked or which stays as it is.
LEMMA ItemStep ==
  ASSUME ExpiryInv, NEW i \in Items, NEW s \in Item, item' = [item EXCEPT ![i] = s],
         ItemOK(s, claims[i]), ForwardRow(item[i], s), SameResult(item[i], s),
         item[i].status # "processing" \/ (s.status = item[i].status /\ s.version = item[i].version),
         UNCHANGED <<today, card, expiredBy, cycle, worker, claims>>,
         run' \in [Days -> Run], faults' \in Nat,
         retry' = None \/ (retry' = retry /\ item[i].status # "manual_retry_required")
  PROVE  StepsForward
<1>1. TypeOK /\ ItemsOK /\ CardsOK
  BY DEF ExpiryInv
<1>2. item'[i] = s /\ \A j \in Items : j # i => item'[j] = item[j]
  BY <1>1 DEF TypeOK
<1>3. ASSUME NEW j \in Items
      PROVE  /\ ForwardRow(item[j], item'[j]) /\ SameResult(item[j], item'[j])
             /\ ItemOK(item'[j], claims[j])
             /\ item[j].status = "processing" => Steady(j)
  <2>1. CASE j = i
    BY <1>2, <2>1 DEF Steady
  <2>2. CASE j # i
    <3>1. item[j] \in Item /\ ItemOK(item[j], claims[j]) /\ item'[j] = item[j]
      BY <1>1, <1>2, <2>2 DEF TypeOK, ItemsOK
    <3> QED
      BY <3>1, RowKept DEF Steady
  <2> QED
    BY <2>1, <2>2
<1>4. TypeOK'
  BY <1>1 DEF TypeOK
<1>5. \A j \in Items : ItemOK(item[j], claims[j])'
  BY <1>3 DEF ItemOK
<1>6. CardsOK'
  BY <1>1, <1>3, CardsKept DEF SameCard
<1>7. RetryOK'
  BY <1>2 DEF ExpiryInv, RetryOK
<1>8. \A v \in Workers : /\ worker'[v] = worker[v]
                         /\ Locks(worker[v]) => Steady(worker[v].item)
                         /\ LocksCard(worker[v]) => SameCard(worker[v].item[2])
  BY <1>3, LockedRows DEF SameCard
<1> QED
  BY <1>3, <1>4, <1>5, <1>6, <1>7, <1>8, QuietStep DEF StepsForward

LEMMA AgeStep ==
  ASSUME ExpiryInv, NEW i \in Items, LeaseExpires(i) \/ BackoffElapses(i)
  PROVE  StepsForward
<1>1. TypeOK /\ ItemsOK
  BY DEF ExpiryInv
<1>2. PICK r \in Item, n \in Nat : r = item[i] /\ n = claims[i]
  BY <1>1 DEF TypeOK
<1>3. PICK s : /\ s = [r EXCEPT !.current = FALSE] \/ s = [r EXCEPT !.due = TRUE]
               /\ item' = [item EXCEPT ![i] = s]
  BY <1>1, <1>2 DEF LeaseExpires, BackoffElapses, TypeOK
<1>4. r.status \in Open /\ ItemOK(r, n)
  BY <1>1, <1>2 DEF LeaseExpires, BackoffElapses, Open, ItemsOK
<1>5. /\ s \in Item /\ ItemOK(s, n) /\ ForwardRow(r, s) /\ SameResult(r, s)
      /\ s.status = r.status /\ s.version = r.version
  BY <1>3, <1>4, RowAged
<1>6. /\ UNCHANGED <<today, card, expiredBy, cycle, worker, claims>> /\ retry' = retry
      /\ run' \in [Days -> Run] /\ faults' \in Nat
  BY <1>1 DEF LeaseExpires, BackoffElapses, TypeOK
<1> QED
  BY <1>2, <1>3, <1>4, <1>5, <1>6, ItemStep DEF Open

LEMMA RetryCommitStep ==
  ASSUME ExpiryInv, RetryCommit
  PROVE  StepsForward
<1>1. TypeOK /\ ItemsOK
  BY DEF ExpiryInv
<1>2. PICK i \in Items : i = retry.item /\ item[i].status = "manual_retry_required"
  BY DEF ExpiryInv, RetryOK, RetryCommit
<1>3. PICK r \in Item, n \in Nat : r = item[i] /\ n = claims[i]
  BY <1>1 DEF TypeOK
<1>4. PICK s : s = [r EXCEPT !.status = "pending", !.due = TRUE, !.manual = @ + 1]
  OBVIOUS
<1>5. item' = [item EXCEPT ![i] = s]
  BY <1>1, <1>2, <1>3, <1>4 DEF RetryCommit, TypeOK
<1>6. s \in Item /\ ItemOK(s, n) /\ ForwardRow(r, s) /\ SameResult(r, s)
  BY ZenonT(40), <1>1, <1>2, <1>3, <1>4, RowRetried DEF ItemsOK
<1>7. run' \in [Days -> Run]
  <2>1. PICK d \in Days : d = i[1]
    BY <1>2 DEF Items
  <2>2. PICK q \in Run : q = run[d]
    BY <1>1 DEF TypeOK
  <2>3. [q EXCEPT !.status = "processing", !.late = {}] \in Run
    BY DEF Run
  <2>4. run' = [run EXCEPT ![d] = [q EXCEPT !.status = "processing", !.late = {}]] \/ run' = run
    BY <1>1, <1>2, <2>1, <2>2 DEF RetryCommit, TypeOK
  <2> QED
    BY <1>1, <2>3, <2>4 DEF TypeOK
<1>8. UNCHANGED <<today, card, expiredBy, cycle, worker, claims>> /\ retry' = None /\ faults' \in Nat
  BY <1>1 DEF RetryCommit, TypeOK
<1> QED
  BY <1>2, <1>3, <1>5, <1>6, <1>7, <1>8, ItemStep

\* The rows of a commit: the item of the goroutine, and its card if it expires.
LEMMA CommitRows ==
  ASSUME ExpiryInv, NEW w \in Workers, worker[w].pc = "prepared", CommitEffects(w),
         UNCHANGED <<today, cycle, retry, claims>>, worker' \in [Workers -> Worker], faults' \in Nat
  PROVE  /\ TypeOK' /\ CardsOK' /\ RetryOK'
         /\ \A i \in Items : ForwardRow(item[i], item'[i]) /\ ItemOK(item[i], claims[i])'
         /\ \A v \in Workers : v # w => /\ Locks(worker[v]) => Steady(worker[v].item)
                                        /\ LocksCard(worker[v]) => SameCard(worker[v].item[2])
<1> DEFINE h == worker[w]
           x == h.result
<1>1. /\ TypeOK /\ ItemsOK /\ CardsOK /\ h \in Worker /\ WorkerOK(h) /\ h.pc = "prepared"
      /\ \A v \in Workers : v # w => Apart(h, worker[v])
  BY DEF ExpiryInv, WorkersOK, TypeOK
<1>2. Locks(h) /\ h.item \in Items
  BY <1>1 DEF Locks, WorkerOK
<1>3. PICK i \in Items, d \in Days, c \in Cards : i = h.item /\ d = i[1] /\ c = i[2] /\ i = <<d, c>>
  BY <1>2 DEF Items
<1>4. PICK r \in Item, n \in Nat : r = item[i] /\ n = claims[i]
  BY <1>1 DEF TypeOK
<1>5. /\ ItemOK(r, n) /\ r.status = "processing" /\ h.automatic = r.automatic
      /\ x \in Final \cup {AfterFailure(r.automatic)}
      /\ x \in Final => (card[c] = "expired" <=> x # "expired")
  <2>1. LocksCard(h) <=> x \in Final
    BY <1>1 DEF LocksCard
  <2> QED
    BY <1>1, <1>2, <1>3, <1>4, <2>1 DEF WorkerOK, ItemsOK
<1>6. AfterFailure(r.automatic) \notin Final /\ "expired" \in Final
  BY DEF AfterFailure, Final
<1>7. PICK s : /\ s = IF x \in Final THEN DoneItem(r, x) ELSE FailedItem(r, x, FALSE)
               /\ item' = [item EXCEPT ![i] = s]
  BY <1>3, <1>4 DEF CommitEffects
<1>8. /\ card' = IF x = "expired" THEN [card EXCEPT ![c] = "expired"] ELSE card
      /\ expiredBy' = IF x = "expired" THEN [expiredBy EXCEPT ![c] = @ \cup {i}] ELSE expiredBy
      /\ run' = IF h.completes
                  THEN [run EXCEPT ![d].status = "completed", ![d].tally = h.tally]
                  ELSE run
  BY <1>3 DEF CommitEffects
<1>9. s \in Item /\ ItemOK(s, n) /\ ForwardRow(r, s) /\ s.status = x
  <2> HIDE DEF h, x
  <2>1. CASE x \in Final
    <3>1. PICK y \in Final : y = x
      BY <2>1
    <3>2. s = DoneItem(r, y)
      BY <1>7, <2>1, <3>1
    <3>3. ItemOK(r, n) /\ r.status = "processing"
      BY <1>5
    <3>4. s \in Item /\ ItemOK(s, n) /\ ForwardRow(r, s) /\ s.status = y
      BY <3>2, <3>3, RowDone
    <3> QED
      BY <3>1, <3>4
  <2>2. CASE x \notin Final
    <3>1. PICK y : y = AfterFailure(r.automatic) /\ y = x
      BY <1>5, <2>2
    <3>2. s = FailedItem(r, y, FALSE)
      BY <1>7, <2>2, <3>1
    <3>3. ItemOK(r, n) /\ r.status = "processing" /\ FALSE \in BOOLEAN
      BY <1>5
    <3>4. s \in Item /\ ItemOK(s, n) /\ ForwardRow(r, s) /\ s.status = y
      BY ZenonT(40), <3>1, <3>2, <3>3, RowFailed
    <3> QED
      BY <3>1, <3>4
  <2> QED
    BY <2>1, <2>2
<1>10. PICK b \in BOOLEAN, t \in Tally : b = h.completes /\ t = h.tally
  BY <1>1 DEF Worker
<1>11. \A v \in Workers : v # w => /\ Locks(worker[v]) => worker[v].item # i
                                   /\ LocksCard(worker[v]) /\ x \in Final => worker[v].item[2] # c
  <2>1. x \in Final => LocksCard(h)
    BY <1>1 DEF LocksCard
  <2> QED
    BY <1>1, <1>2, <1>3, <2>1 DEF Apart
<1>12. PICK y : y = x
  OBVIOUS
<1> HIDE DEF h, x
<1>13. item'[i] = s /\ \A j \in Items : j # i => item'[j] = item[j]
  BY <1>1, <1>7 DEF TypeOK
<1>14. TypeOK'
  <2>1. item' \in [Items -> Item]
    BY <1>1, <1>7, <1>9 DEF TypeOK
  <2>2. card' \in [Cards -> CardStates] /\ expiredBy' \in [Cards -> SUBSET Items]
    BY <1>1, <1>8 DEF TypeOK, CardStates
  <2>3. run' \in [Days -> Run]
    <3>1. PICK q \in Run : q = run[d]
      BY <1>1 DEF TypeOK
    <3>2. [q EXCEPT !.status = "completed", !.tally = t] \in Run
      BY DEF Run
    <3>3. run' = [run EXCEPT ![d] = [q EXCEPT !.status = "completed", !.tally = t]] \/ run' = run
      BY <1>1, <1>8, <1>10, <3>1 DEF TypeOK
    <3> QED
      BY <1>1, <3>2, <3>3 DEF TypeOK
  <2> QED
    BY <1>1, <2>1, <2>2, <2>3 DEF TypeOK
<1>15. ASSUME NEW j \in Items
       PROVE  ForwardRow(item[j], item'[j]) /\ ItemOK(item'[j], claims[j])
  <2>1. CASE j = i
    BY <1>4, <1>9, <1>13, <2>1
  <2>2. CASE j # i
    <3>1. item[j] \in Item /\ ItemOK(item[j], claims[j]) /\ item'[j] = item[j]
      BY <1>1, <1>13, <2>2 DEF TypeOK, ItemsOK
    <3> QED
      BY <3>1, RowKept
  <2> QED
    BY <2>1, <2>2
<1>16. \A j \in Items : ItemOK(item[j], claims[j])'
  BY <1>15 DEF ItemOK
<1>17. RetryOK'
  BY <1>4, <1>5, <1>13 DEF ExpiryInv, RetryOK
<1>18. CardsOK'
  <2> SUFFICES ASSUME NEW k \in Cards PROVE CardOK(k)'
    BY DEF CardsOK
  <2>1. CardOK(k) /\ CardOK(c)
    BY <1>1 DEF CardsOK
  <2>2. CASE k # c
    <3>1. card'[k] = card[k] /\ expiredBy'[k] = expiredBy[k] /\ \A j \in Items : j[2] = k => item'[j] = item[j]
      BY <1>1, <1>3, <1>8, <1>13, <2>2 DEF TypeOK
    <3> QED
      BY <2>1, <3>1 DEF CardOK
  <2>3. CASE k = c /\ x = "expired"
    <3>1. card[c] # "expired" /\ card'[c] = "expired" /\ expiredBy[c] = {} /\ expiredBy'[c] = {i}
      BY <1>1, <1>5, <1>6, <1>8, <2>1, <2>3 DEF TypeOK, CardOK
    <3>2. \A j \in Items : j[2] = c => item[j].status # "expired"
      BY <2>1, <3>1 DEF CardOK
    <3>3. {j \in Items : j[2] = c /\ item'[j].status = "expired"} = {i}
      BY <1>3, <1>9, <1>13, <2>3, <3>2
    <3> QED
      BY <2>3, <3>1, <3>3 DEF CardOK
  <2>4. CASE k = c /\ x # "expired"
    <3>1. card' = card /\ expiredBy' = expiredBy
      BY <1>8, <2>4
    <3>2. \A j \in Items : item'[j].status = "expired" <=> item[j].status = "expired"
      BY <1>4, <1>5, <1>9, <1>13, <2>4
    <3>3. \A j \in Items : item'[j].status = "skipped_already_expired" /\ card[c] # "expired"
                           => item[j].status = "skipped_already_expired"
      BY <1>5, <1>9, <1>13, <2>4 DEF Final
    <3> QED
      BY <2>1, <2>4, <3>1, <3>2, <3>3 DEF CardOK
  <2> QED
    BY <2>2, <2>3, <2>4
<1>19. ASSUME NEW v \in Workers, v # w
       PROVE  /\ Locks(worker[v]) => Steady(worker[v].item)
              /\ LocksCard(worker[v]) => SameCard(worker[v].item[2])
  BY <1>1, <1>6, <1>8, <1>11, <1>13, <1>19, LockedRows DEF Steady, SameCard, TypeOK
<1> QED
  BY <1>14, <1>15, <1>16, <1>17, <1>18, <1>19

LEMMA CommitStep ==
  ASSUME ExpiryInv, NEW w \in Workers, Commit(w)
  PROVE  StepsForward
<1>1. /\ worker[w].pc = "prepared" /\ CommitEffects(w) /\ UNCHANGED <<today, cycle, retry, claims>>
      /\ faults' = faults /\ worker' = [worker EXCEPT ![w] = IdleWorker]
  BY DEF Commit, Finish
<1>2. TypeOK
  BY DEF ExpiryInv
<1>3. worker' \in [Workers -> Worker] /\ faults' \in Nat
  BY <1>1, <1>2, IdleIsOK DEF TypeOK
<1>4. worker'[w] = IdleWorker /\ \A v \in Workers : v # w => worker'[v] = worker[v]
  BY <1>1, <1>2 DEF TypeOK
<1>5. /\ TypeOK' /\ CardsOK' /\ RetryOK'
      /\ \A i \in Items : ForwardRow(item[i], item'[i]) /\ ItemOK(item[i], claims[i])'
      /\ \A v \in Workers : v # w => /\ Locks(worker[v]) => Steady(worker[v].item)
                                     /\ LocksCard(worker[v]) => SameCard(worker[v].item[2])
  BY <1>1, <1>3, CommitRows
<1> QED
  BY <1>4, <1>5, QuietStep DEF StepsForward

\* The goroutine goes on to requeue an item that is final.
LEMMA UnacknowledgedStep ==
  ASSUME ExpiryInv, NEW w \in Workers, CommitUnacknowledged(w)
  PROVE  StepsForward
<1> DEFINE old == worker[w]
           new == [old EXCEPT !.pc = "failed"]
<1>1. /\ old.pc = "prepared" /\ CommitEffects(w) /\ UNCHANGED <<today, cycle, retry, claims>>
      /\ faults' = faults + 1 /\ Goto(w, "failed")
  BY DEF CommitUnacknowledged
<1>2. TypeOK /\ old \in Worker /\ WorkerOK(old)
  BY DEF ExpiryInv, TypeOK, WorkersOK
<1>3. worker' = [worker EXCEPT ![w] = new]
  BY <1>1, <1>2 DEF Goto, TypeOK
<1>4. old.item \in Items /\ item[old.item] \in Item
  BY <1>1, <1>2 DEF WorkerOK, TypeOK
<1> HIDE DEF old
<1>5. new \in Worker
  BY <1>2 DEF Worker
<1>6. /\ new.pc = "failed" /\ new.item = old.item /\ new.version = old.version
      /\ new.automatic = old.automatic /\ new.result = old.result
  BY <1>2 DEF Worker
<1>7. PICK g \in Worker : g = new
  BY <1>5
<1> HIDE DEF new
<1>8. worker' \in [Workers -> Worker] /\ faults' \in Nat
  BY <1>1, <1>2, <1>3, <1>5 DEF TypeOK
<1>9. /\ TypeOK' /\ CardsOK' /\ RetryOK'
      /\ \A i \in Items : ForwardRow(item[i], item'[i]) /\ ItemOK(item[i], claims[i])'
      /\ \A v \in Workers : v # w => /\ Locks(worker[v]) => Steady(worker[v].item)
                                     /\ LocksCard(worker[v]) => SameCard(worker[v].item[2])
  BY <1>1, <1>8, CommitRows DEF old
<1>10. WorkerOK(g) /\ ~Locks(g) /\ ~LocksCard(g)
  BY <1>1, <1>2, <1>6, <1>7 DEF WorkerOK, Locks, LocksCard
<1>11. WorkerOK(g)'
  <2>1. g.item \in Items /\ item'[g.item] \in Item
    BY <1>4, <1>6, <1>7, <1>9 DEF TypeOK
  <2> QED
    BY <1>4, <1>6, <1>7, <1>9, <1>10, <2>1, WorkerKept
<1>12. \A v \in Workers : Apart(g, worker[v])
  BY <1>10 DEF Apart
<1> QED
  BY <1>3, <1>7, <1>9, <1>11, <1>12, MoveStep DEF StepsForward

-----------------------------------------------------------------------------
(* The theorems *)

LEMMA ExpiryInit == Init => ExpiryInv
<1> SUFFICES ASSUME Init PROVE ExpiryInv
  OBVIOUS
<1>1. AutomaticRetries \in Nat /\ LastDay \in Nat \ {0}
  BY ExpiryAssumption
<1>2. NewItem \in Item
  BY <1>1 DEF NewItem, Item, ItemStates
<1>3. TypeOK
  <2>1. [status |-> "none", count |-> 0, tally |-> NoTally, late |-> {}] \in Run
    BY DEF Run, NoTally, Tally
  <2>2. 1 \in Days /\ "active" \in CardStates
    BY <1>1 DEF Days, CardStates
  <2> QED
    BY <1>2, <2>1, <2>2, IdleIsOK DEF Init, TypeOK
<1>4. WorkersOK
  BY IdleIsOK DEF Init, WorkersOK
<1>5. ItemsOK
  <2>1. ItemOK(NewItem, 0)
    BY DEF ItemOK, NewItem
  <2> QED
    BY <2>1 DEF Init, ItemsOK
<1>6. CardsOK
  <2>1. \A i \in Items : item[i].status = "none"
    BY DEF Init, NewItem
  <2> QED
    BY <2>1 DEF Init, CardsOK, CardOK
<1>7. RetryOK
  BY DEF Init, RetryOK
<1> QED
  BY <1>3, <1>4, <1>5, <1>6, <1>7 DEF ExpiryInv

LEMMA ExpiryStep == ExpiryInv /\ [Next]_vars => StepsForward
<1> SUFFICES ASSUME ExpiryInv, [Next]_vars PROVE StepsForward
  OBVIOUS
<1>1. CASE UNCHANGED vars
  <2>1. TypeOK
    BY DEF ExpiryInv
  <2>2. /\ UNCHANGED <<rowVars, claims>> /\ retry' = retry /\ worker' = worker
        /\ today' = today /\ faults' = faults /\ cycle' = cycle
    BY <1>1 DEF vars, rowVars
  <2> QED
    BY <2>1, <2>2, StillStep DEF TypeOK
<1>2. CASE MidnightPasses \/ RetryAborted
  BY <1>2, ClockStep
<1>3. CASE \E e \in Executors : CycleStep(e) \/ ExecutorExits(e)
  <2>1. PICK e \in Executors : CycleStep(e) \/ ExecutorExits(e)
    BY <1>3
  <2>2. CASE \E w \in Workers, i \in Items : ClaimExpiryItem(w, i) \/ ClaimRaises(w, i)
    BY <2>2, ClaimStep, ClaimRaisesStep
  <2> QED
    BY <2>1, <2>2, EnsureStep, RecoverStep, LoopStep DEF CycleStep
<1>4. CASE \E w \in Workers : RunExpiry(w) \/ Errors(w)
  BY <1>4, ApplyVerifyStep, ApplyJudgeStep, ApplyFinishStep, RequeueStep, CommitStep, ErrorStep,
     UnacknowledgedStep DEF RunExpiry, Errors
<1>5. CASE \E c \in Cards, action \in Commands : CardCommand(c, action)
  BY <1>5, CommandStep
<1>6. CASE (\E i \in Items : RetryExpiryItem(i)) \/ RetryCommit
  BY <1>6, RetryStep, RetryCommitStep
<1>7. CASE \E i \in Items : LeaseExpires(i) \/ BackoffElapses(i)
  BY <1>7, AgeStep
<1> QED
  BY <1>1, <1>2, <1>3, <1>4, <1>5, <1>6, <1>7 DEF Next

\* The expiry of a bank keeps ExpiryInv: a goroutine that has locked its item
\* is its only holder, the card it has judged stays so until its commit, and
\* claims are counted against retries.
THEOREM ExpiryInvariant == Spec => []ExpiryInv
<1>1. ExpiryInv /\ [Next]_vars => ExpiryInv'
  BY ExpiryStep DEF StepsForward
<1> QED
  BY <1>1, ExpiryInit, PTL DEF Spec

\* Exactly one item expires a card, whatever runs, daemons and stale
\* goroutines meet there, and only a card that is expired is skipped.
THEOREM CardExpiresOnce == Spec => []ExpiredOnce
<1>1. ExpiryInv => ExpiredOnce
  <2> SUFFICES ASSUME ExpiryInv, NEW c \in Cards
               PROVE  /\ {d \in Days : item[<<d, c>>].status = "expired"} = {i[1] : i \in expiredBy[c]}
                      /\ Cardinality(expiredBy[c]) = IF card[c] = "expired" THEN 1 ELSE 0
                      /\ \A d \in Days : item[<<d, c>>].status = "skipped_already_expired" => card[c] = "expired"
    BY DEF ExpiredOnce
  <2>1. CardOK(c)
    BY DEF ExpiryInv, CardsOK
  <2>2. {d \in Days : item[<<d, c>>].status = "expired"} = {i[1] : i \in expiredBy[c]}
    <3>1. \A d \in Days : <<d, c>> \in Items /\ <<d, c>>[1] = d /\ <<d, c>>[2] = c
      BY DEF Items
    <3>2. \A i \in Items : i[1] \in Days /\ i = <<i[1], i[2]>>
      BY DEF Items
    <3> QED
      BY <2>1, <3>1, <3>2 DEF CardOK
  <2>3. Cardinality(expiredBy[c]) = IF card[c] = "expired" THEN 1 ELSE 0
    BY <2>1, FS_EmptySet, FS_Singleton DEF CardOK
  <2>4. \A d \in Days : item[<<d, c>>].status = "skipped_already_expired" => card[c] = "expired"
    BY <2>1 DEF CardOK, Items
  <2> QED
    BY <2>2, <2>3, <2>4
<1> QED
  BY <1>1, ExpiryInvariant, PTL

\* An item is claimed no more often than it was granted retries, through
\* crashes, recovered leases and lost acknowledgements.
THEOREM ClaimsBounded == Spec => []RetriesBounded
<1>1. ExpiryInv => RetriesBounded
  <2> SUFFICES ASSUME ExpiryInv, NEW i \in Items
               PROVE  /\ claims[i] <= 1 + AutomaticRetries + item[i].manual
                      /\ item[i].attempts <= claims[i]
                      /\ item[i].status = "manual_retry_required" => item[i].automatic = AutomaticRetries
    BY DEF RetriesBounded
  <2>1. PICK r \in Item, n \in Nat : r = item[i] /\ n = claims[i]
    BY DEF ExpiryInv, TypeOK
  <2>2. ItemOK(r, n)
    BY <2>1 DEF ExpiryInv, ItemsOK
  <2>3. r.attempts \in Nat /\ r.automatic \in 0..AutomaticRetries /\ r.manual \in Nat /\ AutomaticRetries \in Nat
    BY ExpiryAssumption DEF Item
  <2> QED
    BY <2>1, <2>2, <2>3 DEF ItemOK
<1> QED
  BY <1>1, ExpiryInvariant, PTL

\* No step changes an item that is expired or skipped: stale goroutines,
\* recovery and manual retries leave it alone.
THEOREM FinalResults == Spec => FinalIsFinal
<1>1. ExpiryInv /\ [Next]_vars => [\A i \in Items : item[i].status \in Final => item'[i] = item[i]]_vars
  BY ExpiryStep DEF StepsForward, ForwardRow
<1> QED
  BY <1>1, ExpiryInvariant, PTL DEF Spec, FinalIsFinal

-----------------------------------------------------------------------------
(* Completed runs *)

\* A step that leaves the run of a day alone, though its items may go on from
\* an open status, or from their retry.
Drift(d) ==
  /\ \A i \in ItemsOf(d) :
        \/ item'[i].status = item[i].status
        \/ /\ item'[i].status # "none"
           /\ \/ item[i].status \in Open
              \/ item[i].status = "manual_retry_required" /\ i[2] \in run'[d].late
  /\ run'[d].status = run[d].status /\ run'[d].count = run[d].count
  /\ run'[d].tally = run[d].tally /\ run[d].late \subseteq run'[d].late

LEMMA TallyAgrees ==
  ASSUME NEW d, NEW f, NEW g, \A i \in ItemsOf(d) : f[i] = g[i]
  PROVE  TallyOf(d, f) = TallyOf(d, g)
<1>1. \A x : {i \in ItemsOf(d) : f[i] = x} = {i \in ItemsOf(d) : g[i] = x}
  OBVIOUS
<1> QED
  BY <1>1 DEF TallyOf

LEMMA DayItems ==
  ASSUME NEW d \in Days
  PROVE  /\ ItemsOf(d) \subseteq Items
         /\ \A i \in Items : i \in ItemsOf(d) <=> i[1] = d
BY DEF ItemsOf, Items

\* What was counted stays as it was before the retries.
LEMMA PastKept ==
  ASSUME NEW d, NEW f, NEW X, Past(d, f, X), \A i \in ItemsOf(d) : f[i] \notin Open, Drift(d)
  PROVE  Past(d, f, X)'
BY DEF Past, Drift, ItemsOf

LEMMA CountKept ==
  ASSUME NEW d \in Days, RunOK(d), run'[d].count = run[d].count,
         \A i \in ItemsOf(d) : item'[i].status = "none" <=> item[i].status = "none"
  PROVE  run'[d].count = Cardinality(Scheduled(d))'
<1>1. Scheduled(d)' = Scheduled(d)
  BY DEF Scheduled, ItemsOf
<1> QED
  BY <1>1 DEF RunOK

LEMMA DriftScheduled ==
  ASSUME NEW d, Drift(d)
  PROVE  \A i \in ItemsOf(d) : item'[i].status = "none" <=> item[i].status = "none"
BY DEF Drift, Open

LEMMA DayKept ==
  ASSUME NEW d \in Days, RunOK(d), Drift(d)
  PROVE  RunOK(d)'
<1>1. run'[d].count = Cardinality(Scheduled(d))'
  BY CountKept, DriftScheduled DEF Drift
<1>2. ASSUME run'[d].status = "completed"
      PROVE  \E f : Past(d, f, {})' /\ Accounts(d, f, run'[d].tally)
  <2>1. run[d].status = "completed" /\ run'[d].tally = run[d].tally
    BY <1>2 DEF Drift
  <2>2. PICK f : Past(d, f, {}) /\ Accounts(d, f, run[d].tally)
    BY <2>1 DEF RunOK
  <2>3. Past(d, f, {})'
    BY <2>2, PastKept DEF Accounts
  <2> QED
    BY <2>1, <2>2, <2>3
<1> QED
  BY <1>1, <1>2 DEF RunOK, Past, Accounts, ItemsOf, TallyOf

LEMMA ClosingKept ==
  ASSUME NEW h, ClosingOK(h), Closing(h) => Drift(h.item[1])
  PROVE  ClosingOK(h)'
<1> SUFFICES ASSUME Closing(h) PROVE ClosingOK(h)'
  BY DEF ClosingOK, Closing
<1>1. PICK d, i : i = h.item /\ d = h.item[1]
  OBVIOUS
<1>2. PICK f : Past(d, f, {i}) /\ f[i] = h.result /\ Accounts(d, f, h.tally)
  BY <1>1 DEF ClosingOK
<1>3. Past(d, f, {i})'
  BY <1>1, <1>2, PastKept DEF Accounts
<1>4. run'[d].status = "processing"
  BY <1>1 DEF ClosingOK, Drift
<1>5. Accounts(d, f, h.tally)'
  BY <1>2 DEF Accounts, TallyOf, ItemsOf
<1> QED
  BY <1>1, <1>2, <1>3, <1>4, <1>5 DEF ClosingOK

\* A goroutine about to complete a run works at an item of that run.
LEMMA ClosingDay ==
  ASSUME ExpiryInv, NEW v \in Workers, Closing(worker[v])
  PROVE  worker[v].item \in Items /\ worker[v].item[1] \in Days
BY DEF ExpiryInv, WorkersOK, WorkerOK, Closing, Items

\* The run of a manual retry: left as it was, or not locked by the retry.
LEMMA RetryRunKept ==
  ASSUME ExpiryInv, SettledInv, retry' = retry,
         \A d \in Days : /\ run[d].late \subseteq run'[d].late
                         /\ run[d].status = "completed" => run'[d].status = "completed" \/ ~RunLocked(d)
  PROVE  RetryRun'
<1> SUFFICES ASSUME retry # None PROVE RetryRun'
  BY DEF RetryRun
<1>1. PICK d \in Days : d = retry.item[1]
  BY DEF ExpiryInv, RetryOK, Items
<1>2. retry.reopens => RunLocked(d)
  BY <1>1 DEF RunLocked
<1>3. IF retry.reopens THEN run[d].status = "completed" ELSE retry.item[2] \in run[d].late
  BY <1>1 DEF SettledInv, RetryRun
<1> QED
  BY <1>1, <1>2, <1>3 DEF RetryRun

\* What a step has to show: every day drifts or is accounted for, and so is
\* the day of every goroutine that is about to complete a run.
LEMMA SettledKept ==
  ASSUME ExpiryInv, SettledInv, RetryRun',
         \A d \in Days : Drift(d) \/ RunOK(d)',
         \A v \in Workers : Closing(worker'[v]) => worker'[v] = worker[v] /\ Drift(worker[v].item[1])
  PROVE  SettledInv'
<1>1. \A d \in Days : RunOK(d)'
  BY DayKept DEF SettledInv
<1>2. ASSUME NEW v \in Workers PROVE ClosingOK(worker[v])'
  <2>1. CASE ~Closing(worker'[v])
    BY <2>1 DEF ClosingOK, Closing
  <2>2. CASE Closing(worker'[v])
    <3>1. PICK h : h = worker[v] /\ h = worker'[v]
      BY <2>2
    <3>2. ClosingOK(h) /\ Drift(h.item[1])
      BY <2>2, <3>1 DEF SettledInv
    <3>3. ClosingOK(h)'
      BY <3>2, ClosingKept
    <3> QED
      BY <3>1, <3>3 DEF ClosingOK, Closing
  <2> QED
    BY <2>1, <2>2
<1>3. OneCloses'
  BY DEF SettledInv, OneCloses, Closing
<1> QED
  BY <1>1, <1>2, <1>3 DEF SettledInv

\* Nothing but a manual retry, the state of a lease or the place of a
\* goroutine changes.
LEMMA SettledQuiet ==
  ASSUME ExpiryInv, SettledInv, RetryRun', run' = run,
         \A i \in Items : item'[i].status = item[i].status,
         \A v \in Workers : worker'[v] = worker[v] \/ worker'[v].pc # "prepared"
  PROVE  SettledInv'
<1>1. \A d \in Days : Drift(d)
  BY DayItems DEF Drift
<1>2. ASSUME NEW v \in Workers, Closing(worker'[v])
      PROVE  worker'[v] = worker[v] /\ Drift(worker[v].item[1])
  <2>1. worker'[v] = worker[v]
    BY <1>2 DEF Closing
  <2> QED
    BY <1>1, <1>2, <2>1, ClosingDay
<1> QED
  BY <1>1, <1>2, SettledKept

\* The same when no retry begins or ends.
LEMMA SettledStill ==
  ASSUME ExpiryInv, SettledInv, retry' = retry, run' = run,
         \A i \in Items : item'[i].status = item[i].status,
         \A v \in Workers : worker'[v] = worker[v] \/ worker'[v].pc # "prepared"
  PROVE  SettledInv'
<1>1. RetryRun'
  BY RetryRunKept
<1> QED
  BY <1>1, SettledQuiet

LEMMA SettledOutside ==
  ASSUME ExpiryInv, SettledInv,
         \/ MidnightPasses
         \/ \E e \in Executors : SkipBank(e)
         \/ \E c \in Cards, action \in Commands : CardCommand(c, action)
         \/ \E i \in Items : LeaseExpires(i) \/ BackoffElapses(i)
  PROVE  SettledInv'
<1>1. retry' = retry /\ run' = run /\ worker' = worker
  BY DEF MidnightPasses, SkipBank, CardCommand, LeaseExpires, BackoffElapses, rowVars
<1>2. \A i \in Items : item'[i].status = item[i].status
  <2>1. item \in [Items -> Item]
    BY DEF ExpiryInv, TypeOK
  <2>2. CASE item' = item
    BY <2>2
  <2>3. ASSUME NEW i \in Items, LeaseExpires(i) \/ BackoffElapses(i)
        PROVE  \A j \in Items : item'[j].status = item[j].status
    <3>1. PICK r \in Item : r = item[i]
      BY <2>1
    <3>2. item' = [item EXCEPT ![i] = [r EXCEPT !.current = FALSE]]
          \/ item' = [item EXCEPT ![i] = [r EXCEPT !.due = TRUE]]
      BY <2>1, <2>3, <3>1 DEF LeaseExpires, BackoffElapses
    <3>3. [r EXCEPT !.current = FALSE].status = r.status /\ [r EXCEPT !.due = TRUE].status = r.status
      BY DEF Item
    <3>4. PICK s : s.status = r.status /\ item' = [item EXCEPT ![i] = s]
      BY <3>2, <3>3
    <3> QED
      BY <2>1, <3>1, <3>4
  <2> QED
    BY <2>2, <2>3 DEF MidnightPasses, SkipBank, CardCommand, rowVars
<1> QED
  BY <1>1, <1>2, SettledStill

LEMMA SettledEnds ==
  ASSUME ExpiryInv, SettledInv,
         NEW e \in Executors, ProcessEnds(e), UNCHANGED <<rowVars, retry>>
  PROVE  SettledInv'
<1>1. \A v \in Workers : worker'[v] = worker[v] \/ worker'[v].pc # "prepared"
  BY DEF ProcessEnds, IdleWorker
<1> QED
  BY <1>1, SettledStill DEF rowVars

LEMMA SettledMove ==
  ASSUME ExpiryInv, SettledInv, NEW w \in Workers, UNCHANGED <<rowVars, retry>>,
         NEW h, worker' = [worker EXCEPT ![w] = h], h.pc # "prepared"
  PROVE  SettledInv'
<1>1. \A v \in Workers : worker'[v] = worker[v] \/ worker'[v].pc # "prepared"
  BY DEF ExpiryInv, TypeOK
<1> QED
  BY <1>1, SettledStill DEF rowVars

LEMMA SettledGoto ==
  ASSUME ExpiryInv, SettledInv, NEW w \in Workers, UNCHANGED <<rowVars, retry>>,
         Finish(w) \/ Goto(w, "verified") \/ Goto(w, "failed")
  PROVE  SettledInv'
<1>1. CASE Finish(w)
  <2>1. IdleWorker.pc # "prepared"
    BY DEF IdleWorker
  <2> QED
    BY <1>1, <2>1, SettledMove DEF Finish
<1>2. ASSUME NEW pc \in {"verified", "failed"}, Goto(w, pc) PROVE SettledInv'
  <2>1. PICK g \in Worker : g = worker[w]
    BY DEF ExpiryInv, TypeOK
  <2>2. PICK h : h = [g EXCEPT !.pc = pc]
    OBVIOUS
  <2>3. worker' = [worker EXCEPT ![w] = h]
    BY <1>2, <2>1, <2>2 DEF Goto, ExpiryInv, TypeOK
  <2>4. h.pc # "prepared"
    BY <2>1, <2>2 DEF Worker
  <2> QED
    BY <2>3, <2>4, SettledMove
<1> QED
  BY <1>1, <1>2

LEMMA SettledJudge ==
  ASSUME ExpiryInv, SettledInv, NEW w \in Workers, ApplyJudge(w)
  PROVE  SettledInv'
<1>1. UNCHANGED <<rowVars, retry>>
  BY DEF ApplyJudge
<1>2. CASE Goto(w, "failed")
  BY <1>1, <1>2, SettledGoto
<1>3. CASE ~Goto(w, "failed")
  <2>1. PICK x : worker' = [worker EXCEPT ![w].pc = "judged", ![w].result = x]
    BY <1>3 DEF ApplyJudge
  <2>2. PICK g \in Worker : g = worker[w]
    BY DEF ExpiryInv, TypeOK
  <2>3. PICK h : h = [g EXCEPT !.pc = "judged", !.result = x]
    OBVIOUS
  <2>4. worker' = [worker EXCEPT ![w] = h]
    BY <2>1, <2>2, <2>3 DEF ExpiryInv, TypeOK
  <2>5. h.pc # "prepared"
    BY <2>2, <2>3 DEF Worker
  <2> QED
    BY <1>1, <2>4, <2>5, SettledMove
<1> QED
  BY <1>2, <1>3

LEMMA SettledAborted ==
  ASSUME ExpiryInv, SettledInv, RetryAborted
  PROVE  SettledInv'
<1>1. run' = run /\ item' = item /\ worker' = worker /\ RetryRun'
  BY DEF RetryAborted, rowVars, RetryRun
<1> QED
  BY <1>1, SettledQuiet

\* completeExpiryRun looks at the items and locks the run.
LEMMA SettledPrepare ==
  ASSUME ExpiryInv, SettledInv, NEW w \in Workers, NEW x, Prepare(w, x),
         worker[w].pc # "idle", UNCHANGED <<rowVars, retry>>
  PROVE  SettledInv'
<1>1. PICK old \in Worker, i \in Items, d \in Days : old = worker[w] /\ i = old.item /\ d = i[1]
  BY DEF ExpiryInv, TypeOK, WorkersOK, WorkerOK, Items
<1>2. PICK status : status = [StatusOf EXCEPT ![i] = x]
  OBVIOUS
<1>3. PICK done \in BOOLEAN : done = Completable(d, status)
  BY DEF Completable
<1>4. PICK counts : counts = IF done THEN TallyOf(d, status) ELSE NoTally
  OBVIOUS
<1>5. PICK g : g = [old EXCEPT !.pc = "prepared", !.result = x, !.completes = done, !.tally = counts]
  OBVIOUS
<1>6. worker' = [worker EXCEPT ![w] = g] /\ (done => ~RunLocked(d))
  <2>1. /\ worker' = [worker EXCEPT ![w].pc = "prepared", ![w].result = x, ![w].completes = done, ![w].tally = counts]
        /\ done => ~RunLocked(d)
    BY <1>1, <1>2, <1>3, <1>4 DEF Prepare
  <2> QED
    BY <1>1, <1>5, <2>1 DEF ExpiryInv, TypeOK
<1>7. g.item = i /\ g.result = x /\ g.completes = done /\ g.tally = counts
  BY <1>1, <1>5 DEF Worker
<1>8. worker \in [Workers -> Worker] /\ item' = item /\ run' = run /\ retry' = retry
  BY DEF ExpiryInv, TypeOK, rowVars
<1>9. worker'[w] = g /\ \A v \in Workers : v # w => worker'[v] = worker[v]
  BY <1>6, <1>8
<1>10. ClosingOK(g)
  <2> SUFFICES ASSUME done
               PROVE  /\ run[d].status = "processing"
                      /\ Past(d, status, {i}) /\ status[i] = x /\ Accounts(d, status, counts)
    BY <1>1, <1>7 DEF ClosingOK, Closing
  <2>1. run[d].status = "processing" /\ \A j \in ItemsOf(d) : status[j] \notin Open
    BY <1>3 DEF Completable
  <2>2. i \in ItemsOf(d) /\ ItemsOf(d) \subseteq Items
    BY <1>1, DayItems
  <2>3. status[i] = x /\ \A j \in ItemsOf(d) : j # i => status[j] = item[j].status
    BY <1>2, <2>2 DEF StatusOf
  <2> QED
    BY <1>4, <2>1, <2>3 DEF Past, Accounts
<1>11. ASSUME NEW v \in Workers PROVE ClosingOK(worker[v])'
  <2>1. ClosingOK(worker'[v])
    BY <1>9, <1>10 DEF SettledInv
  <2>2. PICK h : h = worker'[v] /\ ClosingOK(h)
    BY <2>1
  <2>3. Closing(h) => Drift(h.item[1])
    BY <1>8 DEF Drift
  <2>4. ClosingOK(h)'
    BY <2>2, <2>3, ClosingKept
  <2> QED
    BY <2>2, <2>4 DEF ClosingOK, Closing
<1>12. OneCloses'
  <2>1. ASSUME NEW v \in Workers, v # w, Closing(worker[v]), Closing(g) PROVE worker[v].item[1] # d
    BY <1>6, <1>7, <2>1 DEF RunLocked, Closing
  <2>2. \A v \in Workers : v # w /\ Closing(worker[v]) /\ Closing(g) => worker[v].item[1] # g.item[1]
    BY <1>1, <1>7, <2>1
  <2> QED
    BY <1>9, <2>2 DEF SettledInv, OneCloses, Closing
<1>13. RetryRun'
  BY <1>8, RetryRunKept
<1>14. \A b \in Days : RunOK(b)'
  <2>1. \A b \in Days : Drift(b)
    BY <1>8 DEF Drift
  <2> QED
    BY <2>1, DayKept DEF SettledInv
<1> QED
  BY <1>11, <1>12, <1>13, <1>14 DEF SettledInv

LEMMA SettledFinish ==
  ASSUME ExpiryInv, SettledInv, NEW w \in Workers, ApplyFinish(w) \/ RequeueExpiryItem(w)
  PROVE  SettledInv'
<1>1. worker[w].pc # "idle" /\ UNCHANGED <<rowVars, retry>>
  BY DEF ApplyFinish, RequeueExpiryItem
<1>2. CASE Goto(w, "failed") \/ Finish(w)
  BY <1>1, <1>2, SettledGoto
<1>3. CASE ~(Goto(w, "failed") \/ Finish(w))
  <2>1. PICK x : Prepare(w, x)
    BY <1>3 DEF ApplyFinish, RequeueExpiryItem
  <2> QED
    BY <1>1, <2>1, SettledPrepare
<1> QED
  BY <1>2, <1>3

\* A step that leaves runs alone, and takes items only from where they drift.
LEMMA SettledDrift ==
  ASSUME ExpiryInv, SettledInv, RetryRun',
         \A d \in Days : Drift(d),
         \A v \in Workers : worker'[v] = worker[v] \/ worker'[v].pc # "prepared"
  PROVE  SettledInv'
<1>1. ASSUME NEW v \in Workers, Closing(worker'[v])
      PROVE  worker'[v] = worker[v] /\ Drift(worker[v].item[1])
  <2>1. worker'[v] = worker[v]
    BY <1>1 DEF Closing
  <2> QED
    BY <1>1, <2>1, ClosingDay
<1> QED
  BY <1>1, SettledKept

LEMMA SettledClaim ==
  ASSUME ExpiryInv, SettledInv, NEW w \in Workers, NEW i \in Items, ClaimExpiryItem(w, i)
  PROVE  SettledInv'
<1>1. /\ run' = run /\ retry' = retry /\ item[i].status \in Open
      /\ item \in [Items -> Item] /\ worker \in [Workers -> Worker]
  BY DEF ClaimExpiryItem, Claimable, ExpiryInv, TypeOK, Open
<1>2. PICK s : s.status = "processing" /\ item' = [item EXCEPT ![i] = s]
  <2>1. PICK r \in Item : r = item[i]
    BY <1>1
  <2>2. PICK s : s = [r EXCEPT !.status = "processing", !.owner = Identity[w], !.current = TRUE, !.version = @ + 1]
    OBVIOUS
  <2>3. item' = [item EXCEPT ![i] = s]
    BY <1>1, <2>1, <2>2 DEF ClaimExpiryItem
  <2>4. s.status = "processing"
    BY <2>2 DEF Item
  <2> QED
    BY <2>3, <2>4
<1>3. PICK g : worker' = [worker EXCEPT ![w] = g] /\ g.pc = "claimed"
  <2>1. PICK g : /\ g = [IdleWorker EXCEPT !.pc = "claimed", !.item = i, !.version = item[i].version + 1,
                                          !.automatic = item[i].automatic]
                 /\ worker' = [worker EXCEPT ![w] = g]
    BY DEF ClaimExpiryItem
  <2>2. g.pc = "claimed"
    BY <2>1 DEF IdleWorker
  <2> QED
    BY <2>1, <2>2
<1>4. \A d \in Days : Drift(d)
  BY <1>1, <1>2, DayItems DEF Drift
<1>5. \A v \in Workers : worker'[v] = worker[v] \/ worker'[v].pc # "prepared"
  BY <1>1, <1>3
<1>6. RetryRun'
  BY <1>1, RetryRunKept
<1> QED
  BY <1>4, <1>5, <1>6, SettledDrift

LEMMA SettledCommit ==
  ASSUME ExpiryInv, SettledInv, NEW w \in Workers, worker[w].pc = "prepared",
         CommitEffects(w), retry' = retry,
         NEW g, worker' = [worker EXCEPT ![w] = g], g.pc # "prepared"
  PROVE  SettledInv'
<1>1. PICK h \in Worker, i \in Items, d \in Days : h = worker[w] /\ i = h.item /\ d = i[1]
  BY DEF ExpiryInv, TypeOK, WorkersOK, WorkerOK, Items
<1>2. PICK x : x = h.result
  OBVIOUS
<1>3. /\ item \in [Items -> Item] /\ worker \in [Workers -> Worker] /\ run \in [Days -> Run]
      /\ WorkerOK(h) /\ h.pc = "prepared"
  BY <1>1 DEF ExpiryInv, TypeOK, WorkersOK
<1>4. item[i].status = "processing" /\ item[i].status \in Open
  BY <1>1, <1>3 DEF WorkerOK, Locks, Open
<1>5. x # "none"
  BY <1>2, <1>3 DEF WorkerOK, Final, AfterFailure
<1>6. PICK s : item' = [item EXCEPT ![i] = s] /\ s.status = x
  <2>1. PICK r \in Item : r = item[i]
    BY <1>3
  <2>2. PICK s : s = IF x \in Final THEN DoneItem(r, x) ELSE FailedItem(r, x, FALSE)
    OBVIOUS
  <2>3. item' = [item EXCEPT ![i] = s]
    BY <1>1, <1>2, <2>1, <2>2 DEF CommitEffects
  <2>4. DoneItem(r, x).status = x /\ FailedItem(r, x, FALSE).status = x
    BY DEF DoneItem, FailedItem, Item
  <2> QED
    BY <2>2, <2>3, <2>4
<1>7. run' = IF h.completes THEN [run EXCEPT ![d].status = "completed", ![d].tally = h.tally] ELSE run
  BY <1>1 DEF CommitEffects
<1>8. worker'[w] = g /\ \A v \in Workers : v # w => worker'[v] = worker[v]
  BY <1>3
<1>9. CASE ~h.completes
  <2>1. run' = run
    BY <1>7, <1>9
  <2>2. \A b \in Days : Drift(b)
    BY <1>3, <1>4, <1>5, <1>6, <2>1, DayItems DEF Drift
  <2>3. RetryRun'
    BY <2>1, RetryRunKept
  <2> QED
    BY <1>8, <2>2, <2>3, SettledDrift
<1>10. CASE h.completes
  <2>1. PICK q \in Run, t \in Tally : q = run[d] /\ t = h.tally
    BY <1>3 DEF Worker
  <2>2. run' = [run EXCEPT ![d] = [q EXCEPT !.status = "completed", !.tally = t]]
    BY <1>3, <1>7, <1>10, <2>1
  <2>3. /\ run'[d].status = "completed" /\ run'[d].tally = t
        /\ run'[d].count = q.count /\ run'[d].late = q.late
    BY <1>3, <2>1, <2>2 DEF Run
  <2>4. \A b \in Days : b # d => run'[b] = run[b] /\ Drift(b)
    <3>1. \A b \in Days : b # d => run'[b] = run[b] /\ \A j \in ItemsOf(b) : item'[j] = item[j]
      BY <1>1, <1>3, <1>6, <2>2, DayItems
    <3> QED
      BY <3>1 DEF Drift
  <2>5. ItemsOf(d) \subseteq Items /\ i \in ItemsOf(d)
    BY <1>1, DayItems
  <2>6. item'[i].status = x /\ \A j \in ItemsOf(d) : j # i => item'[j] = item[j]
    BY <1>3, <1>6, <2>5
  <2>7. Closing(h)
    BY <1>3, <1>10 DEF Closing
  <2>8. PICK f : Past(d, f, {i}) /\ f[i] = x /\ Accounts(d, f, t)
    BY <1>1, <1>2, <2>1, <2>7 DEF SettledInv, ClosingOK
  <2>9. Past(d, f, {})'
    BY <2>1, <2>3, <2>6, <2>8 DEF Past, ItemsOf
  <2>10. RunOK(d)'
    <3>1. RunOK(d) /\ run'[d].count = run[d].count
      BY <2>1, <2>3 DEF SettledInv
    <3>2. \A j \in ItemsOf(d) : item'[j].status = "none" <=> item[j].status = "none"
      BY <1>4, <1>5, <2>6
    <3>3. run'[d].count = Cardinality(Scheduled(d))'
      BY <3>1, <3>2, CountKept
    <3>4. Accounts(d, f, run[d].tally)'
      BY <2>3, <2>8 DEF Accounts, TallyOf, ItemsOf
    <3> QED
      BY <2>9, <3>3, <3>4 DEF RunOK
  <2>11. ASSUME NEW v \in Workers, Closing(worker'[v])
         PROVE  worker'[v] = worker[v] /\ Drift(worker[v].item[1])
    <3>1. v # w /\ worker'[v] = worker[v]
      BY <1>8, <2>11 DEF Closing
    <3>2. worker[v].item[1] # d
      BY <1>1, <2>7, <2>11, <3>1 DEF SettledInv, OneCloses
    <3> QED
      BY <2>4, <2>11, <3>1, <3>2, ClosingDay
  <2>12. RetryRun'
    BY <2>1, <2>3, <2>4, RetryRunKept
  <2> QED
    BY <2>4, <2>10, <2>11, <2>12, SettledKept
<1> QED
  BY <1>9, <1>10

LEMMA SettledCommits ==
  ASSUME ExpiryInv, SettledInv, NEW w \in Workers, Commit(w) \/ CommitUnacknowledged(w)
  PROVE  SettledInv'
<1>1. worker[w].pc = "prepared" /\ CommitEffects(w) /\ retry' = retry
  BY DEF Commit, CommitUnacknowledged
<1>2. PICK g : worker' = [worker EXCEPT ![w] = g] /\ g.pc # "prepared"
  <2>1. CASE Finish(w)
    <3>1. IdleWorker.pc # "prepared"
      BY DEF IdleWorker
    <3> QED
      BY <2>1, <3>1 DEF Finish
  <2>2. CASE Goto(w, "failed")
    <3>1. PICK h \in Worker : h = worker[w]
      BY DEF ExpiryInv, TypeOK
    <3>2. PICK g : g = [h EXCEPT !.pc = "failed"]
      OBVIOUS
    <3>3. worker' = [worker EXCEPT ![w] = g]
      BY <2>2, <3>1, <3>2 DEF Goto, ExpiryInv, TypeOK
    <3>4. g.pc # "prepared"
      BY <3>2 DEF Worker
    <3> QED
      BY <3>3, <3>4
  <2> QED
    BY <2>1, <2>2 DEF Commit, CommitUnacknowledged
<1> QED
  BY <1>1, <1>2, SettledCommit

LEMMA SettledEnsure ==
  ASSUME ExpiryInv, SettledInv, NEW e \in Executors, EnsureExpiryRun(e)
  PROVE  SettledInv'
<1>1. PICK d \in Days : d = today
  BY DEF ExpiryInv, TypeOK
<1>2. PICK new \in SUBSET Eligible :
        /\ item' = [i \in Items |-> IF i \in {d} \X new
                                      THEN [NewItem EXCEPT !.status = "pending", !.due = TRUE]
                                      ELSE item[i]]
        /\ run' = [run EXCEPT ![d].count = @ + Cardinality(new),
                              ![d].status = IF @ = "completed" /\ new = {} THEN "completed" ELSE "processing"]
  BY <1>1 DEF EnsureExpiryRun
<1>3. /\ ~RunLocked(d) /\ retry' = retry /\ worker' = worker
      /\ run \in [Days -> Run] /\ RunOK(d)
  BY <1>1 DEF EnsureExpiryRun, SettledInv, ExpiryInv, TypeOK
<1>4. PICK q \in Run, n \in Nat : q = run[d] /\ n = Cardinality(new)
  <2>1. IsFiniteSet(new)
    BY ExpiryAssumption, FS_Subset DEF Eligible
  <2> QED
    BY <1>3, <2>1, FS_CardinalityType
<1>5. PICK x : x = IF q.status = "completed" /\ new = {} THEN "completed" ELSE "processing"
  OBVIOUS
<1>6. run' = [run EXCEPT ![d] = [q EXCEPT !.count = q.count + n, !.status = x]]
  BY <1>2, <1>3, <1>4, <1>5
<1>7. /\ run'[d].count = q.count + n /\ run'[d].status = x
      /\ run'[d].tally = q.tally /\ run'[d].late = q.late
  BY <1>3, <1>6 DEF Run
<1>8. \A b \in Days : b # d => run'[b] = run[b] /\ Drift(b)
  BY <1>2, <1>3, <1>6, DayItems DEF Drift, ItemsOf
<1>9. ItemsOf(d) \subseteq Items /\ {d} \X new \subseteq ItemsOf(d)
  BY DayItems DEF ItemsOf, Eligible
<1>10. /\ \A i \in {d} \X new : item[i].status = "none" /\ item'[i].status = "pending"
       /\ \A i \in ItemsOf(d) : i \notin {d} \X new => item'[i] = item[i]
  <2>1. [NewItem EXCEPT !.status = "pending", !.due = TRUE].status = "pending"
    BY DEF NewItem
  <2>2. \A i \in {d} \X new : item[i].status = "none"
    BY <1>1 DEF Eligible
  <2> QED
    BY <1>2, <1>9, <2>1, <2>2
<1>11. ASSUME NEW v \in Workers
       PROVE  Closing(worker'[v]) => worker'[v] = worker[v] /\ Drift(worker[v].item[1])
  BY <1>3, <1>8, ClosingDay DEF RunLocked, Closing
<1>12. ASSUME new = {} PROVE RunOK(d)'
  <2>1. n = 0
    BY <1>4, <1>12, FS_EmptySet
  <2>2. q.count + n = q.count
    BY <2>1 DEF Run
  <2>3. CASE x = "completed"
    <3>1. q.status = "completed"
      BY <1>5, <2>3
    <3>2. run'[d] = q
      BY <1>3, <1>6, <2>2, <2>3, <3>1 DEF Run
    <3>3. Drift(d)
      BY <1>4, <1>10, <1>12, <3>2 DEF Drift
    <3> QED
      BY <1>3, <3>3, DayKept
  <2>4. CASE x # "completed"
    <3>1. run'[d].count = Cardinality(Scheduled(d))'
      BY <1>3, <1>4, <1>7, <1>10, <1>12, <2>2, CountKept
    <3> QED
      BY <1>7, <2>4, <3>1 DEF RunOK
  <2> QED
    BY <2>3, <2>4
<1>13. ASSUME new # {} PROVE RunOK(d)'
  <2>1. x = "processing"
    BY <1>5, <1>13
  <2>2. Scheduled(d)' = Scheduled(d) \cup ({d} \X new)
    BY <1>9, <1>10 DEF Scheduled, ItemsOf
  <2>3. Scheduled(d) \cap ({d} \X new) = {}
    BY <1>10 DEF Scheduled
  <2>4. Cardinality({d} \X new) = n /\ IsFiniteSet({d} \X new)
    <3>1. IsFiniteSet(new) /\ IsFiniteSet({d}) /\ Cardinality({d}) = 1
      BY ExpiryAssumption, FS_Subset, FS_Singleton DEF Eligible
    <3>2. Cardinality({d} \X new) = 1 * n /\ IsFiniteSet({d} \X new)
      BY <1>4, <3>1, FS_Product
    <3> QED
      BY <3>2
  <2>5. IsFiniteSet(Scheduled(d))
    BY DayFinite, FS_Subset DEF Scheduled
  <2>6. Cardinality(Scheduled(d)') = Cardinality(Scheduled(d)) + n
    <3>1. PICK S, T : S = Scheduled(d) /\ T = {d} \X new
      OBVIOUS
    <3>2. Cardinality(S \cup T) = Cardinality(S) + Cardinality(T) - Cardinality(S \cap T)
      BY <2>4, <2>5, <3>1, FS_Union
    <3>3. Cardinality(S \cap T) = 0 /\ Cardinality(S) \in Nat
      BY <2>3, <2>5, <3>1, FS_EmptySet, FS_CardinalityType
    <3> QED
      BY <2>2, <2>4, <3>1, <3>2, <3>3
  <2> QED
    BY <1>3, <1>4, <1>7, <2>1, <2>6 DEF RunOK
<1>14. RetryRun'
  BY <1>3, <1>4, <1>7, <1>8, RetryRunKept
<1> QED
  BY <1>8, <1>11, <1>12, <1>13, <1>14, SettledKept

LEMMA SettledRecover ==
  ASSUME ExpiryInv, SettledInv, NEW e \in Executors, RecoverExpiryItems(e)
  PROVE  SettledInv'
<1>1. PICK status : status = StatusOf'
  OBVIOUS
<1> DEFINE Completed(d) == (\E i \in ItemsOf(d) : Recoverable(i)) /\ Completable(d, status)
<1>2. /\ item' = [i \in Items |->
             IF Recoverable(i) THEN FailedItem(item[i], AfterFailure(item[i].automatic), TRUE)
                               ELSE item[i]]
      /\ worker' = worker /\ retry' = retry
  BY DEF RecoverExpiryItems
<1>3. /\ run' = [d \in Days |-> IF Completed(d)
                                  THEN [run[d] EXCEPT !.status = "completed", !.tally = TallyOf(d, status)]
                                  ELSE run[d]]
      /\ \A d \in Days : Completed(d) => ~RunLocked(d)
  <2>1. status = [i \in Items |-> item'[i].status]
    BY <1>1 DEF StatusOf
  <2> QED
    BY <2>1 DEF RecoverExpiryItems
<1>4. item \in [Items -> Item] /\ run \in [Days -> Run]
  BY DEF ExpiryInv, TypeOK
<1>5. ASSUME NEW i \in Items
      PROVE  \/ item'[i].status = item[i].status
             \/ item[i].status \in Open /\ item'[i].status # "none"
  <2>1. CASE ~Recoverable(i)
    BY <1>2, <2>1
  <2>2. CASE Recoverable(i)
    <3>1. PICK r \in Item : r = item[i]
      BY <1>4
    <3>2. PICK x : x = AfterFailure(r.automatic) /\ x # "none"
      BY DEF AfterFailure
    <3>3. FailedItem(r, x, TRUE).status = x
      BY DEF FailedItem, Item
    <3>4. item[i].status = "processing"
      BY <2>2 DEF Recoverable
    <3> QED
      BY <1>2, <2>2, <3>1, <3>2, <3>3, <3>4 DEF Open
  <2> QED
    BY <2>1, <2>2
<1>6. ASSUME NEW d \in Days, ~Completed(d)
      PROVE  run'[d] = run[d] /\ Drift(d)
  <2>1. run'[d] = run[d]
    BY <1>3, <1>6
  <2> HIDE DEF Completed
  <2> QED
    BY <1>5, <2>1, DayItems DEF Drift
<1>7. ASSUME NEW d \in Days, Completed(d)
      PROVE  RunOK(d)' /\ run'[d].late = run[d].late /\ run'[d].status = "completed"
  <2>1. ItemsOf(d) \subseteq Items /\ RunOK(d)
    BY DayItems DEF SettledInv
  <2>2. PICK q \in Run, t \in Tally : q = run[d] /\ t = TallyOf(d, status)
    BY <1>4, TallyTyped
  <2>3. run'[d] = [q EXCEPT !.status = "completed", !.tally = t]
    BY <1>3, <1>7, <2>2
  <2>4. /\ run'[d].count = run[d].count /\ run'[d].tally = t
        /\ run'[d].late = run[d].late /\ run'[d].status = "completed"
    BY <2>2, <2>3 DEF Run
  <2>5. \A i \in ItemsOf(d) : item'[i].status = "none" <=> item[i].status = "none"
    BY <1>5, <2>1 DEF Open
  <2>6. run'[d].count = Cardinality(Scheduled(d))'
    BY <2>1, <2>4, <2>5, CountKept
  <2>7. \A i \in ItemsOf(d) : status[i] = item'[i].status /\ status[i] \notin Open
    BY <1>1, <1>7, <2>1 DEF Completable, StatusOf
  <2>8. Past(d, status, {})'
    BY <2>7 DEF Past, ItemsOf
  <2>9. Accounts(d, status, run[d].tally)'
    BY <2>2, <2>4, <2>7 DEF Accounts, TallyOf, ItemsOf
  <2> QED
    BY <2>4, <2>6, <2>8, <2>9 DEF RunOK
<1> HIDE DEF Completed
<1>8. ASSUME NEW v \in Workers, Closing(worker'[v])
      PROVE  worker'[v] = worker[v] /\ Drift(worker[v].item[1])
  <2>1. PICK h \in Worker, d \in Days : h = worker[v] /\ h = worker'[v] /\ d = h.item[1]
    BY <1>2, <1>8, ClosingDay DEF ExpiryInv, TypeOK
  <2>2. RunLocked(d)
    BY <1>8, <2>1 DEF RunLocked, Closing
  <2> QED
    BY <1>3, <1>6, <2>1, <2>2
<1>9. RetryRun'
  BY <1>2, <1>6, <1>7, RetryRunKept
<1> QED
  BY <1>6, <1>7, <1>8, <1>9, SettledKept

\* An operator asks for a retry: of a completed run, or of one that is not.
LEMMA SettledRetry ==
  ASSUME ExpiryInv, SettledInv, NEW i \in Items, RetryExpiryItem(i)
  PROVE  SettledInv'
<1>1. PICK d \in Days, c \in Cards : d = i[1] /\ c = i[2]
  BY DEF Items
<1>2. /\ item' = item /\ worker' = worker /\ run \in [Days -> Run]
      /\ retry' = [item |-> i, reopens |-> run[d].status = "completed"]
  BY <1>1 DEF RetryExpiryItem, ExpiryInv, TypeOK
<1>3. PICK q \in Run : q = run[d]
  BY <1>2
<1>4. \/ run' = run /\ run[d].status = "completed"
      \/ run' = [run EXCEPT ![d] = [q EXCEPT !.late = q.late \cup {c}]] /\ run[d].status # "completed"
  BY <1>1, <1>2, <1>3 DEF RetryExpiryItem
<1>5. /\ run'[d].status = q.status /\ run'[d].count = q.count /\ run'[d].tally = q.tally
      /\ q.late \subseteq run'[d].late /\ (q.status # "completed" => c \in run'[d].late)
      /\ \A b \in Days : b # d => run'[b] = run[b]
  BY <1>2, <1>3, <1>4 DEF Run
<1>6. \A b \in Days : Drift(b)
  BY <1>2, <1>3, <1>5 DEF Drift
<1>7. RetryRun'
  <2>1. retry'.item = i /\ retry'.reopens = (q.status = "completed")
    BY <1>2, <1>3
  <2> QED
    BY <1>1, <1>5, <2>1 DEF RetryRun
<1> QED
  BY <1>2, <1>6, <1>7, SettledDrift

\* The retry takes effect, perhaps on a run completed since it looked.
LEMMA SettledRetried ==
  ASSUME ExpiryInv, SettledInv, RetryCommit
  PROVE  SettledInv'
<1>1. PICK i \in Items, d \in Days, c \in Cards : i = retry.item /\ d = i[1] /\ c = i[2]
  BY DEF RetryCommit, ExpiryInv, RetryOK, Items
<1>2. /\ retry # None /\ retry' = None /\ worker' = worker /\ item \in [Items -> Item] /\ run \in [Days -> Run]
      /\ item[i].status = "manual_retry_required"
  BY <1>1 DEF RetryCommit, ExpiryInv, TypeOK, RetryOK
<1>3. PICK s : item' = [item EXCEPT ![i] = s] /\ s.status = "pending"
  <2>1. PICK r \in Item : r = item[i]
    BY <1>2
  <2>2. PICK s : s = [r EXCEPT !.status = "pending", !.due = TRUE, !.manual = @ + 1]
    OBVIOUS
  <2>3. item' = [item EXCEPT ![i] = s]
    BY <1>1, <1>2, <2>1, <2>2 DEF RetryCommit
  <2>4. s.status = "pending"
    BY <2>2 DEF Item
  <2> QED
    BY <2>3, <2>4
<1>4. RetryRun'
  BY <1>2 DEF RetryRun
<1>5. CASE ~retry.reopens
  <2>1. run' = run /\ c \in run[d].late
    BY <1>1, <1>2, <1>5 DEF RetryCommit, SettledInv, RetryRun
  <2>2. \A b \in Days : Drift(b)
    BY <1>1, <1>2, <1>3, <2>1, DayItems DEF Drift
  <2> QED
    BY <1>2, <1>4, <2>2, SettledDrift
<1>6. CASE retry.reopens
  <2>1. PICK q \in Run : q = run[d]
    BY <1>2
  <2>2. run' = [run EXCEPT ![d] = [q EXCEPT !.status = "processing", !.late = {}]]
    BY <1>1, <1>2, <1>6, <2>1 DEF RetryCommit
  <2>3. run'[d].status = "processing" /\ run'[d].count = q.count /\ run[d].status = "completed"
    BY <1>1, <1>2, <1>6, <2>1, <2>2 DEF Run, SettledInv, RetryRun
  <2>4. \A b \in Days : b # d => Drift(b)
    <3>1. \A b \in Days : b # d => run'[b] = run[b] /\ \A j \in ItemsOf(b) : item'[j] = item[j]
      BY <1>1, <1>2, <1>3, <2>2, DayItems
    <3> QED
      BY <3>1 DEF Drift
  <2>5. RunOK(d)'
    <3>1. \A j \in ItemsOf(d) : item'[j].status = "none" <=> item[j].status = "none"
      BY <1>2, <1>3, DayItems
    <3>2. run'[d].count = Cardinality(Scheduled(d))'
      BY <2>1, <2>3, <3>1, CountKept DEF SettledInv
    <3> QED
      BY <2>3, <3>2 DEF RunOK
  <2>6. ASSUME NEW v \in Workers, Closing(worker'[v])
        PROVE  worker'[v] = worker[v] /\ Drift(worker[v].item[1])
    <3>1. Closing(worker[v]) /\ worker'[v] = worker[v]
      BY <1>2, <2>6 DEF Closing
    <3>2. worker[v].item[1] # d
      BY <2>3, <3>1 DEF SettledInv, ClosingOK
    <3> QED
      BY <2>4, <3>1, <3>2, ClosingDay
  <2> QED
    BY <1>4, <2>4, <2>5, <2>6, SettledKept
<1> QED
  BY <1>5, <1>6

LEMMA SettledInit == Init => SettledInv
<1> SUFFICES ASSUME Init PROVE SettledInv
  OBVIOUS
<1>1. \A w \in Workers : ~Closing(worker[w])
  BY DEF Init, IdleWorker, Closing
<1>2. (\A w \in Workers : ClosingOK(worker[w])) /\ OneCloses /\ RetryRun
  BY <1>1 DEF ClosingOK, OneCloses, RetryRun, Init
<1>3. ASSUME NEW d \in Days PROVE RunOK(d)
  <2>1. \A i \in ItemsOf(d) : item[i].status = "none"
    BY DayItems DEF Init, NewItem
  <2>2. Scheduled(d) = {}
    BY <2>1 DEF Scheduled
  <2>3. run[d].count = 0 /\ run[d].status = "none"
    BY DEF Init
  <2> QED
    BY <2>2, <2>3, FS_EmptySet DEF RunOK
<1> QED
  BY <1>2, <1>3 DEF SettledInv

LEMMA SettledStep == ExpiryInv /\ SettledInv /\ [Next]_vars => SettledInv'
<1> SUFFICES ASSUME ExpiryInv, SettledInv, [Next]_vars PROVE SettledInv'
  OBVIOUS
<1>1. CASE UNCHANGED vars
  BY <1>1, SettledStill DEF vars
<1>2. CASE RetryCommit \/ RetryAborted \/ \E i \in Items : RetryExpiryItem(i)
  BY <1>2, SettledRetried, SettledAborted, SettledRetry
<1>3. CASE \E e \in Executors : CycleStep(e) \/ ExecutorExits(e)
  <2>1. PICK e \in Executors : CycleStep(e) \/ ExecutorExits(e)
    BY <1>3
  <2>2. CASE EnsureRaises(e) \/ RecoverRaises(e) \/ ExecutorExits(e)
    BY <2>2, SettledEnds DEF EnsureRaises, RecoverRaises, ExecutorExits
  <2>3. ASSUME NEW w \in Workers, NEW i \in Items, ClaimRaises(w, i) PROVE SettledInv'
    BY <2>3, ExpiryAssumption, SettledEnds DEF ClaimRaises
  <2> QED
    BY <2>1, <2>2, <2>3, SettledEnsure, SettledRecover, SettledClaim, SettledOutside DEF CycleStep
<1>4. CASE \E w \in Workers : RunExpiry(w) \/ Errors(w)
  <2>1. PICK w \in Workers : RunExpiry(w) \/ Errors(w)
    BY <1>4
  <2>2. CASE ApplyVerify(w) \/ ApplyError(w) \/ RequeueError(w)
    BY <2>2, SettledGoto DEF ApplyVerify, ApplyError, RequeueError
  <2> QED
    BY <2>1, <2>2, SettledJudge, SettledFinish, SettledCommits DEF RunExpiry, Errors
<1> QED
  BY <1>1, <1>2, <1>3, <1>4, SettledOutside DEF Next

\* The count of a run is that of the results it accounts for.
LEMMA CountsExact ==
  ASSUME NEW d \in Days, item \in [Items -> Item], RunOK(d), NEW f, Past(d, f, {}),
         \A i \in ItemsOf(d) : f[i] \notin Open, NEW t, t = TallyOf(d, f)
  PROVE  run[d].count = t.expired + t.skipped + t.manual
<1> DEFINE With(x) == {i \in ItemsOf(d) : f[i] = x}
<1>1. ItemsOf(d) \subseteq Items
  BY DayItems
<1>2. \A x : IsFiniteSet(With(x)) /\ Cardinality(With(x)) \in Nat
  BY DayFinite, FS_Subset, FS_CardinalityType
<1>3. PICK E, S, M : E = With("expired") /\ S = With("skipped_already_expired") /\ M = With("manual_retry_required")
  OBVIOUS
<1>4. t = [expired |-> Cardinality(E), skipped |-> Cardinality(S), manual |-> Cardinality(M)]
  BY <1>3 DEF TallyOf
<1>5. \A i \in ItemsOf(d) : item[i].status \in ItemStates
  BY <1>1 DEF Item
<1>6. Scheduled(d) = (E \cup S) \cup M
  BY <1>3, <1>5 DEF Scheduled, ItemStates, Settled, Past
<1>7. E \cap S = {} /\ (E \cup S) \cap M = {}
  BY <1>3
<1>8. /\ IsFiniteSet(E) /\ IsFiniteSet(S) /\ IsFiniteSet(M)
      /\ Cardinality(E) \in Nat /\ Cardinality(S) \in Nat /\ Cardinality(M) \in Nat
  BY <1>2, <1>3
<1> HIDE DEF With
<1>9. IsFiniteSet(E \cup S) /\ Cardinality(E \cup S) = Cardinality(E) + Cardinality(S)
  <2>1. IsFiniteSet(E \cup S) /\ Cardinality(E \cup S) = Cardinality(E) + Cardinality(S) - Cardinality(E \cap S)
    BY <1>8, FS_Union
  <2>2. Cardinality(E \cap S) = 0
    BY <1>7, FS_EmptySet
  <2> QED
    BY <1>8, <2>1, <2>2
<1>10. Cardinality((E \cup S) \cup M) = Cardinality(E) + Cardinality(S) + Cardinality(M)
  <2>1. PICK U : U = E \cup S
    OBVIOUS
  <2>2. Cardinality(U \cup M) = Cardinality(U) + Cardinality(M) - Cardinality(U \cap M)
    BY <1>8, <1>9, <2>1, FS_Union
  <2>3. Cardinality(U \cap M) = 0
    BY <1>7, <2>1, FS_EmptySet
  <2> QED
    BY <1>8, <1>9, <2>1, <2>2, <2>3
<1> QED
  BY <1>4, <1>6, <1>10 DEF RunOK

\* The items counted as they were before their retry are late ones.
LEMMA SettledExact ==
  ASSUME ExpiryInv, SettledInv
  PROVE  CompletedRunsAreSettled
<1> SUFFICES ASSUME NEW d \in Days, run[d].status = "completed"
             PROVE  \E missed \in SUBSET run[d].late :
                      /\ \A i \in ItemsOf(d) : BeforeRetry(d, missed)[i] \notin Open
                      /\ run[d].tally = TallyOf(d, BeforeRetry(d, missed))
                      /\ run[d].count = run[d].tally.expired + run[d].tally.skipped + run[d].tally.manual
  BY DEF CompletedRunsAreSettled
<1>1. RunOK(d) /\ item \in [Items -> Item]
  BY DEF SettledInv, ExpiryInv, TypeOK
<1>2. PICK f : Past(d, f, {}) /\ Accounts(d, f, run[d].tally)
  BY <1>1 DEF RunOK
<1>3. PICK missed \in SUBSET run[d].late :
        missed = {c \in run[d].late : f[<<d, c>>] = "manual_retry_required"}
  OBVIOUS
<1>4. ASSUME NEW i \in ItemsOf(d) PROVE BeforeRetry(d, missed)[i] = f[i]
  <2>1. PICK c \in Cards : i = <<d, c>> /\ i[2] = c /\ i \in Items
    BY DayItems DEF ItemsOf
  <2>2. i \in {d} \X missed <=> c \in run[d].late /\ f[i] = "manual_retry_required"
    BY <1>3, <2>1
  <2>3. f[i] = item[i].status \/ (f[i] = "manual_retry_required" /\ c \in run[d].late)
    BY <1>2, <2>1 DEF Past
  <2> QED
    BY <2>1, <2>2, <2>3 DEF BeforeRetry
<1>5. PICK g : g = BeforeRetry(d, missed)
  OBVIOUS
<1>6. TallyOf(d, f) = TallyOf(d, g)
  BY <1>4, <1>5, TallyAgrees
<1>7. PICK t : t = run[d].tally /\ t = TallyOf(d, f)
  BY <1>2 DEF Accounts
<1>8. run[d].count = t.expired + t.skipped + t.manual
  BY <1>1, <1>2, <1>7, CountsExact DEF Accounts
<1> QED
  BY <1>2, <1>4, <1>5, <1>6, <1>7, <1>8 DEF Accounts

\* A completed run accounts for every one of its items, whatever goroutines
\* end together, expire or are recovered and whenever operators retry items:
\* the goroutine that completes a run had seen its last open item settled.  An
\* item it counts as it is no longer was retried before the run was completed.
THEOREM SettledRuns == Spec => []CompletedRunsAreSettled
<1>1. Init => ExpiryInv /\ SettledInv
  BY ExpiryInit, SettledInit
<1>2. (ExpiryInv /\ SettledInv) /\ [Next]_vars => (ExpiryInv /\ SettledInv)'
  BY ExpiryStep, SettledStep DEF StepsForward
<1>3. ExpiryInv /\ SettledInv => CompletedRunsAreSettled
  BY SettledExact
<1> QED
  BY <1>1, <1>2, <1>3, PTL DEF Spec

=============================================================================
