----------------------- MODULE BankProvisioningProofs -----------------------
(***************************************************************************)
(* The provisioning saga, proved for any sets of banks, requests and keys: *)
(* RoutableHasEntity and OneBankPerKey of BankProvisioning.                *)
(***************************************************************************)
EXTENDS BankProvisioning, TLAPS

-----------------------------------------------------------------------------
(* The invariant *)

Successes == {"created", "patched", "replayed"}

\* What a handler knows of its own request.
LocalOK(h) ==
  /\ h.pc # "idle" => /\ h.id \in Ids
                      /\ IF Provisions(h.id) THEN h.body \in References
                                             ELSE h.body \in Patches
  /\ h.pc \notin {"idle", "answered"} /\ ~Provisions(h.id) => h.bank = h.id[1]
  /\ h.pc \in {"idle", "claiming", "inserting"} => ~h.found
  /\ h.pc \in {"shard", "finish"} \/ h.answer \in Successes => h.bank \in Banks
  /\ h.answer # "none" => h.pc = "answered"

\* The saga's last step, and every answer of success, come after the entity.
EntityOK(h) == h.pc = "finish" \/ h.answer \in Successes => entity[h.bank] # None

\* The record that a handler has claimed or committed stands for its bank.
Agrees(h) ==
  Live(h.id) /\ (Provisions(h.id) => records[h.id].bank = h.bank /\ records[h.id].body = h.body)

Succeeded(h) == h.answer \in {"created", "replayed"} /\ Provisions(h.id)

\* The window of a claim stays open until its handler has answered; a claim
\* that found no live record keeps others from making one; and an answer of
\* the current window is that of the record.
RecordOK(h) ==
  /\ h.pc \in {"claimed", "shard", "finish"} => h.window = windows[h.id]
  /\ h.pc = "claimed" /\ ~h.found => ~Live(h.id)
  /\ (h.pc = "claimed" /\ h.found) \/ h.pc \in {"shard", "finish"} => Agrees(h)
  /\ Succeeded(h) => h.window <= windows[h.id] /\ (h.window = windows[h.id] => Agrees(h))

HandlersOK == \A r \in Requests : LocalOK(req[r]) /\ EntityOK(req[r]) /\ RecordOK(req[r])

OneClaim ==
  \A r, q \in Requests : req[r].pc = "claimed" /\ req[q].pc = "claimed" /\ req[r].id = req[q].id => r = q

\* Two answers of one window name the same bank.
SameBank ==
  \A r, q \in Requests :
    Succeeded(req[r]) /\ Succeeded(req[q]) /\ req[r].id = req[q].id /\ req[r].window = req[q].window
    => req[r].bank = req[q].bank /\ req[r].body = req[q].body

\* A bank is made with its record.
MadeWithRecord == \A id \in Ids : Provisions(id) => applied[id] = IF Live(id) THEN 1 ELSE 0

\* A final response is of a bank with an entity.
DoneHasEntity ==
  \A id \in Ids : records[id] # None /\ records[id].state = "done" =>
    records[id].bank \in Banks /\ entity[records[id].bank] # None

\* A route open without an entity is as a patch asked for.
OpenAsPatched ==
  \A b \in Banks : route[b] \in {"active", "paused"} /\ entity[b] = None =>
    \E r \in Requests : StatusPatch(r, b) /\ route[b] = PlacementBefore(r)

SagaInv ==
  TypeOK /\ HandlersOK /\ OneClaim /\ SameBank /\ MadeWithRecord /\ DoneHasEntity /\ OpenAsPatched

\* What a step of request r may do to the routes of banks without entity.
OpensAsPatched(r) ==
  \A b \in Banks : route'[b] \in {"active", "paused"} /\ entity'[b] = None =>
    \/ route'[b] = route[b] /\ entity[b] = None
    \/ StatusPatch(r, b) /\ route'[b] = PlacementBefore(r)

-----------------------------------------------------------------------------
(* What a step does to its handler *)

\* The id of a patch names its bank, that of a provisioning names none.
LEMMA IdFacts ==
  ASSUME NEW id \in Ids
  PROVE  /\ id[1] \in Banks \cup {NoBank}
         /\ ~Provisions(id) => id[1] \in Banks
BY BankProvisioningAssumption DEF Ids, Provisions

LEMMA HandlerSet ==
  ASSUME TypeOK, NEW r \in Requests, NEW h \in Handler, req' = [req EXCEPT ![r] = h]
  PROVE  /\ req' \in [Requests -> Handler] /\ req'[r] = h
         /\ \A q \in Requests : q # r => req'[q] = req[q]
BY DEF TypeOK

LEMMA AnswerSets ==
  ASSUME TypeOK, NEW r \in Requests,
         NEW a \in {"created", "patched"}, Answer(r, a)
  PROVE  /\ req' \in [Requests -> Handler]
         /\ \A q \in Requests : q # r => req'[q] = req[q]
         /\ req'[r].pc = "answered" /\ req'[r].answer = a
         /\ req'[r].id = req[r].id /\ req'[r].body = req[r].body /\ req'[r].bank = req[r].bank
         /\ req'[r].found = req[r].found /\ req'[r].window = req[r].window
<1> DEFINE old == req[r]
           new == [old EXCEPT !.pc = "answered", !.answer = a]
<1>1. old \in Handler
  BY DEF TypeOK
<1>2. req' = [req EXCEPT ![r] = new]
  BY DEF TypeOK, Answer
<1> HIDE DEF old
<1>3. new \in Handler
  BY <1>1 DEF Handler
<1>4. /\ new.pc = "answered" /\ new.answer = a
      /\ new.id = old.id /\ new.body = old.body /\ new.bank = old.bank
      /\ new.found = old.found /\ new.window = old.window
  BY <1>1 DEF Handler
<1> HIDE DEF new
<1> QED
  BY <1>2, <1>3, <1>4, HandlerSet DEF old

LEMMA RefuseSets ==
  ASSUME TypeOK, NEW r \in Requests, NEW a \in {"conflict", "notfound", "failed"}, Refuse(r, a)
  PROVE  /\ req' \in [Requests -> Handler]
         /\ \A q \in Requests : q # r => req'[q] = req[q]
         /\ req'[r].pc = "answered" /\ req'[r].answer = a /\ ~req'[r].found
         /\ req'[r].id = req[r].id /\ req'[r].body = req[r].body
<1> DEFINE id == req[r].id
           body == req[r].body
           new == [IdleHandler EXCEPT !.pc = "answered", !.id = id, !.body = body, !.answer = a]
<1>1. id \in Ids \cup {None} /\ body \in References \cup Patches \cup {None}
  BY DEF TypeOK, Handler
<1>2. req' = [req EXCEPT ![r] = new]
  BY DEF Refuse
<1> HIDE DEF id, body
<1>3. new \in Handler
  BY <1>1 DEF Handler, IdleHandler
<1>4. new.pc = "answered" /\ new.id = id /\ new.body = body /\ ~new.found /\ new.answer = a
  BY DEF IdleHandler
<1> HIDE DEF new
<1> QED
  BY <1>2, <1>3, <1>4, HandlerSet DEF id, body

LEMMA GotoSets ==
  ASSUME TypeOK, NEW r \in Requests, NEW p \in {"inserting", "finish"}, Goto(r, p)
  PROVE  /\ req' \in [Requests -> Handler]
         /\ \A q \in Requests : q # r => req'[q] = req[q]
         /\ req'[r].pc = p /\ req'[r].answer = req[r].answer
         /\ req'[r].id = req[r].id /\ req'[r].body = req[r].body /\ req'[r].bank = req[r].bank
         /\ req'[r].found = req[r].found /\ req'[r].window = req[r].window
<1> DEFINE old == req[r]
           new == [old EXCEPT !.pc = p]
<1>1. old \in Handler
  BY DEF TypeOK
<1>2. req' = [req EXCEPT ![r] = new]
  BY DEF TypeOK, Goto
<1> HIDE DEF old
<1>3. new \in Handler
  BY <1>1 DEF Handler
<1>4. /\ new.pc = p /\ new.answer = old.answer
      /\ new.id = old.id /\ new.body = old.body /\ new.bank = old.bank
      /\ new.found = old.found /\ new.window = old.window
  BY <1>1 DEF Handler
<1> HIDE DEF new
<1> QED
  BY <1>2, <1>3, <1>4, HandlerSet DEF old

LEMMA ClaimSets ==
  ASSUME TypeOK, NEW r \in Requests, NEW n \in Nat,
         req' = [req EXCEPT ![r].pc = "claimed", ![r].window = n]
  PROVE  /\ req' \in [Requests -> Handler]
         /\ \A q \in Requests : q # r => req'[q] = req[q]
         /\ req'[r].pc = "claimed" /\ req'[r].window = n
         /\ req'[r].id = req[r].id /\ req'[r].body = req[r].body /\ req'[r].bank = req[r].bank
         /\ req'[r].found = req[r].found /\ req'[r].answer = req[r].answer
<1> DEFINE old == req[r]
           new == [old EXCEPT !.pc = "claimed", !.window = n]
<1>1. old \in Handler
  BY DEF TypeOK
<1>2. req' = [req EXCEPT ![r] = new]
  BY DEF TypeOK
<1> HIDE DEF old
<1>3. new \in Handler
  BY <1>1 DEF Handler
<1>4. /\ new.pc = "claimed" /\ new.window = n
      /\ new.id = old.id /\ new.body = old.body /\ new.bank = old.bank
      /\ new.found = old.found /\ new.answer = old.answer
  BY <1>1 DEF Handler
<1> HIDE DEF new
<1> QED
  BY <1>2, <1>3, <1>4, HandlerSet DEF old

LEMMA ResumeSets ==
  ASSUME TypeOK, NEW r \in Requests, NEW n \in Nat, NEW b \in Banks \cup {NoBank},
         req' = [req EXCEPT ![r].pc = "claimed", ![r].found = TRUE, ![r].window = n, ![r].bank = b]
  PROVE  /\ req' \in [Requests -> Handler]
         /\ \A q \in Requests : q # r => req'[q] = req[q]
         /\ req'[r].pc = "claimed" /\ req'[r].found /\ req'[r].bank = b /\ req'[r].window = n
         /\ req'[r].id = req[r].id /\ req'[r].body = req[r].body /\ req'[r].answer = req[r].answer
<1> DEFINE old == req[r]
           new == [old EXCEPT !.pc = "claimed", !.found = TRUE, !.window = n, !.bank = b]
<1>1. old \in Handler
  BY DEF TypeOK
<1>2. req' = [req EXCEPT ![r] = new]
  BY DEF TypeOK
<1> HIDE DEF old
<1>3. new \in Handler
  BY <1>1 DEF Handler
<1>4. /\ new.pc = "claimed" /\ new.found /\ new.bank = b /\ new.window = n
      /\ new.id = old.id /\ new.body = old.body /\ new.answer = old.answer
  BY <1>1 DEF Handler
<1> HIDE DEF new
<1> QED
  BY <1>2, <1>3, <1>4, HandlerSet DEF old

LEMMA ReceiveSets ==
  ASSUME TypeOK, NEW r \in Requests, NEW id \in Ids, NEW body \in References \cup Patches,
         req' = [req EXCEPT ![r].pc = "claiming", ![r].id = id, ![r].body = body, ![r].bank = id[1]]
  PROVE  /\ req' \in [Requests -> Handler]
         /\ \A q \in Requests : q # r => req'[q] = req[q]
         /\ req'[r].pc = "claiming" /\ req'[r].id = id /\ req'[r].body = body /\ req'[r].bank = id[1]
         /\ req'[r].found = req[r].found /\ req'[r].answer = req[r].answer
<1> DEFINE old == req[r]
           b == id[1]
           new == [old EXCEPT !.pc = "claiming", !.id = id, !.body = body, !.bank = b]
<1>1. old \in Handler /\ b \in Banks \cup {NoBank}
  BY IdFacts DEF TypeOK
<1>2. req' = [req EXCEPT ![r] = new]
  BY DEF TypeOK
<1> HIDE DEF old, b
<1>3. new \in Handler
  BY <1>1 DEF Handler
<1>4. /\ new.pc = "claiming" /\ new.id = id /\ new.body = body /\ new.bank = b
      /\ new.found = old.found /\ new.answer = old.answer
  BY <1>1 DEF Handler
<1> HIDE DEF new
<1> QED
  BY <1>2, <1>3, <1>4, HandlerSet DEF old, b

LEMMA RetrySets ==
  ASSUME TypeOK, NEW r \in Requests, NEW id \in Ids, NEW body \in References \cup Patches,
         req' = [req EXCEPT ![r] = [IdleHandler EXCEPT !.pc = "claiming", !.id = id,
                                      !.body = body, !.bank = id[1]]]
  PROVE  /\ req' \in [Requests -> Handler]
         /\ \A q \in Requests : q # r => req'[q] = req[q]
         /\ req'[r].pc = "claiming" /\ req'[r].id = id /\ req'[r].body = body /\ req'[r].bank = id[1]
         /\ ~req'[r].found /\ req'[r].answer = "none"
<1> DEFINE b == id[1]
           new == [IdleHandler EXCEPT !.pc = "claiming", !.id = id, !.body = body, !.bank = b]
<1>1. b \in Banks \cup {NoBank}
  BY IdFacts
<1>2. req' = [req EXCEPT ![r] = new]
  OBVIOUS
<1> HIDE DEF b
<1>3. new \in Handler
  BY <1>1 DEF Handler, IdleHandler
<1>4. /\ new.pc = "claiming" /\ new.id = id /\ new.body = body /\ new.bank = b
      /\ ~new.found /\ new.answer = "none"
  BY DEF IdleHandler
<1> HIDE DEF new
<1> QED
  BY <1>2, <1>3, <1>4, HandlerSet DEF b

LEMMA ShardSets ==
  ASSUME TypeOK, NEW r \in Requests, NEW b \in Banks,
         req' = [req EXCEPT ![r].pc = "shard", ![r].bank = b]
  PROVE  /\ req' \in [Requests -> Handler]
         /\ \A q \in Requests : q # r => req'[q] = req[q]
         /\ req'[r].pc = "shard" /\ req'[r].bank = b
         /\ req'[r].id = req[r].id /\ req'[r].body = req[r].body /\ req'[r].window = req[r].window
         /\ req'[r].found = req[r].found /\ req'[r].answer = req[r].answer
<1> DEFINE old == req[r]
           new == [old EXCEPT !.pc = "shard", !.bank = b]
<1>1. old \in Handler
  BY DEF TypeOK
<1>2. req' = [req EXCEPT ![r] = new]
  BY DEF TypeOK
<1> HIDE DEF old
<1>3. new \in Handler
  BY <1>1 DEF Handler
<1>4. /\ new.pc = "shard" /\ new.bank = b
      /\ new.id = old.id /\ new.body = old.body /\ new.window = old.window
      /\ new.found = old.found /\ new.answer = old.answer
  BY <1>1 DEF Handler
<1> HIDE DEF new
<1> QED
  BY <1>2, <1>3, <1>4, HandlerSet DEF old

-----------------------------------------------------------------------------
(* One handler moves *)

\* The invariant is kept if the handler that moves and what it does to the
\* tables fit the others.
LEMMA Combine ==
  ASSUME SagaInv, NEW r \in Requests, TypeOK',
         \A q \in Requests : q # r => req'[q] = req[q],
         \A q \in Requests : q # r => EntityOK(req[q])' /\ RecordOK(req[q])',
         LocalOK(req'[r]), EntityOK(req[r])', RecordOK(req[r])',
         req'[r].pc = "claimed" => \A q \in Requests : q # r => ~(req[q].pc = "claimed" /\ req[q].id = req'[r].id),
         Succeeded(req[r])' => (req[r].window = windows[req[r].id] /\ Agrees(req[r]))',
         req[r].pc # "idle" => req'[r].pc # "idle" /\ req'[r].id = req[r].id /\ req'[r].body = req[r].body,
         OpensAsPatched(r), MadeWithRecord', DoneHasEntity'
  PROVE  SagaInv'
<1>1. HandlersOK'
  <2>1. \A q \in Requests : LocalOK(req'[q])
    BY DEF SagaInv, HandlersOK
  <2>2. \A q \in Requests : LocalOK(req[q])'
    BY <2>1 DEF LocalOK
  <2>3. \A q \in Requests : EntityOK(req[q])' /\ RecordOK(req[q])'
    OBVIOUS
  <2> QED
    BY <2>2, <2>3 DEF HandlersOK
<1>2. OneClaim'
  BY DEF SagaInv, OneClaim
<1>3. SameBank'
  <2> SUFFICES ASSUME NEW p \in Requests, NEW q \in Requests, Succeeded(req[p])', Succeeded(req[q])',
                      req'[p].id = req'[q].id, req'[p].window = req'[q].window
               PROVE  req'[p].bank = req'[q].bank /\ req'[p].body = req'[q].body
    BY DEF SameBank
  <2>1. CASE p # r /\ q # r
    BY <2>1 DEF SagaInv, SameBank, Succeeded
  <2>2. ASSUME NEW s \in Requests, Succeeded(req[r])', Succeeded(req[s])',
               req'[r].id = req'[s].id, req'[r].window = req'[s].window
        PROVE  req'[r].bank = req'[s].bank /\ req'[r].body = req'[s].body
    <3>1. Agrees(req[r])' /\ req'[r].window = windows'[req'[r].id]
      BY <2>2
    <3>2. RecordOK(req[s])' /\ req'[s].window = windows'[req'[s].id]
      BY <1>1, <2>2, <3>1 DEF HandlersOK
    <3>3. Agrees(req[s])'
      BY <2>2, <3>2 DEF RecordOK
    <3> QED
      BY <2>2, <3>1, <3>3 DEF Agrees, Succeeded
  <2>3. CASE p = r
    BY <2>2, <2>3
  <2>4. CASE q = r
    BY <2>2, <2>4
  <2> QED
    BY <2>1, <2>3, <2>4
<1>4. OpenAsPatched'
  <2>1. ASSUME NEW q \in Requests, NEW b \in Banks, StatusPatch(q, b)
        PROVE  StatusPatch(q, b)' /\ PlacementBefore(q)' = PlacementBefore(q)
    <3>1. req'[q].pc # "idle" /\ req'[q].id = req[q].id /\ req'[q].body = req[q].body
      BY <2>1 DEF StatusPatch
    <3> QED
      BY <2>1, <3>1 DEF StatusPatch, PlacementBefore, Provisions
  <2> SUFFICES ASSUME NEW b \in Banks, route'[b] \in {"active", "paused"}, entity'[b] = None
               PROVE  \E q \in Requests : StatusPatch(q, b)' /\ route'[b] = PlacementBefore(q)'
    BY DEF OpenAsPatched
  <2>2. \E q \in Requests : StatusPatch(q, b) /\ route'[b] = PlacementBefore(q)
    BY DEF OpensAsPatched, OpenAsPatched, SagaInv
  <2> QED
    BY <2>1, <2>2
<1> QED
  BY <1>1, <1>2, <1>3, <1>4 DEF SagaInv

\* A step that commits nothing.
LEMMA HandlerStep ==
  ASSUME SagaInv, NEW r \in Requests, UNCHANGED <<tables, windows>>, UNCHANGED faults \/ Fault,
         req' \in [Requests -> Handler],
         \A q \in Requests : q # r => req'[q] = req[q],
         LocalOK(req'[r]), EntityOK(req'[r]), RecordOK(req'[r]),
         req'[r].pc = "claimed" => \A q \in Requests : q # r => ~(req[q].pc = "claimed" /\ req[q].id = req'[r].id),
         Succeeded(req'[r]) => req'[r].window = windows[req'[r].id] /\ Agrees(req'[r]),
         req[r].pc # "idle" => req'[r].pc # "idle" /\ req'[r].id = req[r].id /\ req'[r].body = req[r].body
  PROVE  SagaInv'
<1>1. TypeOK'
  <2>1. faults' \in 0..MaxFaults
    <3>1. faults \in 0..MaxFaults /\ MaxFaults \in Nat
      BY BankProvisioningAssumption DEF SagaInv, TypeOK
    <3> QED
      BY <3>1 DEF Fault
  <2> QED
    BY <2>1 DEF SagaInv, TypeOK, tables
<1>2. ASSUME NEW q \in Requests, EntityOK(req'[q]), RecordOK(req'[q])
      PROVE  EntityOK(req[q])' /\ RecordOK(req[q])'
  BY <1>2 DEF EntityOK, RecordOK, Agrees, Succeeded, Live, tables
<1>3. \A q \in Requests : q # r => EntityOK(req'[q]) /\ RecordOK(req'[q])
  BY DEF SagaInv, HandlersOK
<1>4. Succeeded(req[r])' => (req[r].window = windows[req[r].id] /\ Agrees(req[r]))'
  BY DEF Succeeded, Agrees, Live, tables
<1>5. OpensAsPatched(r) /\ MadeWithRecord' /\ DoneHasEntity'
  BY DEF SagaInv, OpensAsPatched, MadeWithRecord, DoneHasEntity, Live, tables
<1> QED
  BY <1>1, <1>2, <1>3, <1>4, <1>5, Combine

\* A handler gives up, whatever stopped it.
LEMMA FailStep ==
  ASSUME SagaInv, NEW r \in Requests, req[r].pc # "idle", NEW a \in {"conflict", "notfound", "failed"}, Refuse(r, a),
         UNCHANGED <<tables, windows>>, UNCHANGED faults \/ Fault
  PROVE  SagaInv'
<1>1. /\ req' \in [Requests -> Handler]
      /\ \A q \in Requests : q # r => req'[q] = req[q]
      /\ req'[r].pc = "answered" /\ req'[r].answer = a
      /\ req'[r].id = req[r].id /\ req'[r].body = req[r].body
  BY RefuseSets DEF SagaInv
<1>2. LocalOK(req[r])
  BY DEF SagaInv, HandlersOK
<1>3. LocalOK(req'[r]) /\ EntityOK(req'[r])
  BY <1>1, <1>2 DEF LocalOK, EntityOK, Successes
<1>4. ~Succeeded(req'[r]) /\ req'[r].pc # "claimed"
  BY <1>1 DEF Succeeded
<1>5. RecordOK(req'[r])
  BY <1>1, <1>4 DEF RecordOK
<1> QED
  BY <1>1, <1>3, <1>4, <1>5, HandlerStep

LEMMA ReceiveStep ==
  ASSUME SagaInv, NEW r \in Requests, NEW id \in Ids, NEW body \in References \cup Patches,
         Receive(r, id, body)
  PROVE  SagaInv'
<1>1. /\ req[r].pc = "idle" /\ UNCHANGED <<tables, windows, faults>>
      /\ IF Provisions(id) THEN body \in References ELSE body \in Patches
  BY DEF Receive
<1>2. /\ req' \in [Requests -> Handler]
      /\ \A q \in Requests : q # r => req'[q] = req[q]
      /\ req'[r].pc = "claiming" /\ req'[r].id = id /\ req'[r].body = body /\ req'[r].bank = id[1]
      /\ req'[r].found = req[r].found /\ req'[r].answer = req[r].answer
  BY ReceiveSets DEF SagaInv, Receive
<1>3. ~req[r].found /\ req[r].answer = "none"
  BY <1>1 DEF SagaInv, HandlersOK, LocalOK
<1>4. LocalOK(req'[r]) /\ EntityOK(req'[r])
  BY <1>1, <1>2, <1>3 DEF LocalOK, EntityOK, Successes
<1>5. ~Succeeded(req'[r]) /\ req'[r].pc # "claimed"
  BY <1>2, <1>3 DEF Succeeded
<1>6. RecordOK(req'[r])
  BY <1>2, <1>5 DEF RecordOK
<1> QED
  BY <1>1, <1>2, <1>4, <1>5, <1>6, HandlerStep

LEMMA RetryStep ==
  ASSUME SagaInv, NEW r \in Requests, Retry(r)
  PROVE  SagaInv'
<1> DEFINE id == req[r].id
           body == req[r].body
<1>1. req[r].pc = "answered" /\ UNCHANGED <<tables, windows, faults>>
  BY DEF Retry
<1>2. LocalOK(req[r]) /\ EntityOK(req[r])
  BY DEF SagaInv, HandlersOK
<1>3. /\ id \in Ids /\ body \in References \cup Patches
      /\ IF Provisions(id) THEN body \in References ELSE body \in Patches
  BY <1>1, <1>2 DEF LocalOK
<1>4. /\ req' \in [Requests -> Handler]
      /\ \A q \in Requests : q # r => req'[q] = req[q]
      /\ req'[r].pc = "claiming" /\ req'[r].id = id /\ req'[r].body = body /\ req'[r].bank = id[1]
      /\ ~req'[r].found /\ req'[r].answer = "none"
  BY <1>3, RetrySets DEF SagaInv, Retry
<1>5. LocalOK(req'[r]) /\ EntityOK(req'[r])
  BY <1>3, <1>4 DEF LocalOK, EntityOK, Successes
<1>6. ~Succeeded(req'[r]) /\ req'[r].pc # "claimed"
  BY <1>4 DEF Succeeded
<1>7. RecordOK(req'[r])
  BY <1>4, <1>6 DEF RecordOK
<1> QED
  BY <1>1, <1>4, <1>5, <1>6, <1>7, HandlerStep

\* A claim that finds no live record, by an insert or by an update of a lapsed one.
LEMMA FreshClaimStep ==
  ASSUME SagaInv, NEW r \in Requests, req[r].pc \in {"claiming", "inserting"},
         ~Live(req[r].id), ~Locked(req[r].id),
         req' = [req EXCEPT ![r].pc = "claimed", ![r].window = windows[req[r].id]],
         UNCHANGED <<tables, windows, faults>>
  PROVE  SagaInv'
<1>1. LocalOK(req[r]) /\ EntityOK(req[r])
  BY DEF SagaInv, HandlersOK
<1>2. req[r].id \in Ids /\ ~req[r].found /\ req[r].answer = "none"
  BY <1>1 DEF LocalOK
<1>3. windows[req[r].id] \in Nat
  <2>1. windows \in [Ids -> 0..MaxWindows] /\ MaxWindows \in Nat
    BY BankProvisioningAssumption DEF SagaInv, TypeOK
  <2> QED
    BY <1>2, <2>1
<1>4. /\ req' \in [Requests -> Handler]
      /\ \A q \in Requests : q # r => req'[q] = req[q]
      /\ req'[r].pc = "claimed" /\ req'[r].window = windows[req[r].id]
      /\ req'[r].id = req[r].id /\ req'[r].body = req[r].body /\ req'[r].bank = req[r].bank
      /\ req'[r].found = req[r].found /\ req'[r].answer = req[r].answer
  BY <1>3, ClaimSets DEF SagaInv
<1>5. LocalOK(req'[r]) /\ EntityOK(req'[r])
  BY <1>1, <1>4 DEF LocalOK, EntityOK, Successes
<1>6. ~Succeeded(req'[r])
  BY <1>2, <1>4 DEF Succeeded
<1>7. RecordOK(req'[r])
  BY <1>2, <1>4, <1>6 DEF RecordOK
<1>8. \A q \in Requests : q # r => ~(req[q].pc = "claimed" /\ req[q].id = req'[r].id)
  BY <1>4 DEF Locked
<1> QED
  BY <1>4, <1>5, <1>6, <1>7, <1>8, HandlerStep

\* A live record is replayed or resumed for the bank it names.
LEMMA LiveClaimStep ==
  ASSUME SagaInv, NEW r \in Requests, req[r].pc = "claiming",
         Live(req[r].id), ~Locked(req[r].id), records[req[r].id].body = req[r].body,
         UNCHANGED <<tables, windows, faults>>,
         \/ /\ records[req[r].id].state = "done"
            /\ req' = [req EXCEPT ![r].pc = "answered", ![r].answer = "replayed",
                                  ![r].bank = records[req[r].id].bank, ![r].window = windows[req[r].id]]
         \/ req' = [req EXCEPT ![r].pc = "claimed", ![r].found = TRUE,
                               ![r].window = windows[req[r].id],
                               ![r].bank = IF Provisions(req[r].id) THEN records[req[r].id].bank
                                                                    ELSE req[r].id[1]]
  PROVE  SagaInv'
<1> DEFINE id == req[r].id
           n == windows[id]
           kept == records[id].bank
           b == IF Provisions(id) THEN kept ELSE id[1]
<1>1. LocalOK(req[r]) /\ EntityOK(req[r])
  BY DEF SagaInv, HandlersOK
<1>2. id \in Ids /\ ~req[r].found /\ req[r].answer = "none"
  BY <1>1 DEF LocalOK
<1>3. n \in Nat
  <2>1. windows \in [Ids -> 0..MaxWindows] /\ MaxWindows \in Nat
    BY BankProvisioningAssumption DEF SagaInv, TypeOK
  <2> QED
    BY <1>2, <2>1
<1>4. kept \in Banks \cup {NoBank} /\ b \in Banks \cup {NoBank}
  <2>1. records[id] \in Record
    BY <1>2 DEF SagaInv, TypeOK, Live
  <2> QED
    BY <1>2, <2>1, IdFacts DEF Record
<1>5. CASE /\ records[id].state = "done"
           /\ req' = [req EXCEPT ![r].pc = "answered", ![r].answer = "replayed",
                                 ![r].bank = kept, ![r].window = n]
  <2>1. /\ req' \in [Requests -> Handler]
        /\ \A q \in Requests : q # r => req'[q] = req[q]
        /\ req'[r].pc = "answered" /\ req'[r].answer = "replayed"
        /\ req'[r].bank = kept /\ req'[r].window = n
        /\ req'[r].id = req[r].id /\ req'[r].body = req[r].body /\ req'[r].found = req[r].found
    <3> DEFINE old == req[r]
               new == [old EXCEPT !.pc = "answered", !.answer = "replayed", !.bank = kept, !.window = n]
    <3>1. old \in Handler /\ TypeOK
      BY DEF SagaInv, TypeOK
    <3>2. req' = [req EXCEPT ![r] = new]
      BY <1>5 DEF SagaInv, TypeOK
    <3> HIDE DEF old, id, n, kept
    <3>3. new \in Handler
      BY <1>3, <1>4, <3>1 DEF Handler
    <3>4. /\ new.pc = "answered" /\ new.answer = "replayed" /\ new.bank = kept /\ new.window = n
          /\ new.id = old.id /\ new.body = old.body /\ new.found = old.found
      BY <3>1 DEF Handler
    <3> HIDE DEF new
    <3> QED
      BY <3>1, <3>2, <3>3, <3>4, HandlerSet DEF old
  <2>4. kept \in Banks /\ entity[kept] # None
    BY <1>2, <1>5 DEF SagaInv, DoneHasEntity, Live
  <2>2. CASE Provisions(id)
    <3>1. LocalOK(req'[r]) /\ EntityOK(req'[r])
      BY <1>1, <2>1, <2>2, <2>4 DEF LocalOK, EntityOK, Successes
    <3>2. Agrees(req'[r]) /\ req'[r].window = windows[req'[r].id]
      BY <2>1, <2>2 DEF Agrees
    <3>3. RecordOK(req'[r]) /\ req'[r].pc # "claimed"
      BY <1>3, <2>1, <3>2 DEF RecordOK
    <3> QED
      BY <2>1, <3>1, <3>2, <3>3, HandlerStep
  <2>3. CASE ~Provisions(id)
    <3>1. LocalOK(req'[r]) /\ EntityOK(req'[r])
      BY <1>1, <2>1, <2>3, <2>4 DEF LocalOK, EntityOK, Successes
    <3>2. ~Succeeded(req'[r]) /\ req'[r].pc # "claimed"
      BY <2>1, <2>3 DEF Succeeded
    <3>3. RecordOK(req'[r])
      BY <2>1, <3>2 DEF RecordOK
    <3> QED
      BY <2>1, <3>1, <3>2, <3>3, HandlerStep
  <2> QED
    BY <2>2, <2>3
<1>6. CASE req' = [req EXCEPT ![r].pc = "claimed", ![r].found = TRUE, ![r].window = n, ![r].bank = b]
  <2>1. /\ req' \in [Requests -> Handler]
        /\ \A q \in Requests : q # r => req'[q] = req[q]
        /\ req'[r].pc = "claimed" /\ req'[r].found /\ req'[r].bank = b /\ req'[r].window = n
        /\ req'[r].id = req[r].id /\ req'[r].body = req[r].body /\ req'[r].answer = req[r].answer
    <3>1. PICK m \in Nat, c \in Banks \cup {NoBank} : m = n /\ c = b
      BY <1>3, <1>4
    <3>2. TypeOK /\ req' = [req EXCEPT ![r].pc = "claimed", ![r].found = TRUE,
                                       ![r].window = m, ![r].bank = c]
      BY <1>6, <3>1 DEF SagaInv
    <3>3. /\ req' \in [Requests -> Handler]
          /\ \A q \in Requests : q # r => req'[q] = req[q]
          /\ req'[r].pc = "claimed" /\ req'[r].found /\ req'[r].bank = c /\ req'[r].window = m
          /\ req'[r].id = req[r].id /\ req'[r].body = req[r].body /\ req'[r].answer = req[r].answer
      BY ZenonT(40), <3>2, ResumeSets
    <3> QED
      BY <3>1, <3>3
  <2>2. LocalOK(req'[r]) /\ EntityOK(req'[r])
    BY <1>1, <1>2, <2>1 DEF LocalOK, EntityOK, Successes
  <2>3. ~Succeeded(req'[r])
    BY <1>2, <2>1 DEF Succeeded
  <2>4. Agrees(req'[r])
    BY <2>1 DEF Agrees
  <2>5. RecordOK(req'[r])
    BY <2>1, <2>3, <2>4 DEF RecordOK
  <2>6. \A q \in Requests : q # r => ~(req[q].pc = "claimed" /\ req[q].id = req'[r].id)
    BY <2>1 DEF Locked
  <2> QED
    BY <2>1, <2>2, <2>3, <2>5, <2>6, HandlerStep
<1> QED
  BY <1>5, <1>6

LEMMA ClaimStep ==
  ASSUME SagaInv, NEW r \in Requests, ClaimIdempotency(r) \/ InsertRecord(r)
  PROVE  SagaInv'
<1>1. UNCHANGED <<tables, windows, faults>> /\ req[r].pc \in {"claiming", "inserting"}
  BY DEF ClaimIdempotency, InsertRecord
<1>2. CASE Refuse(r, "conflict") \/ Refuse(r, "failed")
  BY <1>1, <1>2, FailStep
<1>3. CASE req[r].pc = "claiming" /\ Goto(r, "inserting")
  <2>1. /\ req' \in [Requests -> Handler]
        /\ \A q \in Requests : q # r => req'[q] = req[q]
        /\ req'[r].pc = "inserting" /\ req'[r].answer = req[r].answer
        /\ req'[r].id = req[r].id /\ req'[r].body = req[r].body /\ req'[r].bank = req[r].bank
        /\ req'[r].found = req[r].found /\ req'[r].window = req[r].window
    BY <1>3, GotoSets DEF SagaInv
  <2>2. LocalOK(req[r]) /\ EntityOK(req[r])
    BY DEF SagaInv, HandlersOK
  <2>3. LocalOK(req'[r]) /\ EntityOK(req'[r]) /\ req'[r].answer = "none"
    BY <1>3, <2>1, <2>2 DEF LocalOK, EntityOK, Successes
  <2>4. ~Succeeded(req'[r]) /\ req'[r].pc # "claimed"
    BY <2>1, <2>3 DEF Succeeded
  <2>5. RecordOK(req'[r])
    BY <2>1, <2>4 DEF RecordOK
  <2> QED
    BY <1>1, <2>1, <2>3, <2>4, <2>5, HandlerStep
<1>4. CASE /\ ~Live(req[r].id) /\ ~Locked(req[r].id)
           /\ req' = [req EXCEPT ![r].pc = "claimed", ![r].window = windows[req[r].id]]
  BY <1>1, <1>4, FreshClaimStep
<1>5. CASE ClaimIdempotency(r)
  BY <1>1, <1>2, <1>3, <1>4, <1>5, LiveClaimStep DEF ClaimIdempotency
<1>6. CASE InsertRecord(r)
  BY <1>1, <1>2, <1>4, <1>6 DEF InsertRecord, Live
<1> QED
  BY <1>5, <1>6

-----------------------------------------------------------------------------
(* The first commit *)

\* The tables are typed and the record of the handler stands for bank b.
LEMMA FirstTables ==
  ASSUME SagaInv, NEW r \in Requests, NEW b \in Banks, FirstCommit(r, b)
  PROVE  /\ route' \in [Banks -> {"none", "provisioning", "active", "paused"}]
         /\ records' \in [Ids -> Record \cup {None}]
         /\ applied' \in [Ids -> Nat]
         /\ req[r].id \in Ids
         /\ \A i \in Ids : i # req[r].id => records'[i] = records[i] /\ applied'[i] = applied[i]
         /\ req[r].found => records' = records
         /\ ~req[r].found => records'[req[r].id].state # "done"
         /\ records'[req[r].id] # None /\ ~records'[req[r].id].lapsed
         /\ Provisions(req[r].id) => /\ records'[req[r].id].bank = b
                                     /\ records'[req[r].id].body = req[r].body
<1> DEFINE id == req[r].id
           new == ClaimedRecord(r, b)
<1>1. /\ req[r].pc = "claimed" /\ LocalOK(req[r]) /\ RecordOK(req[r])
      /\ ~(Provisions(id) /\ ~req[r].found) => b = req[r].bank
  BY DEF SagaInv, HandlersOK, FirstCommit
<1>2. id \in Ids /\ req[r].body \in References \cup Patches
  BY <1>1 DEF LocalOK
<1>3. /\ route \in [Banks -> {"none", "provisioning", "active", "paused"}]
      /\ records \in [Ids -> Record \cup {None}] /\ applied \in [Ids -> Nat]
  BY DEF SagaInv, TypeOK
<1>4. /\ new \in Record /\ ~new.lapsed /\ new.body = req[r].body /\ new.state # "done"
      /\ Provisions(id) => new.bank = b
  BY <1>2 DEF ClaimedRecord, Record
<1>5. new # None
  BY <1>4, AbsentAssumption
<1>6. route' \in [Banks -> {"none", "provisioning", "active", "paused"}]
  <2>1. PlacementBefore(r) \in {"none", "provisioning", "active", "paused"}
    BY DEF PlacementBefore
  <2> QED
    BY <1>3, <2>1 DEF FirstCommit
<1>7. records' = IF req[r].found THEN records ELSE [records EXCEPT ![id] = new]
  BY DEF FirstCommit
<1>8. applied' \in [Ids -> Nat] /\ \A i \in Ids : i # id => applied'[i] = applied[i]
  BY <1>2, <1>3 DEF FirstCommit
<1>9. CASE req[r].found
  <2>1. Agrees(req[r])
    BY <1>1, <1>9 DEF RecordOK
  <2> QED
    BY <1>1, <1>2, <1>3, <1>6, <1>7, <1>8, <1>9, <2>1 DEF Agrees, Live
<1>10. CASE ~req[r].found
  <2> HIDE DEF new
  <2> QED
    BY <1>2, <1>3, <1>4, <1>5, <1>6, <1>7, <1>8, <1>10
<1> QED
  BY <1>9, <1>10

\* A bank is made exactly where its record becomes live, and a route opens
\* only by a patch.
LEMMA FirstSafe ==
  ASSUME SagaInv, NEW r \in Requests, NEW b \in Banks, FirstCommit(r, b)
  PROVE  OpensAsPatched(r) /\ MadeWithRecord' /\ DoneHasEntity'
<1> DEFINE id == req[r].id
<1>1. req[r].pc = "claimed" /\ LocalOK(req[r]) /\ RecordOK(req[r]) /\ UNCHANGED entity
  BY DEF SagaInv, HandlersOK, FirstCommit
<1>2. OpensAsPatched(r)
  <2>1. route \in [Banks -> {"none", "provisioning", "active", "paused"}]
    BY DEF SagaInv, TypeOK
  <2>2. CASE route' = route
    BY <1>1, <2>2 DEF OpensAsPatched
  <2>3. CASE Provisions(id) /\ route' = [route EXCEPT ![b] = PlacementBefore(r)]
    <3>1. PlacementBefore(r) = "provisioning"
      BY <2>3 DEF PlacementBefore
    <3> QED
      BY <1>1, <2>1, <2>3, <3>1 DEF OpensAsPatched
  <2>4. CASE ~Provisions(id) /\ req[r].body # "rename" /\ route' = [route EXCEPT ![b] = PlacementBefore(r)]
    <3>1. StatusPatch(r, b)
      BY <1>1, <2>4 DEF FirstCommit, LocalOK, StatusPatch
    <3> QED
      BY <1>1, <2>1, <2>4, <3>1 DEF OpensAsPatched
  <2> QED
    BY <2>2, <2>3, <2>4 DEF FirstCommit
<1>4. DoneHasEntity'
  <2>1. \A i \in Ids : records'[i] = records[i] \/ records'[i].state # "done"
    BY FirstTables
  <2> QED
    BY <1>1, <2>1 DEF SagaInv, DoneHasEntity
<1>3. MadeWithRecord'
  <2>1. /\ records \in [Ids -> Record \cup {None}] /\ applied \in [Ids -> Nat] /\ MadeWithRecord
    BY DEF SagaInv, TypeOK
  <2>2. /\ id \in Ids
        /\ \A i \in Ids : i # id => records'[i] = records[i] /\ applied'[i] = applied[i]
        /\ records'[id] # None /\ ~records'[id].lapsed
    BY FirstTables
  <2>3. ASSUME Provisions(id) PROVE applied'[id] = 1
    <3>1. CASE req[r].found
      <4>1. Live(id) /\ applied' = applied
        BY <1>1, <3>1 DEF RecordOK, Agrees, FirstCommit
      <4> QED
        BY <2>1, <2>2, <2>3, <4>1 DEF MadeWithRecord
    <3>2. CASE ~req[r].found
      <4>1. ~Live(id) /\ applied' = [applied EXCEPT ![id] = @ + 1]
        BY <1>1, <2>3, <3>2 DEF RecordOK, FirstCommit
      <4>2. applied[id] = 0
        BY <2>1, <2>2, <2>3, <4>1 DEF MadeWithRecord
      <4> QED
        BY <2>1, <2>2, <4>1, <4>2
    <3> QED
      BY <3>1, <3>2
  <2>4. ASSUME NEW i \in Ids, Provisions(i), i # id
        PROVE  applied'[i] = IF Live(i)' THEN 1 ELSE 0
    BY <2>1, <2>2, <2>4 DEF MadeWithRecord, Live
  <2> QED
    BY <2>2, <2>3, <2>4 DEF MadeWithRecord, Live
<1> QED
  BY <1>2, <1>3, <1>4

\* The others are where they were: a claim that makes a record live is the
\* only one of its id.
LEMMA FirstOthers ==
  ASSUME SagaInv, NEW r \in Requests, NEW b \in Banks, FirstCommit(r, b), UNCHANGED windows,
         NEW q \in Requests, q # r, req'[q] = req[q]
  PROVE  EntityOK(req[q])' /\ RecordOK(req[q])'
<1> DEFINE id == req[r].id
<1>1. /\ req[r].pc = "claimed" /\ RecordOK(req[r]) /\ RecordOK(req[q]) /\ EntityOK(req[q])
      /\ LocalOK(req[q]) /\ UNCHANGED entity
  BY DEF SagaInv, HandlersOK, FirstCommit
<1>2. EntityOK(req[q])'
  BY <1>1 DEF EntityOK
<1>3. /\ \A i \in Ids : i # id => records'[i] = records[i]
      /\ req[r].found => records' = records
  BY FirstTables
<1>4. PICK h : h = req[q]
  OBVIOUS
<1>5. RecordOK(h) /\ LocalOK(h) /\ req'[q] = h
  BY <1>1, <1>4
<1>6. RecordOK(h)'
  <2>1. CASE h.pc = "idle"
    BY <1>5, <2>1 DEF RecordOK, LocalOK, Succeeded
  <2>2. CASE h.pc # "idle" /\ (h.id # id \/ req[r].found)
    <3>1. h.id \in Ids /\ records'[h.id] = records[h.id]
      BY <1>3, <1>5, <2>2 DEF LocalOK
    <3> QED
      BY <1>5, <3>1 DEF RecordOK, Succeeded, Agrees, Live
  <2>3. CASE h.id = id /\ ~req[r].found
    <3>1. ~Live(id) /\ h.pc # "claimed"
      BY <1>1, <1>4, <2>3 DEF RecordOK, SagaInv, OneClaim
    <3>2. ~Agrees(h)
      BY <2>3, <3>1 DEF Agrees
    <3>3. h.pc \notin {"shard", "finish"}
      BY <1>5, <3>2 DEF RecordOK
    <3> QED
      BY <1>5, <3>1, <3>2, <3>3 DEF RecordOK, Succeeded
  <2> QED
    BY <2>1, <2>2, <2>3
<1>7. RecordOK(req[q])'
  BY <1>5, <1>6 DEF RecordOK, Succeeded, Agrees
<1> QED
  BY <1>2, <1>7

-----------------------------------------------------------------------------
(* The commit on the shard *)

LEMMA ShardTables ==
  ASSUME SagaInv, NEW r \in Requests, ShardCommit(r)
  PROVE  /\ req[r].bank \in Banks
         /\ entity' \in [Banks -> Entity \cup {None}] /\ applied' \in [Ids -> Nat]
         /\ entity'[req[r].bank] # None
         /\ \A c \in Banks : entity[c] # None => entity'[c] # None
<1> DEFINE b == req[r].bank
           id == req[r].id
           old == entity[b]
           new == IF Provisions(id)
                    THEN IF old = None THEN [reference |-> req[r].body, status |-> "active"] ELSE old
                    ELSE IF req[r].body = "rename" THEN old ELSE [old EXCEPT !.status = req[r].body]
<1>1. req[r].pc = "shard" /\ LocalOK(req[r]) /\ (~Provisions(id) => old # None)
  BY DEF SagaInv, HandlersOK, ShardCommit
<1>2. /\ id \in Ids /\ b \in Banks
      /\ IF Provisions(id) THEN req[r].body \in References
                           ELSE req[r].body \in Patches /\ old # None
  BY <1>1 DEF LocalOK
<1>3. entity \in [Banks -> Entity \cup {None}] /\ applied \in [Ids -> Nat]
  BY DEF SagaInv, TypeOK
<1>4. entity' = [entity EXCEPT ![b] = new]
  BY DEF ShardCommit
<1>5. applied' \in [Ids -> Nat]
  BY <1>2, <1>3 DEF ShardCommit
<1>6. old \in Entity \cup {None}
  BY <1>2, <1>3
<1>7. new \in Entity
  <2>1. CASE Provisions(id)
    BY <1>2, <1>6, <2>1 DEF Entity
  <2>2. CASE ~Provisions(id)
    <3>1. old \in Entity /\ (req[r].body = "rename" \/ req[r].body \in {"active", "inactive"})
      BY <1>2, <1>6, <2>2, BankProvisioningAssumption
    <3> HIDE DEF old, id, b
    <3> QED
      BY <2>2, <3>1 DEF Entity
  <2> QED
    BY <2>1, <2>2
<1>8. new # None
  BY <1>7, AbsentAssumption
<1> HIDE DEF new
<1> QED
  BY <1>2, <1>3, <1>4, <1>5, <1>7, <1>8

\* Routes, records and counts of banks are left alone, entities stay.
LEMMA ShardSafe ==
  ASSUME SagaInv, NEW r \in Requests, ShardCommit(r)
  PROVE  OpensAsPatched(r) /\ MadeWithRecord' /\ DoneHasEntity'
<1>1. req[r].pc = "shard" /\ LocalOK(req[r]) /\ UNCHANGED <<route, records>>
  BY DEF SagaInv, HandlersOK, ShardCommit
<1>2. OpensAsPatched(r) /\ DoneHasEntity'
  BY <1>1, ShardTables DEF OpensAsPatched, DoneHasEntity, SagaInv
<1>3. \A i \in Ids : Provisions(i) => applied'[i] = applied[i]
  <2>1. req[r].id \in Ids /\ applied \in [Ids -> Nat]
    BY <1>1 DEF LocalOK, SagaInv, TypeOK
  <2> QED
    BY <2>1 DEF ShardCommit
<1>4. MadeWithRecord'
  BY <1>1, <1>3 DEF MadeWithRecord, SagaInv, Live
<1> QED
  BY <1>2, <1>4

LEMMA ShardOthers ==
  ASSUME SagaInv, NEW r \in Requests, ShardCommit(r), UNCHANGED windows,
         NEW q \in Requests, q # r, req'[q] = req[q]
  PROVE  EntityOK(req[q])' /\ RecordOK(req[q])'
<1>1. PICK h : h = req[q]
  OBVIOUS
<1>2. EntityOK(h) /\ RecordOK(h) /\ LocalOK(h) /\ req'[q] = h /\ UNCHANGED records
  BY <1>1 DEF SagaInv, HandlersOK, ShardCommit
<1>3. RecordOK(h)'
  BY <1>2 DEF RecordOK, Succeeded, Agrees, Live
<1>4. EntityOK(h)'
  <2>1. h.pc = "finish" \/ h.answer \in Successes => h.bank \in Banks
    BY <1>2 DEF LocalOK
  <2> QED
    BY <1>2, <2>1, ShardTables DEF EntityOK
<1> QED
  BY <1>2, <1>3, <1>4 DEF RecordOK, Succeeded, Agrees, EntityOK

-----------------------------------------------------------------------------
(* The last commit *)

\* The record keeps its window, its body and, for a new bank, its bank.
LEMMA LastTables ==
  ASSUME SagaInv, NEW r \in Requests, LastCommit(r)
  PROVE  /\ req[r].bank \in Banks
         /\ route' \in [Banks -> {"none", "provisioning", "active", "paused"}]
         /\ records' \in [Ids -> Record \cup {None}]
         /\ \A i \in Ids : /\ Live(i)' = Live(i)
                           /\ Live(i) => records'[i].body = records[i].body
                           /\ Live(i) /\ Provisions(i) => records'[i].bank = records[i].bank
                           /\ records'[i] = records[i] \/ records'[i].bank = req[r].bank
<1> DEFINE b == req[r].bank
           id == req[r].id
           old == records[id]
           new == [old EXCEPT !.state = "done", !.bank = b]
<1>1. req[r].pc = "finish" /\ LocalOK(req[r]) /\ RecordOK(req[r])
  BY DEF SagaInv, HandlersOK, LastCommit
<1>2. id \in Ids /\ b \in Banks /\ Agrees(req[r])
  BY <1>1 DEF LocalOK, RecordOK
<1>3. /\ route \in [Banks -> {"none", "provisioning", "active", "paused"}]
      /\ records \in [Ids -> Record \cup {None}]
  BY DEF SagaInv, TypeOK
<1>4. old # None /\ ~old.lapsed /\ (Provisions(id) => old.bank = b)
  BY <1>2 DEF Agrees, Live
<1>5. old \in Record
  BY <1>2, <1>3, <1>4
<1>6. records' = [records EXCEPT ![id] = new]
  BY <1>2, <1>3 DEF LastCommit
<1>7. route' \in [Banks -> {"none", "provisioning", "active", "paused"}]
  BY <1>2, <1>3 DEF LastCommit
<1>8. new \in Record /\ new.lapsed = old.lapsed /\ new.body = old.body /\ new.bank = b
  <2> HIDE DEF old, b
  <2> QED
    BY <1>2, <1>5 DEF Record
<1>9. new # None
  BY <1>8, AbsentAssumption
<1> HIDE DEF new
<1>10. records'[id] = new /\ \A i \in Ids : i # id => records'[i] = records[i]
  BY <1>2, <1>3, <1>6
<1>11. records' \in [Ids -> Record \cup {None}]
  BY <1>3, <1>6, <1>8
<1>12. \A i \in Ids : /\ Live(i)' = Live(i)
                      /\ Live(i) => records'[i].body = records[i].body
                      /\ Live(i) /\ Provisions(i) => records'[i].bank = records[i].bank
                      /\ records'[i] = records[i] \/ records'[i].bank = b
  BY <1>4, <1>8, <1>9, <1>10 DEF Live
<1> QED
  BY <1>2, <1>7, <1>11, <1>12

\* The route that opens is that of a bank whose entity was committed.
LEMMA LastSafe ==
  ASSUME SagaInv, NEW r \in Requests, LastCommit(r)
  PROVE  OpensAsPatched(r) /\ MadeWithRecord' /\ DoneHasEntity'
<1>1. /\ req[r].pc = "finish" /\ EntityOK(req[r]) /\ UNCHANGED <<entity, applied>>
      /\ route \in [Banks -> {"none", "provisioning", "active", "paused"}]
      /\ MadeWithRecord /\ DoneHasEntity
  BY DEF SagaInv, HandlersOK, LastCommit, TypeOK
<1>2. entity[req[r].bank] # None
  BY <1>1 DEF EntityOK
<1>3. route' = route \/ route' = [route EXCEPT ![req[r].bank] = "active"]
  BY DEF LastCommit
<1>4. OpensAsPatched(r)
  BY <1>1, <1>2, <1>3 DEF OpensAsPatched
<1>5. \A i \in Ids : Live(i)' = Live(i)
  BY LastTables
<1>6. MadeWithRecord'
  BY <1>1, <1>5 DEF MadeWithRecord
<1>7. req[r].bank \in Banks /\ \A i \in Ids : records'[i] = records[i] \/ records'[i].bank = req[r].bank
  BY LastTables
<1>8. DoneHasEntity'
  BY <1>1, <1>2, <1>7 DEF DoneHasEntity
<1> QED
  BY <1>4, <1>6, <1>8

LEMMA LastRecords ==
  ASSUME SagaInv, NEW r \in Requests, LastCommit(r), UNCHANGED windows,
         NEW h, RecordOK(h), h.pc # "idle" => h.id \in Ids, h.answer # "none" => h.pc = "answered"
  PROVE  RecordOK(h)'
<1>1. CASE h.pc = "idle"
  BY <1>1 DEF RecordOK, Succeeded
<1>2. CASE h.pc # "idle"
  <2>1. /\ Live(h.id)' = Live(h.id)
        /\ Live(h.id) => records'[h.id].body = records[h.id].body
        /\ Live(h.id) /\ Provisions(h.id) => records'[h.id].bank = records[h.id].bank
    BY <1>2, LastTables
  <2>2. Agrees(h) => Agrees(h)'
    BY <2>1 DEF Agrees
  <2> QED
    BY <2>1, <2>2 DEF RecordOK, Succeeded
<1> QED
  BY <1>1, <1>2

LEMMA LastOthers ==
  ASSUME SagaInv, NEW r \in Requests, LastCommit(r), UNCHANGED windows,
         NEW q \in Requests, q # r, req'[q] = req[q]
  PROVE  EntityOK(req[q])' /\ RecordOK(req[q])'
<1>1. PICK h : h = req[q]
  OBVIOUS
<1>2. EntityOK(h) /\ RecordOK(h) /\ LocalOK(h) /\ req'[q] = h /\ UNCHANGED entity
  BY <1>1 DEF SagaInv, HandlersOK, LastCommit
<1>3. EntityOK(h)' /\ RecordOK(h)'
  BY <1>2, LastRecords DEF EntityOK, LocalOK
<1> QED
  BY <1>2, <1>3 DEF RecordOK, Succeeded, Agrees, EntityOK

-----------------------------------------------------------------------------
(* The steps that commit *)

Commits(r) == (\E b \in Banks : FirstCommit(r, b)) \/ ShardCommit(r) \/ LastCommit(r)

\* What the three transactions have in common.
LEMMA CommitFits ==
  ASSUME SagaInv, NEW r \in Requests, Commits(r), req' \in [Requests -> Handler],
         \A q \in Requests : q # r => req'[q] = req[q],
         UNCHANGED windows, UNCHANGED faults \/ Fault
  PROVE  /\ TypeOK' /\ OpensAsPatched(r) /\ MadeWithRecord' /\ DoneHasEntity'
         /\ \A q \in Requests : q # r => EntityOK(req[q])' /\ RecordOK(req[q])'
         /\ \A c \in Banks : entity[c] # None => entity'[c] # None
<1>1. faults' \in 0..MaxFaults
  <2>1. faults \in 0..MaxFaults /\ MaxFaults \in Nat
    BY BankProvisioningAssumption DEF SagaInv, TypeOK
  <2> QED
    BY <2>1 DEF Fault
<1>2. /\ route \in [Banks -> {"none", "provisioning", "active", "paused"}]
      /\ entity \in [Banks -> Entity \cup {None}]
      /\ records \in [Ids -> Record \cup {None}] /\ applied \in [Ids -> Nat]
      /\ windows \in [Ids -> 0..MaxWindows]
  BY DEF SagaInv, TypeOK
<1>3. CASE \E b \in Banks : FirstCommit(r, b)
  <2>1. PICK b \in Banks : FirstCommit(r, b)
    BY <1>3
  <2>2. TypeOK' /\ UNCHANGED entity
    <3>1. /\ route' \in [Banks -> {"none", "provisioning", "active", "paused"}]
          /\ records' \in [Ids -> Record \cup {None}] /\ applied' \in [Ids -> Nat]
      BY <2>1, FirstTables
    <3>2. UNCHANGED entity
      BY <2>1 DEF FirstCommit
    <3> QED
      BY <1>1, <1>2, <3>1, <3>2 DEF TypeOK
  <2> QED
    BY <2>1, <2>2, FirstSafe, FirstOthers
<1>4. CASE ShardCommit(r)
  <2>1. TypeOK'
    <3>1. UNCHANGED <<route, records>>
      BY <1>4 DEF ShardCommit
    <3> QED
      BY <1>1, <1>2, <1>4, <3>1, ShardTables DEF TypeOK
  <2> QED
    BY <1>4, <2>1, ShardTables, ShardSafe, ShardOthers
<1>5. CASE LastCommit(r)
  <2>1. UNCHANGED <<entity, applied>>
    BY <1>5 DEF LastCommit
  <2>2. TypeOK'
    BY <1>1, <1>2, <1>5, <2>1, LastTables DEF TypeOK
  <2> QED
    BY <1>5, <2>1, <2>2, LastSafe, LastOthers
<1> QED
  BY <1>3, <1>4, <1>5 DEF Commits

LEMMA CommitsFrom ==
  ASSUME SagaInv, NEW r \in Requests, Commits(r)
  PROVE  /\ req[r].pc \in {"claimed", "shard", "finish"} /\ req[r].answer = "none"
         /\ req[r].id \in Ids
<1>1. LocalOK(req[r])
  BY DEF SagaInv, HandlersOK
<1>2. req[r].pc \in {"claimed", "shard", "finish"}
  BY DEF Commits, FirstCommit, ShardCommit, LastCommit
<1> QED
  BY <1>1, <1>2 DEF LocalOK

LEMMA UnacknowledgedStep ==
  ASSUME SagaInv, NEW r \in Requests, CommitUnacknowledged(r)
  PROVE  SagaInv'
<1>1. Commits(r) /\ Fault /\ Refuse(r, "failed") /\ UNCHANGED windows
  BY DEF CommitUnacknowledged, Commits
<1>2. /\ req' \in [Requests -> Handler]
      /\ \A q \in Requests : q # r => req'[q] = req[q]
      /\ req'[r].pc = "answered" /\ req'[r].answer = "failed"
      /\ req'[r].id = req[r].id /\ req'[r].body = req[r].body
  BY <1>1, RefuseSets DEF SagaInv
<1>3. /\ TypeOK' /\ OpensAsPatched(r) /\ MadeWithRecord' /\ DoneHasEntity'
      /\ \A q \in Requests : q # r => EntityOK(req[q])' /\ RecordOK(req[q])'
      /\ \A c \in Banks : entity[c] # None => entity'[c] # None
  BY <1>1, <1>2, CommitFits
<1>4. req[r].pc \in {"claimed", "shard", "finish"} /\ req[r].id \in Ids
  BY <1>1, CommitsFrom
<1>5. LocalOK(req[r])
  BY DEF SagaInv, HandlersOK
<1>6. LocalOK(req'[r])
  BY <1>2, <1>4, <1>5 DEF LocalOK, Successes
<1>7. EntityOK(req[r])'
  BY <1>2 DEF EntityOK, Successes
<1>8. ~Succeeded(req[r])' /\ req'[r].pc # "claimed"
  BY <1>2 DEF Succeeded
<1>9. RecordOK(req[r])'
  BY <1>2, <1>8 DEF RecordOK
<1> QED
  BY <1>2, <1>3, <1>6, <1>7, <1>8, <1>9, Combine

LEMMA CommitFirstStep ==
  ASSUME SagaInv, NEW r \in Requests, NEW b \in Banks, CommitFirst(r, b)
  PROVE  SagaInv'
<1>1. FirstCommit(r, b) /\ UNCHANGED <<windows, faults>>
  BY DEF CommitFirst
<1>2. Commits(r)
  BY <1>1 DEF Commits
<1>3. /\ req' \in [Requests -> Handler]
      /\ \A q \in Requests : q # r => req'[q] = req[q]
      /\ req'[r].pc = "shard" /\ req'[r].bank = b
      /\ req'[r].id = req[r].id /\ req'[r].body = req[r].body /\ req'[r].window = req[r].window
      /\ req'[r].found = req[r].found /\ req'[r].answer = req[r].answer
  BY ShardSets DEF CommitFirst, SagaInv
<1>4. /\ TypeOK' /\ OpensAsPatched(r) /\ MadeWithRecord' /\ DoneHasEntity'
      /\ \A q \in Requests : q # r => EntityOK(req[q])' /\ RecordOK(req[q])'
      /\ \A c \in Banks : entity[c] # None => entity'[c] # None
  BY <1>1, <1>2, <1>3, CommitFits
<1>5. req[r].pc = "claimed" /\ req[r].answer = "none" /\ req[r].id \in Ids
  BY <1>1, <1>2, CommitsFrom DEF FirstCommit
<1>6. LocalOK(req[r]) /\ RecordOK(req[r])
  BY DEF SagaInv, HandlersOK
<1>7. LocalOK(req'[r])
  <2>1. ~Provisions(req[r].id) => b = req[r].id[1]
    BY <1>1, <1>5, <1>6 DEF FirstCommit, LocalOK
  <2> QED
    BY <1>3, <1>5, <1>6, <2>1 DEF LocalOK
<1>8. EntityOK(req[r])'
  BY <1>3, <1>5 DEF EntityOK, Successes
<1>9. ~Succeeded(req[r])' /\ req'[r].pc # "claimed"
  BY <1>3, <1>5 DEF Succeeded
<1>10. Agrees(req[r])'
  BY <1>1, <1>3, FirstTables DEF Agrees, Live
<1>11. RecordOK(req[r])'
  <2>1. req'[r].window = windows'[req'[r].id]
    BY <1>1, <1>3, <1>5, <1>6 DEF RecordOK
  <2> QED
    BY <1>3, <1>9, <1>10, <2>1 DEF RecordOK
<1> QED
  BY <1>3, <1>4, <1>7, <1>8, <1>9, <1>11, Combine

LEMMA CommitShardStep ==
  ASSUME SagaInv, NEW r \in Requests, CommitShard(r)
  PROVE  SagaInv'
<1>1. ShardCommit(r) /\ UNCHANGED <<windows, faults>>
  BY DEF CommitShard
<1>2. Commits(r) /\ req[r].pc = "shard" /\ UNCHANGED records
  BY <1>1 DEF Commits, ShardCommit
<1>3. /\ req' \in [Requests -> Handler]
      /\ \A q \in Requests : q # r => req'[q] = req[q]
      /\ req'[r].pc = "finish" /\ req'[r].answer = req[r].answer
      /\ req'[r].id = req[r].id /\ req'[r].body = req[r].body /\ req'[r].bank = req[r].bank
      /\ req'[r].found = req[r].found /\ req'[r].window = req[r].window
  BY GotoSets DEF CommitShard, SagaInv
<1>4. /\ TypeOK' /\ OpensAsPatched(r) /\ MadeWithRecord' /\ DoneHasEntity'
      /\ \A q \in Requests : q # r => EntityOK(req[q])' /\ RecordOK(req[q])'
      /\ \A c \in Banks : entity[c] # None => entity'[c] # None
  BY <1>1, <1>2, <1>3, CommitFits
<1>5. req[r].answer = "none" /\ req[r].id \in Ids
  BY <1>2, CommitsFrom
<1>6. LocalOK(req[r]) /\ RecordOK(req[r])
  BY DEF SagaInv, HandlersOK
<1>7. LocalOK(req'[r])
  BY <1>2, <1>3, <1>5, <1>6 DEF LocalOK
<1>8. EntityOK(req[r])'
  BY <1>1, <1>3, <1>5, ShardTables DEF EntityOK, Successes
<1>9. ~Succeeded(req[r])' /\ req'[r].pc # "claimed"
  BY <1>3, <1>5 DEF Succeeded
<1>10. Agrees(req[r]) /\ req[r].window = windows[req[r].id]
  BY <1>2, <1>6 DEF RecordOK
<1>11. Agrees(req[r])' /\ req'[r].window = windows'[req'[r].id]
  BY <1>1, <1>2, <1>3, <1>10 DEF Agrees, Live
<1>12. RecordOK(req[r])'
  BY <1>3, <1>9, <1>11 DEF RecordOK
<1> QED
  BY <1>3, <1>4, <1>7, <1>8, <1>9, <1>12, Combine

LEMMA CommitLastStep ==
  ASSUME SagaInv, NEW r \in Requests, CommitLast(r)
  PROVE  SagaInv'
<1>1. LastCommit(r) /\ UNCHANGED <<windows, faults>>
  BY DEF CommitLast
<1>2. Commits(r) /\ req[r].pc = "finish"
  BY <1>1 DEF Commits, LastCommit
<1>3. /\ req' \in [Requests -> Handler]
      /\ \A q \in Requests : q # r => req'[q] = req[q]
      /\ req'[r].pc = "answered"
      /\ req'[r].id = req[r].id /\ req'[r].body = req[r].body /\ req'[r].bank = req[r].bank
      /\ req'[r].found = req[r].found /\ req'[r].window = req[r].window
  BY AnswerSets DEF CommitLast, SagaInv
<1>4. /\ TypeOK' /\ OpensAsPatched(r) /\ MadeWithRecord' /\ DoneHasEntity'
      /\ \A q \in Requests : q # r => EntityOK(req[q])' /\ RecordOK(req[q])'
      /\ \A c \in Banks : entity[c] # None => entity'[c] # None
  BY <1>1, <1>2, <1>3, CommitFits
<1>5. req[r].id \in Ids
  BY <1>2, CommitsFrom
<1>6. LocalOK(req[r]) /\ RecordOK(req[r]) /\ EntityOK(req[r]) /\ UNCHANGED entity
  BY <1>1 DEF SagaInv, HandlersOK, LastCommit
<1>7. LocalOK(req'[r])
  BY <1>2, <1>3, <1>5, <1>6 DEF LocalOK
<1>8. EntityOK(req[r])'
  BY <1>2, <1>3, <1>6 DEF EntityOK
<1>9. Agrees(req[r]) /\ req[r].window = windows[req[r].id]
  BY <1>2, <1>6 DEF RecordOK
<1>10. Agrees(req[r])' /\ req'[r].window = windows'[req'[r].id]
  <2>1. /\ Live(req[r].id)' = Live(req[r].id)
        /\ Live(req[r].id) => records'[req[r].id].body = records[req[r].id].body
        /\ Live(req[r].id) /\ Provisions(req[r].id) => records'[req[r].id].bank = records[req[r].id].bank
    <3>1. PICK i \in Ids : i = req[r].id
      BY <1>5
    <3>2. /\ Live(i)' = Live(i)
          /\ Live(i) => records'[i].body = records[i].body
          /\ Live(i) /\ Provisions(i) => records'[i].bank = records[i].bank
      BY <1>1, LastTables
    <3> QED
      BY <1>3, <3>1, <3>2 DEF Live
  <2> QED
    BY <1>1, <1>3, <1>9, <2>1 DEF Agrees, Live
<1>11. windows'[req'[r].id] \in Nat
  <2>1. windows \in [Ids -> 0..MaxWindows] /\ MaxWindows \in Nat
    BY BankProvisioningAssumption DEF SagaInv, TypeOK
  <2> QED
    BY <1>1, <1>3, <1>5, <2>1
<1>12. RecordOK(req[r])'
  BY <1>3, <1>10, <1>11 DEF RecordOK
<1> QED
  BY <1>3, <1>4, <1>7, <1>8, <1>10, <1>12, Combine

-----------------------------------------------------------------------------
(* The end of a replay window *)

\* The requests of the id have answered or not yet looked: none holds on to
\* the record, and the answers of the window are those of an earlier one.
LEMMA WindowRecords ==
  ASSUME SagaInv, NEW id \in Ids, WindowCloses(id), NEW q \in Requests
  PROVE  RecordOK(req[q])'
<1>1. PICK h : h = req[q]
  OBVIOUS
<1>2. RecordOK(h) /\ LocalOK(h) /\ h \in Handler /\ UNCHANGED req
  BY <1>1 DEF SagaInv, HandlersOK, TypeOK, WindowCloses
<1>3. /\ windows \in [Ids -> 0..MaxWindows] /\ MaxWindows \in Nat
      /\ records \in [Ids -> Record \cup {None}]
  BY BankProvisioningAssumption DEF SagaInv, TypeOK
<1>4. /\ windows'[id] = windows[id] + 1
      /\ \A i \in Ids : i # id => windows'[i] = windows[i] /\ records'[i] = records[i]
  BY <1>3 DEF WindowCloses
<1>5. RecordOK(h)'
  <2>1. CASE h.pc = "idle"
    BY <1>2, <2>1 DEF RecordOK, LocalOK, Succeeded
  <2>2. CASE h.pc # "idle" /\ h.id # id
    <3>1. h.id \in Ids /\ windows'[h.id] = windows[h.id] /\ records'[h.id] = records[h.id]
      BY <1>2, <1>4, <2>2 DEF LocalOK
    <3> QED
      BY <1>2, <3>1 DEF RecordOK, Succeeded, Agrees, Live
  <2>3. CASE h.pc # "idle" /\ h.id = id
    <3>1. h.pc \in {"claiming", "answered"}
      BY <1>1, <2>3 DEF WindowCloses
    <3>2. windows[id] \in Nat /\ h.window \in Nat
      BY <1>2, <1>3 DEF Handler
    <3>3. Succeeded(h) => h.window < windows'[id]
      BY <1>2, <1>4, <2>3, <3>2 DEF RecordOK
    <3> QED
      BY <1>4, <2>3, <3>1, <3>2, <3>3 DEF RecordOK, Succeeded
  <2> QED
    BY <2>1, <2>2, <2>3
<1>6. req'[q] = h
  BY <1>1, <1>2
<1> QED
  BY <1>5, <1>6 DEF RecordOK, Succeeded, Agrees

LEMMA WindowStep ==
  ASSUME SagaInv, NEW id \in Ids, WindowCloses(id)
  PROVE  SagaInv'
<1>1. UNCHANGED <<route, entity, req, faults>> /\ Live(id)
  BY DEF WindowCloses
<1>2. /\ windows \in [Ids -> 0..MaxWindows] /\ MaxWindows \in Nat
      /\ records \in [Ids -> Record \cup {None}] /\ applied \in [Ids -> Nat]
  BY BankProvisioningAssumption DEF SagaInv, TypeOK
<1> DEFINE old == records[id]
           new == [old EXCEPT !.lapsed = TRUE]
<1>3. old \in Record
  BY <1>1, <1>2 DEF Live
<1>4. records' = [records EXCEPT ![id] = new]
  BY <1>2 DEF WindowCloses
<1>5. new \in Record /\ new.lapsed /\ new.state = old.state /\ new.bank = old.bank
  <2> HIDE DEF old
  <2> QED
    BY <1>3 DEF Record
<1>6. TypeOK'
  <2>1. records' \in [Ids -> Record \cup {None}]
    <3> HIDE DEF new
    <3> QED
      BY <1>2, <1>4, <1>5
  <2>2. windows' \in [Ids -> 0..MaxWindows] /\ applied' \in [Ids -> Nat]
    BY <1>2 DEF WindowCloses
  <2> QED
    BY <1>1, <2>1, <2>2 DEF SagaInv, TypeOK
<1>7. HandlersOK'
  <2>1. \A q \in Requests : RecordOK(req[q])'
    BY WindowRecords
  <2>2. \A q \in Requests : (LocalOK(req[q]) /\ EntityOK(req[q]))'
    BY <1>1 DEF SagaInv, HandlersOK, LocalOK, EntityOK
  <2> QED
    BY <2>1, <2>2 DEF HandlersOK
<1>8. OneClaim' /\ SameBank' /\ OpenAsPatched'
  BY <1>1 DEF SagaInv, OneClaim, SameBank, Succeeded, OpenAsPatched, StatusPatch, PlacementBefore
<1>10. DoneHasEntity'
  <2>1. \A i \in Ids : i # id => records'[i] = records[i]
    BY <1>2 DEF WindowCloses
  <2>2. records[id] # None /\ records'[id].state = records[id].state /\ records'[id].bank = records[id].bank
    <3> HIDE DEF new
    <3> QED
      BY <1>1, <1>2, <1>4, <1>5 DEF Live
  <2> QED
    BY <1>1, <2>1, <2>2 DEF SagaInv, DoneHasEntity
<1>9. MadeWithRecord'
  <2>1. ~Live(id)' /\ applied'[id] = 0
    <3> HIDE DEF new
    <3> QED
      BY <1>2, <1>4, <1>5 DEF Live, WindowCloses
  <2>2. \A i \in Ids : i # id => records'[i] = records[i] /\ applied'[i] = applied[i]
    BY <1>2 DEF WindowCloses
  <2>3. MadeWithRecord
    BY DEF SagaInv
  <2>4. ASSUME NEW i \in Ids, Provisions(i)
        PROVE  applied'[i] = IF Live(i)' THEN 1 ELSE 0
    <3>1. CASE i = id
      BY <2>1, <3>1
    <3>2. CASE i # id
      BY <2>2, <2>3, <2>4, <3>2 DEF MadeWithRecord, Live
    <3> QED
      BY <3>1, <3>2
  <2> QED
    BY <2>4 DEF MadeWithRecord
<1> QED
  BY <1>6, <1>7, <1>8, <1>9, <1>10 DEF SagaInv

-----------------------------------------------------------------------------
(* The theorems *)

LEMMA SagaInit == Init => SagaInv
<1> SUFFICES ASSUME Init PROVE SagaInv
  OBVIOUS
<1>1. IdleHandler \in Handler /\ IdleHandler.pc = "idle" /\ ~IdleHandler.found /\ IdleHandler.answer = "none"
  BY DEF IdleHandler, Handler
<1>2. /\ \A r \in Requests : req[r] = IdleHandler
      /\ \A id \in Ids : records[id] = None /\ applied[id] = 0
      /\ \A b \in Banks : route[b] = "none"
  BY DEF Init
<1>3. TypeOK
  BY <1>1, BankProvisioningAssumption DEF Init, TypeOK
<1>4. \A r \in Requests : req[r].pc = "idle" /\ ~req[r].found /\ req[r].answer = "none"
  BY <1>1, <1>2
<1>5. \A r \in Requests : ~Succeeded(req[r])
  BY <1>4 DEF Succeeded
<1>6. HandlersOK
  BY <1>4, <1>5 DEF HandlersOK, LocalOK, EntityOK, RecordOK, Successes
<1>7. OneClaim /\ SameBank
  BY <1>4, <1>5 DEF OneClaim, SameBank
<1>8. MadeWithRecord /\ DoneHasEntity /\ OpenAsPatched
  BY <1>2 DEF MadeWithRecord, DoneHasEntity, OpenAsPatched, Live
<1> QED
  BY <1>3, <1>6, <1>7, <1>8 DEF SagaInv

LEMMA SagaStep == SagaInv /\ [Next]_vars => SagaInv'
<1> SUFFICES ASSUME SagaInv, [Next]_vars PROVE SagaInv'
  OBVIOUS
<1>1. CASE UNCHANGED vars
  BY <1>1 DEF vars, tables, SagaInv, TypeOK, HandlersOK, LocalOK, EntityOK, RecordOK, Succeeded,
     Agrees, Live, OneClaim, SameBank, MadeWithRecord, DoneHasEntity, OpenAsPatched, StatusPatch,
     PlacementBefore
<1>2. CASE \E id \in Ids : WindowCloses(id)
  BY <1>2, WindowStep
<1>3. ASSUME NEW r \in Requests,
             \/ \E id \in Ids, body \in References \cup Patches : Receive(r, id, body)
             \/ Retry(r) \/ Step(r) \/ StepFails(r) \/ CommitUnacknowledged(r)
      PROVE  SagaInv'
  <2>1. CASE \E id \in Ids, body \in References \cup Patches : Receive(r, id, body)
    BY <2>1, ReceiveStep
  <2>2. CASE Retry(r)
    BY <2>2, RetryStep
  <2>3. CASE ClaimIdempotency(r) \/ InsertRecord(r)
    BY <2>3, ClaimStep
  <2>4. CASE \E b \in Banks : CommitFirst(r, b)
    BY <2>4, CommitFirstStep
  <2>5. CASE CommitShard(r)
    BY <2>5, CommitShardStep
  <2>6. CASE PatchRefused(r) \/ ShardRefuses(r)
    BY <2>6, FailStep DEF PatchRefused, ShardRefuses
  <2>7. CASE CommitLast(r)
    BY <2>7, CommitLastStep
  <2>8. CASE StepFails(r)
    BY <2>8, FailStep DEF StepFails
  <2>9. CASE CommitUnacknowledged(r)
    BY <2>9, UnacknowledgedStep
  <2> QED
    BY <1>3, <2>1, <2>2, <2>3, <2>4, <2>5, <2>6, <2>7, <2>8, <2>9 DEF Step
<1> QED
  BY <1>1, <1>2, <1>3 DEF Next

\* The saga keeps its invariant: every handler agrees with the record that it
\* claimed or committed, wherever the others stopped.
THEOREM SagaInvariant == Spec => []SagaInv
BY SagaInit, SagaStep, PTL DEF Spec

\* The saga routes a bank only after its entity is on the shard, and nobody is
\* told of success before, for any number of requests, faults and retries and
\* for patches of any bank at any time: they alone can open a route earlier.
THEOREM RoutableBanksExist == Spec => []RoutableHasEntity
<1>1. SagaInv => RoutableHasEntity
  <2> SUFFICES ASSUME SagaInv PROVE RoutableHasEntity
    OBVIOUS
  <2>1. ASSUME NEW r \in Requests, req[r].answer \in {"created", "patched", "replayed"}
        PROVE  req[r].bank \in Banks /\ entity[req[r].bank] # None
    BY <2>1 DEF SagaInv, HandlersOK, LocalOK, EntityOK, Successes
  <2> QED
    BY <2>1 DEF SagaInv, OpenAsPatched, RoutableHasEntity
<1> QED
  BY <1>1, SagaInvariant, PTL

\* A key provisions one bank within its replay window, and every answer of
\* success in it names that bank.
THEOREM OneBank == Spec => []OneBankPerKey
<1>1. SagaInv => OneBankPerKey
  <2> SUFFICES ASSUME SagaInv PROVE OneBankPerKey
    OBVIOUS
  <2>1. \A id \in Ids : Provisions(id) => applied[id] <= 1
    BY DEF SagaInv, MadeWithRecord
  <2> QED
    BY <2>1 DEF SagaInv, SameBank, Succeeded, OneBankPerKey
<1> QED
  BY <1>1, SagaInvariant, PTL

=============================================================================
