----------------------- MODULE ReferenceCatalogProofs -----------------------
(***************************************************************************)
(* The reference data of a bank, proved for any sets of references,        *)
(* requests and keys: CardsMatchAccounts, VersionsNameConfigurations and   *)
(* ReferencesCreatedOnce of ReferenceCatalog, and PagesComplete of         *)
(* CatalogListing, which lists them.                                       *)
(***************************************************************************)
EXTENDS CatalogListing, FiniteSetTheorems, TLAPS

-----------------------------------------------------------------------------
(* The invariant *)

\* Where a handler is and what its transaction holds.
LocalOK(h) ==
  /\ h.pc # "idle" => h.work \in Asked /\ h.id \in Ids
  /\ h.open <=> h.pc \in {"claimed", "validated", "applied"}
  /\ h.pc \in {"idle", "claiming", "claimed", "validated"} => h.row = None /\ h.share = None
  /\ h.pc = "validated" => h.work.kind = "card"
  /\ h.pc = "applied" => IF h.work.kind = "card" THEN h.row = None /\ h.share = h.write.account
                                                 ELSE h.row = Row(h.work) /\ h.share = None
  /\ h.answer = "done" => h.pc = "answered"

\* The configuration is kept with its version or gets the next one.
Succeeds(old, new) ==
  \/ new.version = old.version /\ new.configuration = old.configuration
  \/ new.version = old.version + 1

\* What is about to be committed still fits what is committed.
WriteOK(h) ==
  LET w == h.work  new == h.write IN
  /\ w.kind = "product" =>
       /\ new \in Product
       /\ IF w.verb = "create" THEN product[w.ref] = None
                               ELSE product[w.ref] # None /\ Succeeds(product[w.ref], new)
  /\ w.kind = "client" => new # None /\ (w.verb = "create" => client[w.ref] = None)
  /\ w.kind = "account" => new \in Clients /\ (w.verb = "create" => account[w.ref] = None)
  /\ w.kind = "card" => new \in Card /\ account[new.account] = new.client

HandlersLocal == \A r \in Requests : LocalOK(req[r])

WritesFit == \A r \in Requests : req[r].pc = "applied" => WriteOK(req[r])

\* A key is claimed by one transaction, and by none while its record replays.
KeysClaimed ==
  /\ \A r, q \in Requests : req[r].open /\ req[q].open /\ req[r].id = req[q].id => r = q
  /\ \A r \in Requests : req[r].open => ~Replayable(req[r].id)

AppliedWithRecord == \A id \in Ids : applied[id] = IF Replayable(id) THEN 1 ELSE 0

\* A row is being written by one transaction.
RowsWritten ==
  \A r, q \in Requests : req[r].open /\ req[q].open /\ req[r].row = req[q].row /\ req[r].row # None => r = q

Uses(card, a) == card # None /\ card.account = a

\* An account on the move has no cards, committed or not.
MovesFree ==
  \A r, q \in Requests :
    (/\ req[r].pc = "applied" /\ req[r].work.kind = "account"
     /\ req[r].write # account[req[r].work.ref]) =>
       /\ ~Uses(cards[q], req[r].work.ref)
       /\ ~(/\ req[q].pc = "applied" /\ req[q].work.kind = "card"
            /\ req[q].write.account = req[r].work.ref)

\* The versions of a product go up to the current one.
VersionsUpTo ==
  \A p \in Products :
    IF product[p] = None THEN versions[p] = {}
    ELSE /\ <<product[p].version, product[p].configuration>> \in versions[p]
         /\ \A x \in versions[p] : x[1] <= product[p].version

\* What was created is there.
CreatedThere ==
  \A r \in Requests : req[r].answer = "done" /\ req[r].work.verb = "create" =>
    /\ req[r].work.kind = "product" => product[req[r].work.ref] # None
    /\ req[r].work.kind = "client" => client[req[r].work.ref] # None
    /\ req[r].work.kind = "account" => account[req[r].work.ref] # None

\* By one request, whatever its key.
OneCreator ==
  \A r, q \in Requests :
    (/\ req[r].answer = "done" /\ req[q].answer = "done"
     /\ req[r].work.verb = "create" /\ req[r].work.kind # "card"
     /\ req[r].work.kind = req[q].work.kind /\ req[r].work.verb = req[q].work.verb
     /\ req[r].work.ref = req[q].work.ref) => r = q

HandlerInv ==
  HandlersLocal /\ WritesFit /\ KeysClaimed /\ RowsWritten /\ MovesFree /\ CreatedThere /\ OneCreator

CatalogInv ==
  /\ TypeOK /\ HandlerInv /\ AppliedWithRecord /\ VersionsUpTo
  /\ CardsMatchAccounts /\ VersionsNameConfigurations

-----------------------------------------------------------------------------
(* What a step does to its handler *)

\* The request decides what kind of row it is about.
LEMMA WorkFacts ==
  ASSUME NEW w \in Asked
  PROVE  /\ w # None /\ w.verb \in {"create", "patch"}
         /\ w.kind \in {"product", "client", "account", "card"}
         /\ w.kind = "product" => w.ref \in Products
         /\ w.kind = "client" => w.ref \in Clients /\ w.value # None
         /\ w.kind = "account" => w.ref \in Accounts /\ w.value \in Clients
         /\ w.kind = "card" => w.verb = "create" /\ w.value \in Card
BY CatalogAssumption, AbsentAssumption

\* A request for a row of a table names one.
LEMMA RowFacts ==
  ASSUME NEW w \in Asked, w.kind # "card"
  PROVE  Row(w) \in Rows /\ Row(w) # None
<1>1. Row(w) \in Rows
  BY WorkFacts DEF Row, Rows
<1> QED
  BY <1>1, AbsentAssumption

\* A step of one handler.
LEMMA HandlerSet ==
  ASSUME TypeOK, NEW r \in Requests, NEW h \in Handler, req' = [req EXCEPT ![r] = h]
  PROVE  /\ req' \in [Requests -> Handler] /\ req'[r] = h
         /\ \A q \in Requests : q # r => req'[q] = req[q]
BY DEF TypeOK

LEMMA AnswerSets ==
  ASSUME TypeOK, NEW r \in Requests,
         NEW a \in {"done", "replayed", "conflict", "rejected", "failed"}, Answer(r, a)
  PROVE  /\ req' \in [Requests -> Handler]
         /\ \A q \in Requests : q # r => req'[q] = req[q]
         /\ req'[r].pc = "answered" /\ req'[r].answer = a /\ ~req'[r].open
         /\ req'[r].work = req[r].work /\ req'[r].id = req[r].id
<1> DEFINE old == req[r]
           new == [old EXCEPT !.pc = "answered", !.answer = a, !.open = FALSE]
<1>1. old \in Handler
  BY DEF TypeOK
<1>2. req' = [req EXCEPT ![r] = new]
  BY DEF Answer
<1> HIDE DEF old
<1>3. new \in Handler
  BY <1>1 DEF Handler
<1>4. /\ new.pc = "answered" /\ new.answer = a /\ ~new.open
      /\ new.work = old.work /\ new.id = old.id
  BY <1>1 DEF Handler
<1> HIDE DEF new
<1> QED
  BY <1>2, <1>3, <1>4, HandlerSet DEF old

LEMMA WriteSets ==
  ASSUME TypeOK, NEW r \in Requests, NEW value \in Values, req[r].work \in Asked,
         req[r].work.kind # "card", Writes(r, value)
  PROVE  /\ req' \in [Requests -> Handler]
         /\ \A q \in Requests : q # r => req'[q] = req[q]
         /\ req'[r].pc = "applied" /\ req'[r].write = value /\ req'[r].row = Row(req[r].work)
         /\ req'[r].work = req[r].work /\ req'[r].id = req[r].id /\ req'[r].open = req[r].open
         /\ req'[r].share = req[r].share /\ req'[r].answer = req[r].answer
<1> DEFINE old == req[r]
           row == Row(req[r].work)
           new == [old EXCEPT !.pc = "applied", !.write = value, !.row = row]
<1>1. old \in Handler
  BY DEF TypeOK
<1>2. req' = [req EXCEPT ![r] = new]
  BY DEF Writes
<1>3. row \in Rows
  BY RowFacts
<1> HIDE DEF old, row
<1>4. new \in Handler
  BY <1>1, <1>3 DEF Handler
<1>5. /\ new.pc = "applied" /\ new.write = value /\ new.row = row
      /\ new.work = old.work /\ new.id = old.id /\ new.open = old.open
      /\ new.share = old.share /\ new.answer = old.answer
  BY <1>1 DEF Handler
<1> HIDE DEF new
<1> QED
  BY <1>2, <1>4, <1>5, HandlerSet DEF old, row

LEMMA ShareSets ==
  ASSUME TypeOK, NEW r \in Requests, NEW v \in Card, v \in Values,
         req' = [req EXCEPT ![r] = [@ EXCEPT !.pc = "applied", !.write = v, !.share = v.account]]
  PROVE  /\ req' \in [Requests -> Handler]
         /\ \A q \in Requests : q # r => req'[q] = req[q]
         /\ req'[r].pc = "applied" /\ req'[r].write = v /\ req'[r].share = v.account
         /\ req'[r].work = req[r].work /\ req'[r].id = req[r].id /\ req'[r].open = req[r].open
         /\ req'[r].row = req[r].row /\ req'[r].answer = req[r].answer
<1> DEFINE old == req[r]
           a == v.account
           new == [old EXCEPT !.pc = "applied", !.write = v, !.share = a]
<1>1. old \in Handler
  BY DEF TypeOK
<1>2. req' = [req EXCEPT ![r] = new]
  OBVIOUS
<1>3. a \in Accounts
  BY DEF Card
<1> HIDE DEF old, a
<1>4. new \in Handler
  BY <1>1, <1>3 DEF Handler
<1>5. /\ new.pc = "applied" /\ new.write = v /\ new.share = a
      /\ new.work = old.work /\ new.id = old.id /\ new.open = old.open
      /\ new.row = old.row /\ new.answer = old.answer
  BY <1>1 DEF Handler
<1> HIDE DEF new
<1> QED
  BY <1>2, <1>4, <1>5, HandlerSet DEF old, a

\* A claim or a validation changes where the handler is, and its locks.
LEMMA PhaseSets ==
  ASSUME TypeOK, NEW r \in Requests, NEW p \in {"claimed", "validated"},
         req' = [req EXCEPT ![r].pc = p, ![r].open = TRUE]
  PROVE  /\ req' \in [Requests -> Handler]
         /\ \A q \in Requests : q # r => req'[q] = req[q]
         /\ req'[r].pc = p /\ req'[r].open
         /\ req'[r].work = req[r].work /\ req'[r].id = req[r].id /\ req'[r].row = req[r].row
         /\ req'[r].share = req[r].share /\ req'[r].answer = req[r].answer
<1> DEFINE old == req[r]
           new == [old EXCEPT !.pc = p, !.open = TRUE]
<1>1. old \in Handler
  BY DEF TypeOK
<1>2. req' = [req EXCEPT ![r] = new]
  BY DEF TypeOK
<1> HIDE DEF old
<1>3. new \in Handler
  BY <1>1 DEF Handler
<1>4. /\ new.pc = p /\ new.open
      /\ new.work = old.work /\ new.id = old.id /\ new.row = old.row
      /\ new.share = old.share /\ new.answer = old.answer
  BY <1>1 DEF Handler
<1> HIDE DEF new
<1> QED
  BY <1>2, <1>3, <1>4, HandlerSet DEF old

LEMMA StartSets ==
  ASSUME TypeOK, NEW r \in Requests, NEW w \in Asked, NEW id \in Ids,
         req' = [req EXCEPT ![r] = [Waiting EXCEPT !.pc = "claiming", !.work = w, !.id = id]]
  PROVE  /\ req' \in [Requests -> Handler]
         /\ \A q \in Requests : q # r => req'[q] = req[q]
         /\ req'[r].pc = "claiming" /\ ~req'[r].open /\ req'[r].answer = "none"
         /\ req'[r].work = w /\ req'[r].id = id /\ req'[r].row = None /\ req'[r].share = None
<1> DEFINE new == [Waiting EXCEPT !.pc = "claiming", !.work = w, !.id = id]
<1>1. /\ new \in Handler /\ new.pc = "claiming" /\ ~new.open /\ new.answer = "none"
      /\ new.work = w /\ new.id = id /\ new.row = None /\ new.share = None
  BY DEF Waiting, Handler
<1> HIDE DEF new
<1> QED
  BY <1>1, HandlerSet DEF new

LEMMA ValidSets ==
  ASSUME TypeOK, NEW r \in Requests, req' = [req EXCEPT ![r].pc = "validated"]
  PROVE  /\ req' \in [Requests -> Handler]
         /\ \A q \in Requests : q # r => req'[q] = req[q]
         /\ req'[r].pc = "validated" /\ req'[r].open = req[r].open
         /\ req'[r].work = req[r].work /\ req'[r].id = req[r].id /\ req'[r].row = req[r].row
         /\ req'[r].share = req[r].share /\ req'[r].answer = req[r].answer
<1> DEFINE old == req[r]
           new == [old EXCEPT !.pc = "validated"]
<1>1. old \in Handler
  BY DEF TypeOK
<1>2. req' = [req EXCEPT ![r] = new]
  BY DEF TypeOK
<1> HIDE DEF old
<1>3. new \in Handler
  BY <1>1 DEF Handler
<1>4. /\ new.pc = "validated" /\ new.open = old.open
      /\ new.work = old.work /\ new.id = old.id /\ new.row = old.row
      /\ new.share = old.share /\ new.answer = old.answer
  BY <1>1 DEF Handler
<1> HIDE DEF new
<1> QED
  BY <1>2, <1>3, <1>4, HandlerSet DEF old

-----------------------------------------------------------------------------
(* Steps that commit nothing *)

Uncommitted == UNCHANGED <<tables, records, applied, versions, faults>>

\* Such a step keeps the invariant if its own handler fits the others.
LEMMA HandlerStep ==
  ASSUME CatalogInv, NEW r \in Requests,
         Uncommitted \/ (UNCHANGED <<tables, records, applied, versions>> /\ Fault),
         req' \in [Requests -> Handler],
         \A q \in Requests : q # r => req'[q] = req[q],
         LocalOK(req'[r]),
         req'[r].pc = "applied" => WriteOK(req'[r]),
         req'[r].open => ~Replayable(req'[r].id),
         req'[r].open => \A q \in Requests : q # r /\ req[q].open =>
                             /\ req[q].id # req'[r].id
                             /\ req'[r].row # None => req[q].row # req'[r].row,
         MovesFree',
         req'[r].answer # "done"
  PROVE  CatalogInv'
<1>1. UNCHANGED <<tables, records, applied, versions>>
  BY DEF Uncommitted
<1>2. TypeOK'
  <2>1. faults' \in 0..MaxFaults
    <3>1. faults \in 0..MaxFaults /\ MaxFaults \in Nat
      BY CatalogAssumption DEF CatalogInv, TypeOK
    <3> QED
      BY <3>1 DEF Uncommitted, Fault
  <2>2. client' = [c \in Clients |-> client'[c]]
    BY <1>1 DEF CatalogInv, TypeOK, tables
  <2> QED
    BY <1>1, <2>1, <2>2 DEF CatalogInv, TypeOK, tables
<1>3. AppliedWithRecord' /\ VersionsUpTo' /\ CardsMatchAccounts' /\ VersionsNameConfigurations'
  BY <1>1 DEF CatalogInv, AppliedWithRecord, Replayable, VersionsUpTo, CardsMatchAccounts,
              VersionsNameConfigurations, tables
<1>4. HandlersLocal'
  BY DEF CatalogInv, HandlerInv, HandlersLocal
<1>5. WritesFit'
  <2> SUFFICES ASSUME NEW q \in Requests, req'[q].pc = "applied"
               PROVE  WriteOK(req[q])'
    BY DEF WritesFit
  <2>1. WriteOK(req'[q])
    BY DEF CatalogInv, HandlerInv, WritesFit
  <2> QED
    BY <1>1, <2>1 DEF WriteOK, tables
<1>6. KeysClaimed'
  <2>1. \A p, q \in Requests : req[p].open /\ req[q].open /\ req[p].id = req[q].id => p = q
    BY DEF CatalogInv, HandlerInv, KeysClaimed
  <2>2. \A p, q \in Requests : req'[p].open /\ req'[q].open /\ req'[p].id = req'[q].id => p = q
    BY <2>1
  <2>3. \A q \in Requests : req[q].open => ~Replayable(req[q].id)
    BY DEF CatalogInv, HandlerInv, KeysClaimed
  <2>4. \A q \in Requests : req'[q].open => ~Replayable(req'[q].id)
    BY <2>3
  <2> QED
    BY <1>1, <2>2, <2>4 DEF KeysClaimed, Replayable
<1>7. RowsWritten'
  <2>1. \A p, q \in Requests :
           req[p].open /\ req[q].open /\ req[p].row = req[q].row /\ req[p].row # None => p = q
    BY DEF CatalogInv, HandlerInv, RowsWritten
  <2> QED
    BY <2>1 DEF RowsWritten
<1>8. CreatedThere'
  BY <1>1 DEF CatalogInv, HandlerInv, CreatedThere, tables
<1>9. OneCreator'
  BY DEF CatalogInv, HandlerInv, OneCreator
<1> QED
  BY <1>2, <1>3, <1>4, <1>5, <1>6, <1>7, <1>8, <1>9 DEF CatalogInv, HandlerInv

\* Nothing else writes or issues, so accounts that move keep being free.
LEMMA NothingMoves ==
  ASSUME CatalogInv, NEW r \in Requests, UNCHANGED <<account, cards>>,
         \A q \in Requests : q # r => req'[q] = req[q],
         req'[r].pc # "applied"
  PROVE  MovesFree'
BY DEF CatalogInv, HandlerInv, MovesFree, Uses

\* An answer without a commit ends the transaction.
LEMMA AnswerStep ==
  ASSUME CatalogInv, NEW r \in Requests, req[r].pc # "idle",
         NEW a \in {"replayed", "conflict", "rejected", "failed"}, Answer(r, a),
         Uncommitted \/ (UNCHANGED <<tables, records, applied, versions>> /\ Fault)
  PROVE  CatalogInv'
<1>1. TypeOK /\ a \in {"done", "replayed", "conflict", "rejected", "failed"}
  BY DEF CatalogInv
<1>2. /\ req' \in [Requests -> Handler]
      /\ \A q \in Requests : q # r => req'[q] = req[q]
      /\ req'[r].pc = "answered" /\ req'[r].answer = a /\ ~req'[r].open
      /\ req'[r].work = req[r].work /\ req'[r].id = req[r].id
  BY <1>1, AnswerSets
<1>3. LocalOK(req'[r])
  <2>1. LocalOK(req[r])
    BY DEF CatalogInv, HandlerInv, HandlersLocal
  <2> QED
    BY <1>2, <2>1 DEF LocalOK
<1>4. MovesFree'
  BY <1>2, NothingMoves DEF Uncommitted, tables
<1>5. req'[r].pc # "applied" /\ req'[r].answer # "done" /\ ~req'[r].open
  BY <1>2
<1> QED
  BY <1>2, <1>3, <1>4, <1>5, HandlerStep

\* A request is received, or sent again.
LEMMA StartStep ==
  ASSUME CatalogInv, NEW r \in Requests, NEW w \in Asked, NEW id \in Ids,
         req' = [req EXCEPT ![r] = [Waiting EXCEPT !.pc = "claiming", !.work = w, !.id = id]],
         Uncommitted
  PROVE  CatalogInv'
<1>1. /\ req' \in [Requests -> Handler]
      /\ \A q \in Requests : q # r => req'[q] = req[q]
      /\ req'[r].pc = "claiming" /\ ~req'[r].open /\ req'[r].answer = "none"
      /\ req'[r].work = w /\ req'[r].id = id /\ req'[r].row = None /\ req'[r].share = None
  BY StartSets DEF CatalogInv
<1>2. LocalOK(req'[r])
  BY <1>1 DEF LocalOK
<1>3. MovesFree'
  BY <1>1, NothingMoves DEF Uncommitted, tables
<1>4. req'[r].pc # "applied" /\ req'[r].answer # "done" /\ ~req'[r].open
  BY <1>1
<1> QED
  BY <1>1, <1>2, <1>3, <1>4, HandlerStep

LEMMA ReceiveStep ==
  ASSUME CatalogInv, NEW r \in Requests, NEW w \in Asked, NEW key \in Keys, Receive(r, w, key)
  PROVE  CatalogInv'
<1>1. Id(w, key) \in Ids
  BY DEF Ids
<1> QED
  BY <1>1, StartStep DEF Receive, Uncommitted

LEMMA ResendStep ==
  ASSUME CatalogInv, NEW r \in Requests, Resend(r)
  PROVE  CatalogInv'
<1>1. req[r].work \in Asked /\ req[r].id \in Ids
  <2>1. LocalOK(req[r]) /\ req[r].pc = "answered"
    BY DEF CatalogInv, HandlerInv, HandlersLocal, Resend
  <2> QED
    BY <2>1 DEF LocalOK
<1> QED
  BY <1>1, StartStep DEF Resend, Uncommitted

LEMMA ClaimStep ==
  ASSUME CatalogInv, NEW r \in Requests, ClaimIdempotency(r)
  PROVE  CatalogInv'
<1>1. /\ req[r].pc = "claiming" /\ Uncommitted /\ ~KeyLocked(req[r].id)
  BY DEF ClaimIdempotency, Uncommitted
<1>2. CASE Answer(r, "conflict") \/ Answer(r, "replayed")
  BY <1>1, <1>2, AnswerStep
<1>3. CASE ~Replayable(req[r].id) /\ req' = [req EXCEPT ![r].pc = "claimed", ![r].open = TRUE]
  <2>1. /\ req' \in [Requests -> Handler]
        /\ \A q \in Requests : q # r => req'[q] = req[q]
        /\ req'[r].pc = "claimed" /\ req'[r].open
        /\ req'[r].work = req[r].work /\ req'[r].id = req[r].id /\ req'[r].row = req[r].row
        /\ req'[r].share = req[r].share /\ req'[r].answer = req[r].answer
    BY <1>3, PhaseSets DEF CatalogInv
  <2>2. LocalOK(req[r])
    BY DEF CatalogInv, HandlerInv, HandlersLocal
  <2>3. LocalOK(req'[r]) /\ req'[r].row = None
    BY <1>1, <2>1, <2>2 DEF LocalOK
  <2>4. MovesFree'
    BY <1>1, <2>1, NothingMoves DEF Uncommitted, tables
  <2>5. \A q \in Requests : q # r /\ req[q].open => req[q].id # req'[r].id
    BY <1>1, <2>1 DEF KeyLocked
  <2>6. req'[r].pc # "applied" /\ req'[r].answer # "done" /\ ~Replayable(req'[r].id)
    BY <1>1, <1>3, <2>1, <2>2 DEF LocalOK
  <2> QED
    BY <1>1, <2>1, <2>3, <2>4, <2>5, <2>6, HandlerStep
<1> QED
  BY <1>2, <1>3 DEF ClaimIdempotency

\* A row is written that nobody else writes, and an account moves only without cards.
LEMMA WriteStep ==
  ASSUME CatalogInv, NEW r \in Requests, req[r].pc = "claimed", req[r].work.kind # "card",
         NEW value \in Values, Writes(r, value), Uncommitted,
         ~RowLocked(Row(req[r].work)),
         WriteOK(req'[r]),
         req[r].work.kind = "account" /\ value # account[req[r].work.ref] =>
           /\ ~AccountShared(req[r].work.ref)
           /\ \A q \in Requests : ~Uses(cards[q], req[r].work.ref)
  PROVE  CatalogInv'
<1>1. LocalOK(req[r]) /\ req[r].work \in Asked
  BY DEF CatalogInv, HandlerInv, HandlersLocal, LocalOK
<1>2. /\ req' \in [Requests -> Handler]
      /\ \A q \in Requests : q # r => req'[q] = req[q]
      /\ req'[r].pc = "applied" /\ req'[r].write = value /\ req'[r].row = Row(req[r].work)
      /\ req'[r].work = req[r].work /\ req'[r].id = req[r].id /\ req'[r].open = req[r].open
      /\ req'[r].share = req[r].share /\ req'[r].answer = req[r].answer
  BY <1>1, WriteSets DEF CatalogInv
<1>3. LocalOK(req'[r]) /\ req'[r].answer # "done" /\ req'[r].open
  BY <1>1, <1>2 DEF LocalOK
<1>4. \A q \in Requests : q # r /\ req[q].open => req[q].id # req'[r].id /\ req[q].row # req'[r].row
  <2>1. \A q \in Requests : q # r /\ req[q].open => req[q].id # req[r].id
    BY <1>2, <1>3 DEF CatalogInv, HandlerInv, KeysClaimed
  <2> QED
    BY <1>2, <2>1 DEF RowLocked
<1>5. ~Replayable(req'[r].id)
  BY <1>2, <1>3 DEF CatalogInv, HandlerInv, KeysClaimed
<1>6. MovesFree'
  <2> SUFFICES ASSUME NEW p \in Requests, NEW q \in Requests,
                      req'[p].pc = "applied", req'[p].work.kind = "account",
                      req'[p].write # account[req'[p].work.ref]
               PROVE  /\ ~Uses(cards[q], req'[p].work.ref)
                      /\ ~(/\ req'[q].pc = "applied" /\ req'[q].work.kind = "card"
                           /\ req'[q].write.account = req'[p].work.ref)
    BY DEF MovesFree, Uncommitted, tables, Uses
  <2>1. CASE p # r
    BY <1>2, <2>1 DEF CatalogInv, HandlerInv, MovesFree
  <2>2. CASE p = r
    <3>1. ~Uses(cards[q], req'[p].work.ref) /\ ~AccountShared(req[r].work.ref)
      BY <1>2, <2>2
    <3>2. ASSUME req'[q].pc = "applied", req'[q].work.kind = "card",
                 req'[q].write.account = req'[p].work.ref
          PROVE  FALSE
      <4>1. q # r /\ LocalOK(req[q]) /\ req[q].pc = "applied" /\ req[q].work.kind = "card"
        BY <1>2, <3>2 DEF CatalogInv, HandlerInv, HandlersLocal
      <4>2. req[q].open /\ req[q].share = req[q].write.account
        BY <4>1 DEF LocalOK
      <4> QED
        BY <1>2, <2>2, <3>1, <3>2, <4>1, <4>2 DEF AccountShared
    <3> QED
      BY <3>1, <3>2
  <2> QED
    BY <2>1, <2>2
<1> QED
  BY <1>2, <1>3, <1>4, <1>5, <1>6, HandlerStep

LEMMA CreateProductStep ==
  ASSUME CatalogInv, NEW r \in Requests, CreateCardProduct(r)
  PROVE  CatalogInv'
<1> DEFINE w == req[r].work
           row == [status |-> w.value.status, configuration |-> w.value.configuration, version |-> 1]
<1>1. /\ req[r].pc = "claimed" /\ w.verb = "create" /\ w.kind = "product" /\ ~RowLocked(Row(w))
      /\ Uncommitted
  BY DEF CreateCardProduct, Does, Uncommitted
<1>2. w \in Asked
  BY <1>1 DEF CatalogInv, HandlerInv, HandlersLocal, LocalOK
<1>3. CASE Answer(r, "failed")
  BY <1>1, <1>3, AnswerStep
<1>4. CASE product[w.ref] = None /\ Writes(r, row)
  <2>1. row \in Product
    <3>1. w.value.status \in {"active", "inactive"} /\ w.value.configuration \in Configurations
      BY <1>1, <1>2, CatalogAssumption
    <3> QED
      BY <3>1 DEF Product
  <2> HIDE DEF row
  <2>2. row \in Values
    BY <2>1 DEF Values
  <2>3. req'[r].write = row /\ req'[r].work = w
    BY <1>1, <1>2, <1>4, <2>2, WriteSets DEF CatalogInv
  <2>4. WriteOK(req'[r])
    BY <1>1, <1>4, <2>1, <2>3 DEF WriteOK
  <2> QED
    BY <1>1, <1>4, <2>2, <2>4, WriteStep
<1> QED
  BY <1>3, <1>4 DEF CreateCardProduct

LEMMA CreateClientStep ==
  ASSUME CatalogInv, NEW r \in Requests, CreateClient(r)
  PROVE  CatalogInv'
<1> DEFINE w == req[r].work
<1>1. /\ req[r].pc = "claimed" /\ w.verb = "create" /\ w.kind = "client" /\ ~RowLocked(Row(w))
      /\ Uncommitted
  BY DEF CreateClient, Does, Uncommitted
<1>2. w \in Asked
  BY <1>1 DEF CatalogInv, HandlerInv, HandlersLocal, LocalOK
<1>3. CASE Answer(r, "failed")
  BY <1>1, <1>3, AnswerStep
<1>4. CASE client[w.ref] = None /\ Writes(r, w.value)
  <2>1. w.value \in Values /\ w.value # None
    BY <1>1, <1>2, WorkFacts DEF Values
  <2>2. req'[r].write = w.value /\ req'[r].work = w
    BY <1>1, <1>2, <1>4, <2>1, WriteSets DEF CatalogInv
  <2>3. WriteOK(req'[r])
    BY <1>1, <1>4, <2>1, <2>2 DEF WriteOK
  <2> QED
    BY <1>1, <1>4, <2>1, <2>3, WriteStep
<1> QED
  BY <1>3, <1>4 DEF CreateClient

\* An account that is not there has no cards.
LEMMA CreateAccountStep ==
  ASSUME CatalogInv, NEW r \in Requests, CreateAccountReference(r)
  PROVE  CatalogInv'
<1> DEFINE w == req[r].work
<1>1. /\ req[r].pc = "claimed" /\ w.verb = "create" /\ w.kind = "account" /\ ~RowLocked(Row(w))
      /\ Uncommitted
  BY DEF CreateAccountReference, Does, Uncommitted
<1>2. w \in Asked
  BY <1>1 DEF CatalogInv, HandlerInv, HandlersLocal, LocalOK
<1>3. CASE Answer(r, "failed")
  BY <1>1, <1>3, AnswerStep
<1>4. CASE account[w.ref] = None /\ Writes(r, w.value)
  <2>1. w.value \in Values /\ w.value \in Clients
    BY <1>1, <1>2, WorkFacts DEF Values
  <2>2. req'[r].write = w.value /\ req'[r].work = w
    BY <1>1, <1>2, <1>4, <2>1, WriteSets DEF CatalogInv
  <2>3. WriteOK(req'[r])
    BY <1>1, <1>4, <2>1, <2>2 DEF WriteOK
  <2>4. \A q \in Requests : ~Uses(cards[q], w.ref)
    <3>1. \A q \in Requests : cards[q] # None => cards[q].client # None
      BY AbsentAssumption DEF CatalogInv, TypeOK, Card
    <3> QED
      BY <1>4, <3>1 DEF CatalogInv, CardsMatchAccounts, Uses
  <2>5. ~AccountShared(w.ref)
    <3> SUFFICES ASSUME NEW q \in Requests, req[q].open, req[q].share = w.ref
                 PROVE  FALSE
      BY DEF AccountShared
    <3>1. LocalOK(req[q]) /\ req[q].share # None
      BY <1>1, <1>2, WorkFacts, AbsentAssumption DEF CatalogInv, HandlerInv, HandlersLocal
    <3>2. req[q].pc = "applied" /\ req[q].work.kind = "card" /\ req[q].share = req[q].write.account
      BY <3>1 DEF LocalOK
    <3>3. req[q].write \in Card /\ account[req[q].write.account] = req[q].write.client
      BY <3>2 DEF CatalogInv, HandlerInv, WritesFit, WriteOK
    <3>4. req[q].write.client # None
      BY <3>3, AbsentAssumption DEF Card
    <3> QED
      BY <1>4, <3>2, <3>3, <3>4
  <2> QED
    BY <1>1, <1>4, <2>1, <2>3, <2>4, <2>5, WriteStep
<1> QED
  BY <1>3, <1>4 DEF CreateAccountReference

\* The patched product has its configuration under the old version or the next.
LEMMA PatchedFits ==
  ASSUME NEW old \in Product, NEW w \in Asked, w.kind = "product"
  PROVE  PatchedProduct(old, w.value) \in Product /\ Succeeds(old, PatchedProduct(old, w.value))
<1> DEFINE c == Patched(old.configuration, w.value.configuration)
           s == Patched(old.status, w.value.status)
<1>1. c \in Configurations /\ s \in {"active", "inactive"} /\ old.version \in Nat \ {0}
  BY CatalogAssumption DEF Patched, Product
<1>2. PatchedProduct(old, w.value) =
        [status |-> s, configuration |-> c,
         version |-> IF c = old.configuration THEN old.version ELSE old.version + 1]
  BY DEF PatchedProduct
<1> HIDE DEF c, s
<1> QED
  BY <1>1, <1>2 DEF Product, Succeeds

LEMMA UpdateProductStep ==
  ASSUME CatalogInv, NEW r \in Requests, UpdateCardProduct(r)
  PROVE  CatalogInv'
<1> DEFINE w == req[r].work
           row == PatchedProduct(product[w.ref], w.value)
<1>1. req[r].pc = "claimed" /\ w.verb = "patch" /\ w.kind = "product" /\ Uncommitted
  BY DEF UpdateCardProduct, Does, Uncommitted
<1>2. w \in Asked
  BY <1>1 DEF CatalogInv, HandlerInv, HandlersLocal, LocalOK
<1>3. CASE Answer(r, "rejected")
  BY <1>1, <1>3, AnswerStep
<1>4. CASE product[w.ref] # None /\ ~RowLocked(Row(w)) /\ Writes(r, row)
  <2>1. product[w.ref] \in Product
    BY <1>1, <1>2, <1>4, WorkFacts DEF CatalogInv, TypeOK
  <2>2. row \in Product /\ Succeeds(product[w.ref], row)
    BY <1>1, <1>2, <2>1, PatchedFits
  <2> HIDE DEF row
  <2>3. row \in Values
    BY <2>2 DEF Values
  <2>4. req'[r].write = row /\ req'[r].work = w
    BY <1>1, <1>2, <1>4, <2>3, WriteSets DEF CatalogInv
  <2>5. WriteOK(req'[r])
    BY <1>1, <1>4, <2>2, <2>4 DEF WriteOK
  <2> QED
    BY <1>1, <1>4, <2>3, <2>5, WriteStep
<1> QED
  BY <1>3, <1>4 DEF UpdateCardProduct

LEMMA UpdateClientStep ==
  ASSUME CatalogInv, NEW r \in Requests, UpdateClient(r)
  PROVE  CatalogInv'
<1> DEFINE w == req[r].work
<1>1. req[r].pc = "claimed" /\ w.verb = "patch" /\ w.kind = "client" /\ Uncommitted
  BY DEF UpdateClient, Does, Uncommitted
<1>2. w \in Asked
  BY <1>1 DEF CatalogInv, HandlerInv, HandlersLocal, LocalOK
<1>3. CASE Answer(r, "rejected")
  BY <1>1, <1>3, AnswerStep
<1>4. CASE client[w.ref] # None /\ ~RowLocked(Row(w)) /\ Writes(r, w.value)
  <2>1. w.value \in Values /\ w.value # None
    BY <1>1, <1>2, WorkFacts DEF Values
  <2>2. req'[r].write = w.value /\ req'[r].work = w
    BY <1>1, <1>2, <1>4, <2>1, WriteSets DEF CatalogInv
  <2>3. WriteOK(req'[r])
    BY <1>1, <1>4, <2>1, <2>2 DEF WriteOK
  <2> QED
    BY <1>1, <1>4, <2>1, <2>3, WriteStep
<1> QED
  BY <1>3, <1>4 DEF UpdateClient

LEMMA UpdateAccountStep ==
  ASSUME CatalogInv, NEW r \in Requests, UpdateAccountReference(r)
  PROVE  CatalogInv'
<1> DEFINE w == req[r].work
<1>1. req[r].pc = "claimed" /\ w.verb = "patch" /\ w.kind = "account" /\ Uncommitted
  BY DEF UpdateAccountReference, Does, Uncommitted
<1>2. w \in Asked
  BY <1>1 DEF CatalogInv, HandlerInv, HandlersLocal, LocalOK
<1>3. CASE Answer(r, "rejected") \/ Answer(r, "failed")
  BY <1>1, <1>3, AnswerStep
<1>4. CASE /\ ~RowLocked(Row(w)) /\ (account[w.ref] # w.value => ~AccountShared(w.ref))
           /\ Movable(w.ref, w.value) /\ Writes(r, w.value)
  <2>1. w.value \in Values /\ w.value \in Clients
    BY <1>1, <1>2, WorkFacts DEF Values
  <2>2. req'[r].write = w.value /\ req'[r].work = w
    BY <1>1, <1>2, <1>4, <2>1, WriteSets DEF CatalogInv
  <2>3. WriteOK(req'[r])
    BY <1>1, <1>4, <2>1, <2>2 DEF WriteOK
  <2>4. w.value # account[w.ref] => \A q \in Requests : ~Uses(cards[q], w.ref)
    BY <1>4 DEF Movable, Uses
  <2> QED
    BY <1>1, <1>4, <2>1, <2>3, <2>4, WriteStep
<1> QED
  BY <1>3, <1>4 DEF UpdateAccountReference

LEMMA ValidateStep ==
  ASSUME CatalogInv, NEW r \in Requests, IssueReferencesValid(r)
  PROVE  CatalogInv'
<1>1. req[r].pc = "claimed" /\ req[r].work.kind = "card" /\ Uncommitted
  BY DEF IssueReferencesValid, Does, Uncommitted
<1>2. CASE Answer(r, "rejected")
  BY <1>1, <1>2, AnswerStep
<1>3. CASE req' = [req EXCEPT ![r].pc = "validated"]
  <2>1. /\ req' \in [Requests -> Handler]
        /\ \A q \in Requests : q # r => req'[q] = req[q]
        /\ req'[r].pc = "validated" /\ req'[r].open = req[r].open
        /\ req'[r].work = req[r].work /\ req'[r].id = req[r].id /\ req'[r].row = req[r].row
        /\ req'[r].share = req[r].share /\ req'[r].answer = req[r].answer
    BY <1>3, ValidSets DEF CatalogInv
  <2>2. LocalOK(req[r])
    BY DEF CatalogInv, HandlerInv, HandlersLocal
  <2>3. LocalOK(req'[r]) /\ req'[r].row = None /\ req[r].open /\ req'[r].answer # "done"
    BY <1>1, <2>1, <2>2 DEF LocalOK
  <2>4. MovesFree'
    BY <1>1, <2>1, NothingMoves DEF Uncommitted, tables
  <2>5. /\ \A q \in Requests : q # r /\ req[q].open => req[q].id # req'[r].id
        /\ ~Replayable(req'[r].id)
    BY <2>1, <2>3 DEF CatalogInv, HandlerInv, KeysClaimed
  <2>6. req'[r].pc # "applied"
    BY <2>1
  <2> QED
    BY <1>1, <2>1, <2>3, <2>4, <2>5, <2>6, HandlerStep
<1> QED
  BY <1>2, <1>3 DEF IssueReferencesValid

\* The foreign key has read an account that is not on the move, and holds it.
LEMMA IssueStep ==
  ASSUME CatalogInv, NEW r \in Requests, IssueCard(r)
  PROVE  CatalogInv'
<1> DEFINE v == req[r].work.value
<1>1. req[r].pc = "validated" /\ Uncommitted /\ ~AccountMoving(v.account)
  BY DEF IssueCard, Uncommitted
<1>2. LocalOK(req[r])
  BY DEF CatalogInv, HandlerInv, HandlersLocal
<1>3. /\ req[r].work \in Asked /\ req[r].work.kind = "card" /\ req[r].open /\ req[r].row = None
      /\ req[r].answer # "done"
  BY <1>1, <1>2 DEF LocalOK
<1>4. v \in Card /\ v \in Values
  BY <1>3, WorkFacts DEF Values
<1>5. CASE Answer(r, "failed")
  BY <1>1, <1>5, AnswerStep
<1>6. CASE /\ account[v.account] = v.client
           /\ req' = [req EXCEPT ![r] = [@ EXCEPT !.pc = "applied", !.write = v,
                                                  !.share = v.account]]
  <2>1. /\ req' \in [Requests -> Handler]
        /\ \A q \in Requests : q # r => req'[q] = req[q]
        /\ req'[r].pc = "applied" /\ req'[r].write = v /\ req'[r].share = v.account
        /\ req'[r].work = req[r].work /\ req'[r].id = req[r].id /\ req'[r].open = req[r].open
        /\ req'[r].row = req[r].row /\ req'[r].answer = req[r].answer
    BY <1>4, <1>6, ShareSets DEF CatalogInv
  <2>2. LocalOK(req'[r]) /\ WriteOK(req'[r])
    BY <1>1, <1>2, <1>3, <1>4, <1>6, <2>1 DEF LocalOK, WriteOK
  <2>3. /\ \A q \in Requests : q # r /\ req[q].open => req[q].id # req'[r].id
        /\ ~Replayable(req'[r].id)
    BY <1>3, <2>1 DEF CatalogInv, HandlerInv, KeysClaimed
  <2>4. MovesFree'
    <3> SUFFICES ASSUME NEW p \in Requests, NEW q \in Requests,
                        req'[p].pc = "applied", req'[p].work.kind = "account",
                        req'[p].write # account[req'[p].work.ref]
                 PROVE  /\ ~Uses(cards[q], req'[p].work.ref)
                        /\ ~(/\ req'[q].pc = "applied" /\ req'[q].work.kind = "card"
                             /\ req'[q].write.account = req'[p].work.ref)
      BY <1>1 DEF MovesFree, Uncommitted, tables, Uses
    <3>1. p # r /\ req'[p] = req[p]
      BY <1>3, <2>1
    <3>2. CASE q # r
      BY <2>1, <3>1, <3>2 DEF CatalogInv, HandlerInv, MovesFree
    <3>3. CASE q = r
      <4>1. ~Uses(cards[q], req'[p].work.ref)
        BY <3>1 DEF CatalogInv, HandlerInv, MovesFree
      <4>2. req[p].open /\ req[p].row = <<"account", req[p].work.ref>>
        <5>1. LocalOK(req[p])
          BY DEF CatalogInv, HandlerInv, HandlersLocal
        <5> QED
          BY <3>1, <5>1 DEF LocalOK, Row
      <4>3. v.account # req[p].work.ref
        BY <1>1, <3>1, <4>2 DEF AccountMoving
      <4> QED
        BY <2>1, <3>1, <3>3, <4>1, <4>3
    <3> QED
      BY <3>2, <3>3
  <2> QED
    BY <1>1, <1>3, <2>1, <2>2, <2>3, <2>4, HandlerStep
<1> QED
  BY <1>5, <1>6 DEF IssueCard

LEMMA FailStep ==
  ASSUME CatalogInv, NEW r \in Requests, TransactionFails(r)
  PROVE  CatalogInv'
BY AnswerStep DEF TransactionFails

\* A window runs out only for a record that no transaction has claimed.
LEMMA WindowStep ==
  ASSUME CatalogInv, NEW id \in Ids, WindowCloses(id)
  PROVE  CatalogInv'
<1>1. /\ Replayable(id) /\ records' = [records EXCEPT ![id].lapsed = TRUE]
      /\ applied' = [applied EXCEPT ![id] = 0]
      /\ UNCHANGED <<tables, req, versions, faults>>
  BY DEF WindowCloses
<1>2. records \in [Ids -> Record \cup {None}] /\ applied \in [Ids -> Nat]
  BY DEF CatalogInv, TypeOK
<1>3. records[id] \in Record
  BY <1>1, <1>2 DEF Replayable
<1> DEFINE old == records[id]
           new == [old EXCEPT !.lapsed = TRUE]
<1>4. records' = [records EXCEPT ![id] = new]
  BY <1>1, <1>2
<1>5. new \in Record /\ new.lapsed
  <2> HIDE DEF old
  <2> QED
    BY <1>3 DEF Record, old
<1> HIDE DEF new
<1>6. records' \in [Ids -> Record \cup {None}] /\ records'[id] = new
      /\ \A i \in Ids : i # id => records'[i] = records[i]
  BY <1>2, <1>4, <1>5
<1>7. applied' \in [Ids -> Nat] /\ applied'[id] = 0 /\ \A i \in Ids : i # id => applied'[i] = applied[i]
  BY <1>1, <1>2
<1>8. TypeOK'
  <2>1. client' = [c \in Clients |-> client'[c]]
    BY <1>1 DEF CatalogInv, TypeOK, tables
  <2> QED
    BY <1>1, <1>6, <1>7, <2>1 DEF CatalogInv, TypeOK, tables
<1>9. AppliedWithRecord'
  <2>1. \A i \in Ids : applied[i] = IF Replayable(i) THEN 1 ELSE 0
    BY DEF CatalogInv, AppliedWithRecord
  <2> QED
    BY <1>5, <1>6, <1>7, <2>1 DEF AppliedWithRecord, Replayable
<1>10. KeysClaimed'
  <2>1. \A r \in Requests : req[r].open => req[r].id \in Ids /\ ~Replayable(req[r].id)
    <3>1. \A r \in Requests : req[r].open => req[r].id \in Ids
      BY DEF CatalogInv, HandlerInv, HandlersLocal, LocalOK
    <3> QED
      BY <3>1 DEF CatalogInv, HandlerInv, KeysClaimed
  <2>2. \A i \in Ids : ~Replayable(i) => ~Replayable(i)'
    BY <1>5, <1>6 DEF Replayable
  <2>3. \A r, q \in Requests : req[r].open /\ req[q].open /\ req[r].id = req[q].id => r = q
    BY DEF CatalogInv, HandlerInv, KeysClaimed
  <2> QED
    BY <1>1, <1>5, <1>6, <2>1, <2>3 DEF KeysClaimed, Replayable
<1>11. HandlersLocal' /\ WritesFit' /\ RowsWritten' /\ MovesFree' /\ CreatedThere' /\ OneCreator'
  <2>1. HandlersLocal' /\ RowsWritten' /\ OneCreator'
    BY <1>1 DEF CatalogInv, HandlerInv, HandlersLocal, RowsWritten, OneCreator
  <2>2. WritesFit'
    BY <1>1 DEF CatalogInv, HandlerInv, WritesFit, WriteOK, tables
  <2>3. MovesFree' /\ CreatedThere'
    BY <1>1 DEF CatalogInv, HandlerInv, MovesFree, CreatedThere, Uses, tables
  <2> QED
    BY <2>1, <2>2, <2>3
<1>12. VersionsUpTo' /\ CardsMatchAccounts' /\ VersionsNameConfigurations'
  BY <1>1 DEF CatalogInv, VersionsUpTo, CardsMatchAccounts, VersionsNameConfigurations, tables
<1> QED
  BY <1>8, <1>9, <1>10, <1>11, <1>12 DEF CatalogInv, HandlerInv

-----------------------------------------------------------------------------
(* The commit *)

\* What is true of the handler that commits.
LEMMA CommitterFacts ==
  ASSUME CatalogInv, NEW r \in Requests, req[r].pc = "applied"
  PROVE  /\ req[r].work \in Asked /\ req[r].id \in Ids /\ req[r].open /\ WriteOK(req[r])
         /\ ~Replayable(req[r].id) /\ applied[req[r].id] = 0
<1>1. req[r].work \in Asked /\ req[r].id \in Ids /\ req[r].open
  BY DEF CatalogInv, HandlerInv, HandlersLocal, LocalOK
<1>2. WriteOK(req[r]) /\ ~Replayable(req[r].id)
  BY <1>1 DEF CatalogInv, HandlerInv, WritesFit, KeysClaimed
<1> QED
  BY <1>1, <1>2 DEF CatalogInv, AppliedWithRecord

\* The tables after a commit, row by row.
Published(r) ==
  LET w == req[r].work  new == req[r].write  id == req[r].id IN
  /\ \A p \in Products : product'[p] = IF w.kind = "product" /\ p = w.ref THEN new ELSE product[p]
  /\ \A c \in Clients : client'[c] = IF w.kind = "client" /\ c = w.ref THEN new ELSE client[c]
  /\ \A a \in Accounts : account'[a] = IF w.kind = "account" /\ a = w.ref THEN new ELSE account[a]
  /\ \A q \in Requests : cards'[q] = IF w.kind = "card" /\ q = r THEN new ELSE cards[q]
  /\ \A i \in Ids : records'[i] = IF i = id THEN [work |-> w, lapsed |-> FALSE] ELSE records[i]
  /\ \A i \in Ids : applied'[i] = IF i = id THEN 1 ELSE applied[i]
  /\ \A p \in Products : versions'[p] =
       IF w.kind = "product" /\ p = w.ref THEN versions[p] \cup {<<new.version, new.configuration>>}
                                          ELSE versions[p]

LEMMA CommitPublishes ==
  ASSUME CatalogInv, NEW r \in Requests, req[r].pc = "applied", CommitEffects(r),
         req' \in [Requests -> Handler], faults' \in 0..MaxFaults
  PROVE  Published(r) /\ TypeOK'
<1> DEFINE w == req[r].work
           new == req[r].write
           id == req[r].id
<1>1. w \in Asked /\ id \in Ids /\ WriteOK(req[r]) /\ applied[id] = 0
  BY CommitterFacts
<1>2. /\ product' = IF w.kind = "product" THEN [product EXCEPT ![w.ref] = new] ELSE product
      /\ client' = IF w.kind = "client" THEN [client EXCEPT ![w.ref] = new] ELSE client
      /\ account' = IF w.kind = "account" THEN [account EXCEPT ![w.ref] = new] ELSE account
      /\ cards' = IF w.kind = "card" THEN [cards EXCEPT ![r] = new] ELSE cards
      /\ records' = [records EXCEPT ![id] = [work |-> w, lapsed |-> FALSE]]
      /\ applied' = [applied EXCEPT ![id] = @ + 1]
      /\ versions' = IF w.kind = "product"
                       THEN [versions EXCEPT ![w.ref] = @ \cup {<<new.version, new.configuration>>}]
                       ELSE versions
  BY DEF CommitEffects
<1>3. /\ w.kind = "product" => w.ref \in Products /\ new \in Product
      /\ w.kind = "client" => w.ref \in Clients
      /\ w.kind = "account" => w.ref \in Accounts /\ new \in Clients
      /\ w.kind = "card" => new \in Card
  BY <1>1, WorkFacts DEF WriteOK
<1> HIDE DEF w, new, id
<1>4. /\ product' \in [Products -> Product \cup {None}]
      /\ \A p \in Products : product'[p] = IF w.kind = "product" /\ p = w.ref THEN new ELSE product[p]
  <2>1. product \in [Products -> Product \cup {None}]
    BY DEF CatalogInv, TypeOK
  <2> QED
    BY <1>2, <1>3, <2>1
<1>5. /\ client' = [c \in Clients |-> client'[c]]
      /\ \A c \in Clients : client'[c] = IF w.kind = "client" /\ c = w.ref THEN new ELSE client[c]
  <2>1. client = [c \in Clients |-> client[c]]
    BY DEF CatalogInv, TypeOK
  <2>2. CASE w.kind # "client"
    BY <1>2, <2>1, <2>2
  <2>3. CASE w.kind = "client"
    <3>1. client' = [client EXCEPT ![w.ref] = new] /\ w.ref \in Clients
      BY <1>2, <1>3, <2>3
    <3>2. client' = [c \in Clients |-> IF c = w.ref THEN new ELSE client[c]]
      BY <2>1, <3>1
    <3>3. \A c \in Clients : client'[c] = IF c = w.ref THEN new ELSE client[c]
      BY <3>2
    <3>4. client' = [c \in Clients |-> client'[c]]
      BY <3>2
    <3> QED
      BY <2>3, <3>3, <3>4
  <2> QED
    BY <2>2, <2>3
<1>6. /\ account' \in [Accounts -> Clients \cup {None}]
      /\ \A a \in Accounts : account'[a] = IF w.kind = "account" /\ a = w.ref THEN new ELSE account[a]
  <2>1. account \in [Accounts -> Clients \cup {None}]
    BY DEF CatalogInv, TypeOK
  <2> QED
    BY <1>2, <1>3, <2>1
<1>7. /\ cards' \in [Requests -> Card \cup {None}]
      /\ \A q \in Requests : cards'[q] = IF w.kind = "card" /\ q = r THEN new ELSE cards[q]
  <2>1. cards \in [Requests -> Card \cup {None}]
    BY DEF CatalogInv, TypeOK
  <2> QED
    BY <1>2, <1>3, <2>1
<1>8. /\ records' \in [Ids -> Record \cup {None}]
      /\ \A i \in Ids : records'[i] = IF i = id THEN [work |-> w, lapsed |-> FALSE] ELSE records[i]
  <2>1. records \in [Ids -> Record \cup {None}]
    BY DEF CatalogInv, TypeOK
  <2> DEFINE record == [work |-> w, lapsed |-> FALSE]
  <2>2. record \in Record
    BY <1>1 DEF Record, w
  <2>3. records' = [records EXCEPT ![id] = record]
    BY <1>2
  <2> HIDE DEF record
  <2>4. /\ records' \in [Ids -> Record \cup {None}]
        /\ \A i \in Ids : records'[i] = IF i = id THEN record ELSE records[i]
    BY <2>1, <2>2, <2>3
  <2> QED
    BY <2>4 DEF record
<1>9. /\ applied' \in [Ids -> Nat]
      /\ \A i \in Ids : applied'[i] = IF i = id THEN 1 ELSE applied[i]
  <2>1. applied \in [Ids -> Nat] /\ applied[id] = 0 /\ id \in Ids
    BY <1>1 DEF CatalogInv, TypeOK, id
  <2>2. applied' = [applied EXCEPT ![id] = 1]
    BY <1>2, <2>1
  <2> QED
    BY <2>1, <2>2
<1>10. /\ versions' \in [Products -> SUBSET ((Nat \ {0}) \X Configurations)]
       /\ \A p \in Products : versions'[p] =
            IF w.kind = "product" /\ p = w.ref THEN versions[p] \cup {<<new.version, new.configuration>>}
                                               ELSE versions[p]
  <2>1. versions \in [Products -> SUBSET ((Nat \ {0}) \X Configurations)]
    BY DEF CatalogInv, TypeOK
  <2>2. CASE w.kind # "product"
    BY <1>2, <2>1, <2>2
  <2>3. CASE w.kind = "product"
    <3> DEFINE pair == <<new.version, new.configuration>>
    <3>1. pair \in (Nat \ {0}) \X Configurations
      BY <1>3, <2>3 DEF Product
    <3>2. versions' = [versions EXCEPT ![w.ref] = @ \cup {pair}]
      BY <1>2, <2>3
    <3> HIDE DEF pair
    <3>3. /\ versions' \in [Products -> SUBSET ((Nat \ {0}) \X Configurations)]
          /\ \A p \in Products : versions'[p] = IF p = w.ref THEN versions[p] \cup {pair} ELSE versions[p]
      BY <1>3, <2>1, <2>3, <3>1, <3>2
    <3> QED
      BY <2>3, <3>3 DEF pair
  <2> QED
    BY <2>2, <2>3
<1>11. TypeOK'
  BY <1>4, <1>5, <1>6, <1>7, <1>8, <1>9, <1>10 DEF TypeOK
<1> QED
  BY <1>4, <1>5, <1>6, <1>7, <1>8, <1>9, <1>10, <1>11 DEF Published, w, new, id

\* Another transaction that is about to commit is about another row.
LEMMA OtherRows ==
  ASSUME CatalogInv, NEW r \in Requests, NEW q \in Requests, q # r,
         req[r].pc = "applied", req[q].pc = "applied",
         req[r].work.kind = req[q].work.kind, req[r].work.kind # "card"
  PROVE  req[q].work.ref # req[r].work.ref
<1>1. /\ req[r].work \in Asked /\ req[r].open /\ req[r].row = Row(req[r].work)
      /\ req[q].work \in Asked /\ req[q].open /\ req[q].row = Row(req[q].work)
  BY DEF CatalogInv, HandlerInv, HandlersLocal, LocalOK
<1>2. req[r].row # req[q].row
  BY <1>1, RowFacts DEF CatalogInv, HandlerInv, RowsWritten
<1> QED
  BY <1>1, <1>2 DEF Row

LEMMA CommitKeepsTables ==
  ASSUME CatalogInv, NEW r \in Requests, req[r].pc = "applied", Published(r)
  PROVE  /\ AppliedWithRecord' /\ VersionsUpTo' /\ CardsMatchAccounts' /\ VersionsNameConfigurations'
<1> DEFINE w == req[r].work
           new == req[r].write
           id == req[r].id
<1>1. w \in Asked /\ id \in Ids /\ WriteOK(req[r]) /\ ~Replayable(id)
  BY CommitterFacts
<1>2. AppliedWithRecord'
  <2>1. [work |-> w, lapsed |-> FALSE] \in Record
    BY <1>1 DEF Record
  <2>2. [work |-> w, lapsed |-> FALSE] # None
    BY <2>1, AbsentAssumption
  <2>3. \A i \in Ids : applied[i] = IF Replayable(i) THEN 1 ELSE 0
    BY DEF CatalogInv, AppliedWithRecord
  <2>4. \A i \in Ids : i # id => records'[i] = records[i] /\ applied'[i] = applied[i]
    BY DEF Published
  <2>5. records'[id] = [work |-> w, lapsed |-> FALSE] /\ applied'[id] = 1
    BY <1>1 DEF Published
  <2>6. records'[id] # None /\ ~records'[id].lapsed
    BY <2>2, <2>5
  <2> QED
    BY <2>3, <2>4, <2>5, <2>6 DEF AppliedWithRecord, Replayable
<1>3. CardsMatchAccounts'
  <2> SUFFICES ASSUME NEW q \in Requests, cards'[q] # None
               PROVE  account'[cards'[q].account] = cards'[q].client
    BY DEF CardsMatchAccounts
  <2>1. CASE w.kind = "card" /\ q = r
    <3>1. cards'[q] = new /\ new \in Card /\ account[new.account] = new.client
      BY <1>1, <2>1 DEF Published, WriteOK
    <3>2. account'[new.account] = account[new.account]
      BY <2>1, <3>1 DEF Published, Card
    <3> QED
      BY <3>1, <3>2
  <2>2. CASE ~(w.kind = "card" /\ q = r)
    <3>1. cards'[q] = cards[q]
      BY <2>2 DEF Published
    <3>2. cards[q] \in Card /\ account[cards[q].account] = cards[q].client
      BY <3>1 DEF CatalogInv, TypeOK, CardsMatchAccounts
    <3>3. cards[q].account \in Accounts
      BY <3>2 DEF Card
    <3>4. account'[cards[q].account] = account[cards[q].account]
      <4>1. CASE w.kind = "account" /\ w.ref = cards[q].account
        <5>1. new = account[w.ref]
          BY <3>1, <4>1 DEF CatalogInv, HandlerInv, MovesFree, Uses
        <5> QED
          BY <3>3, <4>1, <5>1 DEF Published
      <4>2. CASE ~(w.kind = "account" /\ w.ref = cards[q].account)
        BY <3>3, <4>2 DEF Published
      <4> QED
        BY <4>1, <4>2
    <3> QED
      BY <3>1, <3>2, <3>4
  <2> QED
    BY <2>1, <2>2
<1>4. VersionsUpTo' /\ VersionsNameConfigurations'
  <2> SUFFICES ASSUME NEW p \in Products
               PROVE  /\ IF product'[p] = None THEN versions'[p] = {}
                         ELSE /\ <<product'[p].version, product'[p].configuration>> \in versions'[p]
                              /\ \A x \in versions'[p] : x[1] <= product'[p].version
                      /\ \A x, y \in versions'[p] : x[1] = y[1] => x = y
    BY DEF VersionsUpTo, VersionsNameConfigurations
  <2>1. /\ IF product[p] = None THEN versions[p] = {}
           ELSE /\ <<product[p].version, product[p].configuration>> \in versions[p]
                /\ \A x \in versions[p] : x[1] <= product[p].version
        /\ \A x, y \in versions[p] : x[1] = y[1] => x = y
    BY DEF CatalogInv, VersionsUpTo, VersionsNameConfigurations
  <2>2. CASE ~(w.kind = "product" /\ w.ref = p)
    <3>1. product'[p] = product[p] /\ versions'[p] = versions[p]
      BY <2>2 DEF Published
    <3> QED
      BY <2>1, <3>1
  <2>3. CASE w.kind = "product" /\ w.ref = p
    <3> DEFINE pair == <<new.version, new.configuration>>
    <3>1. product'[p] = new /\ versions'[p] = versions[p] \cup {pair}
      BY <2>3 DEF Published
    <3>2. new \in Product /\ new # None
      BY <1>1, <2>3, AbsentAssumption DEF WriteOK
    <3>3. new.version \in Nat \ {0} /\ pair[1] = new.version
      BY <3>2 DEF Product
    <3>4. CASE product[p] = None
      BY <2>1, <3>1, <3>2, <3>3, <3>4
    <3>5. CASE product[p] # None
      <4>1. Succeeds(product[p], new) /\ product[p] \in Product
        BY <1>1, <2>3, <3>5 DEF WriteOK, CatalogInv, TypeOK
      <4> DEFINE old == <<product[p].version, product[p].configuration>>
      <4>2. product[p].version \in Nat \ {0} /\ old \in versions[p] /\ old[1] = product[p].version
        BY <2>1, <3>5, <4>1 DEF Product
      <4>3. \A x \in versions[p] : x[1] \in Nat /\ x[1] <= product[p].version
        BY <2>1, <3>5 DEF CatalogInv, TypeOK
      <4>4. CASE new.version = product[p].version /\ new.configuration = product[p].configuration
        <5>1. pair = old
          BY <4>4
        <5> QED
          BY <2>1, <3>1, <3>2, <4>2, <4>3, <4>4, <5>1
      <4>5. CASE new.version = product[p].version + 1
        <5>1. \A x \in versions[p] : x[1] <= new.version /\ x[1] # new.version
          BY <4>2, <4>3, <4>5
        <5> QED
          BY <2>1, <3>1, <3>2, <3>3, <5>1
      <4> QED
        BY <4>1, <4>4, <4>5 DEF Succeeds
    <3> QED
      BY <3>4, <3>5
  <2> QED
    BY <2>2, <2>3
<1> QED
  BY <1>2, <1>3, <1>4

LEMMA CommitKeepsHandlers ==
  ASSUME CatalogInv, NEW r \in Requests, req[r].pc = "applied", Published(r),
         \A q \in Requests : q # r => req'[q] = req[q],
         req'[r].pc = "answered", ~req'[r].open,
         req'[r].work = req[r].work, req'[r].id = req[r].id
  PROVE  HandlerInv'
<1> DEFINE w == req[r].work
           new == req[r].write
           id == req[r].id
<1>1. w \in Asked /\ id \in Ids /\ req[r].open /\ WriteOK(req[r])
  BY CommitterFacts
<1>2. HandlersLocal'
  <2>1. \A q \in Requests : q # r => LocalOK(req'[q])
    BY DEF CatalogInv, HandlerInv, HandlersLocal
  <2>2. LocalOK(req'[r])
    BY <1>1 DEF LocalOK
  <2> QED
    BY <2>1, <2>2 DEF HandlersLocal
<1>3. WritesFit'
  <2> SUFFICES ASSUME NEW q \in Requests, req'[q].pc = "applied"
               PROVE  WriteOK(req[q])'
    BY DEF WritesFit
  <2>1. q # r /\ req'[q] = req[q] /\ req[q].pc = "applied"
    OBVIOUS
  <2>2. WriteOK(req[q]) /\ req[q].work \in Asked
    BY <2>1, CommitterFacts
  <2>3. req[q].work.kind = w.kind /\ w.kind # "card" => req[q].work.ref # w.ref
    BY <2>1, OtherRows
  <2>4. req[q].work.kind = "card" => account'[req[q].write.account] = account[req[q].write.account]
    <3> SUFFICES ASSUME req[q].work.kind = "card"
                 PROVE  account'[req[q].write.account] = account[req[q].write.account]
      OBVIOUS
    <3>1. req[q].write.account \in Accounts
      BY <2>2 DEF WriteOK, Card
    <3>2. w.kind = "account" /\ w.ref = req[q].write.account => new = account[w.ref]
      BY <2>1 DEF CatalogInv, HandlerInv, MovesFree
    <3> QED
      BY <3>1, <3>2 DEF Published
  <2>5. /\ req[q].work.kind = "product" => product'[req[q].work.ref] = product[req[q].work.ref]
        /\ req[q].work.kind = "client" => client'[req[q].work.ref] = client[req[q].work.ref]
        /\ req[q].work.kind = "account" => account'[req[q].work.ref] = account[req[q].work.ref]
    BY <2>2, <2>3, WorkFacts DEF Published
  <2> QED
    BY <2>1, <2>2, <2>4, <2>5 DEF WriteOK
<1>4. KeysClaimed'
  <2>1. \A p, q \in Requests : req[p].open /\ req[q].open /\ req[p].id = req[q].id => p = q
    BY DEF CatalogInv, HandlerInv, KeysClaimed
  <2>2. \A p, q \in Requests : req'[p].open /\ req'[q].open /\ req'[p].id = req'[q].id => p = q
    BY <2>1
  <2>3. ASSUME NEW q \in Requests, req'[q].open
        PROVE  ~Replayable(req[q].id)'
    <3>1. q # r /\ req[q].open /\ req'[q] = req[q]
      BY <2>3
    <3>2. req[q].id # id /\ req[q].id \in Ids
      BY <1>1, <2>1, <3>1 DEF CatalogInv, HandlerInv, HandlersLocal, LocalOK
    <3>3. ~Replayable(req[q].id)
      BY <3>1 DEF CatalogInv, HandlerInv, KeysClaimed
    <3> QED
      BY <3>1, <3>2, <3>3 DEF Replayable, Published
  <2> QED
    BY <2>2, <2>3 DEF KeysClaimed
<1>5. RowsWritten'
  BY DEF CatalogInv, HandlerInv, RowsWritten
<1>6. MovesFree'
  <2> SUFFICES ASSUME NEW p \in Requests, NEW q \in Requests,
                      req'[p].pc = "applied", req'[p].work.kind = "account",
                      req'[p].write # account'[req'[p].work.ref]
               PROVE  /\ ~Uses(cards'[q], req'[p].work.ref)
                      /\ ~(/\ req'[q].pc = "applied" /\ req'[q].work.kind = "card"
                           /\ req'[q].write.account = req'[p].work.ref)
    BY DEF MovesFree, Uses
  <2>1. p # r /\ req'[p] = req[p]
    OBVIOUS
  <2>2. req[p].work \in Asked /\ (w.kind = "account" => req[p].work.ref # w.ref)
    BY <2>1, CommitterFacts, OtherRows
  <2>3. account'[req[p].work.ref] = account[req[p].work.ref]
    BY <2>1, <2>2, WorkFacts DEF Published
  <2>4. \A s \in Requests :
          /\ ~Uses(cards[s], req[p].work.ref)
          /\ ~(/\ req[s].pc = "applied" /\ req[s].work.kind = "card"
               /\ req[s].write.account = req[p].work.ref)
    BY <2>1, <2>3 DEF CatalogInv, HandlerInv, MovesFree
  <2>5. cards'[q] = IF w.kind = "card" /\ q = r THEN new ELSE cards[q]
    BY DEF Published
  <2>6. ~Uses(cards'[q], req[p].work.ref)
    BY <2>4, <2>5 DEF Uses
  <2>7. q = r \/ req'[q] = req[q]
    OBVIOUS
  <2> QED
    BY <2>1, <2>4, <2>6, <2>7
<1>7. CreatedThere'
  <2>1. /\ w.kind = "product" => new # None
        /\ w.kind = "client" => new # None
        /\ w.kind = "account" => new # None
    BY <1>1, AbsentAssumption DEF WriteOK
  <2> SUFFICES ASSUME NEW q \in Requests, req'[q].answer = "done", req'[q].work.verb = "create"
               PROVE  /\ req'[q].work.kind = "product" => product'[req'[q].work.ref] # None
                      /\ req'[q].work.kind = "client" => client'[req'[q].work.ref] # None
                      /\ req'[q].work.kind = "account" => account'[req'[q].work.ref] # None
    BY DEF CreatedThere
  <2>2. CASE q = r
    BY <1>1, <2>1, <2>2, WorkFacts DEF Published
  <2>3. CASE q # r
    <3>1. req'[q] = req[q] /\ req[q].work \in Asked
      BY <2>3 DEF CatalogInv, HandlerInv, HandlersLocal, LocalOK
    <3>2. /\ req[q].work.kind = "product" => product[req[q].work.ref] # None
          /\ req[q].work.kind = "client" => client[req[q].work.ref] # None
          /\ req[q].work.kind = "account" => account[req[q].work.ref] # None
      BY <3>1 DEF CatalogInv, HandlerInv, CreatedThere
    <3> QED
      BY <2>1, <3>1, <3>2, WorkFacts DEF Published
  <2> QED
    BY <2>2, <2>3
<1>8. OneCreator'
  <2> SUFFICES ASSUME NEW p \in Requests, NEW q \in Requests, p # q,
                      req'[p].answer = "done", req'[q].answer = "done",
                      req'[p].work.verb = "create", req'[p].work.kind # "card",
                      req'[p].work.kind = req'[q].work.kind, req'[p].work.verb = req'[q].work.verb,
                      req'[p].work.ref = req'[q].work.ref
               PROVE  FALSE
    BY DEF OneCreator
  <2>1. CASE p # r /\ q # r
    BY <2>1 DEF CatalogInv, HandlerInv, OneCreator
  <2>2. ASSUME NEW s \in Requests, s # r, req[s].answer = "done", req[s].work.verb = "create",
               w.kind # "card", w.verb = "create", req[s].work.kind = w.kind, req[s].work.ref = w.ref
        PROVE  FALSE
    <3>1. /\ w.kind = "product" => product[w.ref] # None
          /\ w.kind = "client" => client[w.ref] # None
          /\ w.kind = "account" => account[w.ref] # None
      BY <2>2 DEF CatalogInv, HandlerInv, CreatedThere
    <3> QED
      BY <1>1, <2>2, <3>1, WorkFacts DEF WriteOK
  <2>3. CASE p = r
    BY <2>2, <2>3
  <2>4. CASE q = r
    BY <2>2, <2>4
  <2> QED
    BY <2>1, <2>3, <2>4
<1> QED
  BY <1>2, <1>3, <1>4, <1>5, <1>6, <1>7, <1>8 DEF HandlerInv

LEMMA CommitStep ==
  ASSUME CatalogInv, NEW r \in Requests, Commit(r) \/ CommitUnacknowledged(r)
  PROVE  CatalogInv'
<1>1. req[r].pc = "applied" /\ CommitEffects(r) /\ (Answer(r, "done") \/ Answer(r, "failed"))
  BY DEF Commit, CommitUnacknowledged
<1>2. faults' \in 0..MaxFaults
  <2>1. faults \in 0..MaxFaults /\ MaxFaults \in Nat
    BY CatalogAssumption DEF CatalogInv, TypeOK
  <2> QED
    BY <2>1 DEF Commit, CommitUnacknowledged, Fault
<1>3. /\ req' \in [Requests -> Handler]
      /\ \A q \in Requests : q # r => req'[q] = req[q]
      /\ req'[r].pc = "answered" /\ ~req'[r].open
      /\ req'[r].work = req[r].work /\ req'[r].id = req[r].id
  BY <1>1, AnswerSets DEF CatalogInv
<1>4. Published(r) /\ TypeOK'
  BY <1>1, <1>2, <1>3, CommitPublishes
<1> QED
  BY <1>1, <1>3, <1>4, CommitKeepsTables, CommitKeepsHandlers DEF CatalogInv

-----------------------------------------------------------------------------
(* Theorems *)

LEMMA CatalogInitial ==
  ASSUME Init
  PROVE  CatalogInv
<1>1. /\ product = Existing.product /\ client = Existing.client /\ account = Existing.account
      /\ cards = [r \in Requests |-> None] /\ records = [id \in Ids |-> None]
      /\ req = [r \in Requests |-> Waiting] /\ applied = [id \in Ids |-> 0] /\ faults = 0
      /\ versions = [p \in Products |->
           IF product[p] = None THEN {} ELSE {<<product[p].version, product[p].configuration>>}]
  BY DEF Init
<1>2. Waiting \in Handler
  BY DEF Waiting, Handler
<1>3. product \in [Products -> Product \cup {None}] /\ client = [c \in Clients |-> client[c]]
      /\ account \in [Accounts -> Clients \cup {None}]
  BY <1>1, CatalogAssumption
<1>4. versions \in [Products -> SUBSET ((Nat \ {0}) \X Configurations)]
  <2>1. \A p \in Products : product[p] # None =>
          <<product[p].version, product[p].configuration>> \in (Nat \ {0}) \X Configurations
    BY <1>3 DEF Product
  <2> QED
    BY <1>1, <2>1
<1>5. TypeOK
  <2>1. faults \in 0..MaxFaults /\ applied \in [Ids -> Nat]
    BY <1>1, CatalogAssumption
  <2> QED
    BY <1>1, <1>2, <1>3, <1>4, <2>1 DEF TypeOK
<1>6. \A r \in Requests : /\ LocalOK(req[r]) /\ req[r].pc = "idle" /\ ~req[r].open
                          /\ req[r].answer = "none" /\ cards[r] = None
  BY <1>1 DEF Waiting, LocalOK
<1>7. HandlerInv
  BY <1>6 DEF HandlerInv, HandlersLocal, WritesFit, KeysClaimed, RowsWritten, MovesFree, CreatedThere, OneCreator, Uses
<1>8. AppliedWithRecord /\ CardsMatchAccounts
  BY <1>1 DEF AppliedWithRecord, Replayable, CardsMatchAccounts
<1>9. VersionsUpTo /\ VersionsNameConfigurations
  <2> SUFFICES ASSUME NEW p \in Products
               PROVE  /\ IF product[p] = None THEN versions[p] = {}
                         ELSE /\ <<product[p].version, product[p].configuration>> \in versions[p]
                              /\ \A x \in versions[p] : x[1] <= product[p].version
                      /\ \A x, y \in versions[p] : x[1] = y[1] => x = y
    BY DEF VersionsUpTo, VersionsNameConfigurations
  <2>1. CASE product[p] = None
    BY <1>1, <2>1
  <2>2. CASE product[p] # None
    <3>1. versions[p] = {<<product[p].version, product[p].configuration>>}
      BY <1>1, <2>2
    <3>2. product[p].version \in Nat
      BY <1>3, <2>2 DEF Product
    <3> QED
      BY <2>2, <3>1, <3>2
  <2> QED
    BY <2>1, <2>2
<1> QED
  BY <1>5, <1>7, <1>8, <1>9 DEF CatalogInv

LEMMA CatalogInvStep ==
  ASSUME CatalogInv, [Next]_vars
  PROVE  CatalogInv'
<1>1. CASE UNCHANGED vars
  <2>1. TypeOK'
    BY <1>1 DEF CatalogInv, TypeOK, vars, tables
  <2>2. HandlerInv'
    BY <1>1 DEF CatalogInv, HandlerInv, HandlersLocal, WritesFit, WriteOK, KeysClaimed, Replayable,
                RowsWritten, MovesFree, Uses, CreatedThere, OneCreator, vars, tables
  <2>3. AppliedWithRecord' /\ VersionsUpTo' /\ CardsMatchAccounts' /\ VersionsNameConfigurations'
    BY <1>1 DEF CatalogInv, AppliedWithRecord, Replayable, VersionsUpTo, CardsMatchAccounts,
                VersionsNameConfigurations, vars, tables
  <2> QED
    BY <2>1, <2>2, <2>3 DEF CatalogInv
<1>2. ASSUME NEW r \in Requests, Mutate(r)
      PROVE  CatalogInv'
  BY <1>2, CreateProductStep, CreateClientStep, CreateAccountStep, UpdateProductStep,
     UpdateClientStep, UpdateAccountStep, ValidateStep, IssueStep DEF Mutate
<1>3. CASE Next
  BY <1>2, <1>3, ReceiveStep, ClaimStep, CommitStep, FailStep, ResendStep, WindowStep DEF Next
<1> QED
  BY <1>1, <1>3

\* In every reachable state the transactions hold what they rely on, and the
\* committed rows fit together.
THEOREM CatalogInvariant == Spec => []CatalogInv
<1>1. Init => CatalogInv
  BY CatalogInitial
<1>2. CatalogInv /\ [Next]_vars => CatalogInv'
  BY CatalogInvStep
<1> QED
  BY <1>1, <1>2, PTL DEF Spec

\* A card's account belongs to the card's client, however issuance
\* (IssueCardWorkflow) and moves of accounts interleave.
THEOREM CardsMatch == Spec => []CardsMatchAccounts
<1>1. CatalogInv => CardsMatchAccounts
  BY DEF CatalogInv
<1> QED
  BY <1>1, CatalogInvariant, PTL

\* A configuration_version of a product names one configuration, however
\* patches interleave (UpdateCardProduct).
THEOREM VersionsUnambiguous == Spec => []VersionsNameConfigurations
<1>1. CatalogInv => VersionsNameConfigurations
  BY DEF CatalogInv
<1> QED
  BY <1>1, CatalogInvariant, PTL

\* A request takes effect once within a replay window (ClaimIdempotency) and a
\* reference is created by one request.
THEOREM CreatedOnce == Spec => []ReferencesCreatedOnce
<1>1. CatalogInv => ReferencesCreatedOnce
  <2> SUFFICES ASSUME CatalogInv
               PROVE  ReferencesCreatedOnce
    OBVIOUS
  <2>1. \A id \in Ids : applied[id] <= 1
    BY DEF CatalogInv, AppliedWithRecord
  <2> QED
    BY <2>1 DEF CatalogInv, HandlerInv, OneCreator, ReferencesCreatedOnce
<1> QED
  BY <1>1, CatalogInvariant, PTL

-----------------------------------------------------------------------------
(* The order of a list and a page of it *)

\* What ORDER BY created_at DESC, id DESC needs of the elements of a list.
Orderable(S) ==
  /\ IsFiniteSet(S)
  /\ \A x \in S : x.created \in Nat /\ x.id \in Nat
  /\ \A x, y \in S : x.id = y.id => x = y

Descending(s) == \A i, j \in 1..Len(s) : i < j => Above(s[i], s[j])

LEMMA AboveIsTransitive ==
  ASSUME NEW x, NEW y, NEW z, x.created \in Nat, x.id \in Nat, y.created \in Nat, y.id \in Nat,
         z.created \in Nat, z.id \in Nat, Above(x, y), Above(y, z)
  PROVE  Above(x, z)
BY DEF Above

LEMMA AboveIsTotal ==
  ASSUME NEW S, Orderable(S), NEW x \in S, NEW y \in S
  PROVE  /\ ~Above(x, x) /\ ~(Above(x, y) /\ Above(y, x))
         /\ x # y => Above(x, y) \/ Above(y, x)
BY DEF Above, Orderable

\* An element has a later place than those above it.
LEMMA PlacesRise ==
  ASSUME NEW S, Orderable(S), NEW x \in S, NEW y \in S
  PROVE  /\ Place(S, x) \in 1..Cardinality(S)
         /\ Above(x, y) => Place(S, x) < Place(S, y)
<1> DEFINE over(z) == {u \in S : Above(u, z)}
<1>1. IsFiniteSet(S) /\ Cardinality(S) \in Nat
  BY FS_CardinalityType DEF Orderable
<1>2. \A z \in S : /\ IsFiniteSet(over(z)) /\ Cardinality(over(z)) \in Nat
                   /\ Cardinality(over(z)) < Cardinality(S)
  <2> SUFFICES ASSUME NEW z \in S
               PROVE  /\ IsFiniteSet(over(z)) /\ Cardinality(over(z)) \in Nat
                      /\ Cardinality(over(z)) < Cardinality(S)
    OBVIOUS
  <2>1. over(z) \in SUBSET S /\ over(z) # S
    BY AboveIsTotal
  <2> HIDE DEF over
  <2>2. /\ IsFiniteSet(over(z)) /\ Cardinality(over(z)) <= Cardinality(S)
        /\ Cardinality(over(z)) # Cardinality(S)
    BY <1>1, <2>1, FS_Subset
  <2> QED
    BY <1>1, <2>2, FS_CardinalityType
<1>3. \A z \in S : Place(S, z) = Cardinality(over(z)) + 1
  BY DEF Place
<1>4. ASSUME Above(x, y)
      PROVE  Cardinality(over(x)) < Cardinality(over(y))
  <2>1. \A u \in over(x) : Above(u, y)
    BY <1>4, AboveIsTransitive DEF Orderable
  <2>2. x \notin over(x) /\ x \in over(y)
    BY <1>4, AboveIsTotal
  <2>3. over(x) \in SUBSET over(y) /\ over(x) # over(y)
    BY <2>1, <2>2
  <2>4. IsFiniteSet(over(y)) /\ Cardinality(over(x)) \in Nat /\ Cardinality(over(y)) \in Nat
    BY <1>2
  <2> HIDE DEF over
  <2>5. Cardinality(over(x)) <= Cardinality(over(y)) /\ Cardinality(over(x)) # Cardinality(over(y))
    BY <2>3, <2>4, FS_Subset
  <2> QED
    BY <2>4, <2>5
<1> HIDE DEF over
<1> QED
  BY <1>1, <1>2, <1>3, <1>4

\* A list has every element of its set, in descending order.
LEMMA ListedInOrder ==
  ASSUME NEW S, Orderable(S)
  PROVE  /\ Listed(S) \in Seq(S) /\ Len(Listed(S)) = Cardinality(S) /\ Descending(Listed(S))
         /\ \A x \in S : \E i \in 1..Len(Listed(S)) : Listed(S)[i] = x
<1> DEFINE n == Cardinality(S)
           place == [x \in S |-> Place(S, x)]
           s == Listed(S)
<1>1. IsFiniteSet(S) /\ n \in Nat
  BY FS_CardinalityType DEF Orderable
<1>2. place \in Injection(S, 1..n)
  <2>1. place \in [S -> 1..n]
    BY PlacesRise
  <2>2. \A x, y \in S : place[x] = place[y] => x = y
    <3> SUFFICES ASSUME NEW x \in S, NEW y \in S, place[x] = place[y], x # y
                 PROVE  FALSE
      OBVIOUS
    <3>1. Place(S, x) = Place(S, y) /\ Place(S, x) \in 1..n
      BY PlacesRise
    <3>2. ~Above(x, y) /\ ~Above(y, x)
      BY <1>1, <3>1, PlacesRise
    <3> QED
      BY <3>2, AboveIsTotal
  <2> HIDE DEF place
  <2> QED
    BY <2>1, <2>2 DEF Injection, IsInjective
<1>3. place \in Surjection(S, 1..n)
  <2>1. IsFiniteSet(1..n) /\ Cardinality(1..n) = n
    BY <1>1, FS_Interval
  <2> HIDE DEF place
  <2> QED
    BY <1>2, <2>1, FS_Injection
<1>4. \A i \in 1..n : \E x \in S : Place(S, x) = i
  BY <1>3 DEF Surjection
<1>5. s = [i \in 1..n |-> CHOOSE x \in S : Place(S, x) = i]
  BY DEF Listed
<1>6. \A i \in 1..n : s[i] \in S /\ Place(S, s[i]) = i
  BY <1>4, <1>5
<1>7. s \in [1..n -> S]
  BY <1>5, <1>6
<1>8. s \in Seq(S) /\ Len(s) = n
  BY <1>1, <1>7
<1> HIDE DEF n, s, place
<1>9. \A x \in S : Place(S, x) \in 1..n /\ s[Place(S, x)] = x
  <2> SUFFICES ASSUME NEW x \in S
               PROVE  Place(S, x) \in 1..n /\ s[Place(S, x)] = x
    OBVIOUS
  <2>1. Place(S, x) \in 1..n
    BY PlacesRise DEF n
  <2>2. s[Place(S, x)] \in S /\ Place(S, s[Place(S, x)]) = Place(S, x)
    BY <1>6, <2>1
  <2>3. ~Above(x, s[Place(S, x)]) /\ ~Above(s[Place(S, x)], x)
    BY <1>1, <2>1, <2>2, PlacesRise
  <2> QED
    BY <2>1, <2>2, <2>3, AboveIsTotal
<1>10. Descending(s)
  <2> SUFFICES ASSUME NEW i \in 1..n, NEW j \in 1..n, i < j
               PROVE  Above(s[i], s[j])
    BY <1>8 DEF Descending
  <2>1. s[i] \in S /\ s[j] \in S /\ Place(S, s[i]) = i /\ Place(S, s[j]) = j
    BY <1>6
  <2>2. s[i] # s[j] /\ ~Above(s[j], s[i])
    BY <1>1, <2>1, PlacesRise
  <2> QED
    BY <2>1, <2>2, AboveIsTotal
<1> QED
  BY <1>8, <1>9, <1>10 DEF n, s

\* A set of numbers has a least one.
LEMMA LeastNumber ==
  ASSUME NEW T \in SUBSET Nat, T # {}
  PROVE  \E m \in T : \A k \in T : m <= k
<1>1. PICK m \in T : \A k \in T : <<k, m>> \notin OpToRel(<, Nat)
  BY NatLessThanWellFounded, WFMin
<1>2. \A k \in T : ~(k < m)
  BY <1>1 DEF OpToRel
<1> QED
  BY <1>2

\* Where a page starts: at the first element below the cursor.
LEMMA StartFound ==
  ASSUME NEW S, Orderable(S), NEW s \in Seq(S), Descending(s), NEW cursor, NEW first \in BOOLEAN,
         ~first => cursor.created \in Nat /\ cursor.id \in Nat
  PROVE  /\ StartOf(s, cursor, first) \in 1..Len(s) + 1
         /\ ~first => \A i \in 1..Len(s) : Above(cursor, s[i]) <=> i >= StartOf(s, cursor, first)
         /\ first => StartOf(s, cursor, first) = 1
<1> DEFINE n == Len(s)
           T == {i \in 1..n + 1 : i <= n => Above(cursor, s[i])}
<1>0. n \in Nat
  OBVIOUS
<1>1. CASE first
  BY <1>0, <1>1 DEF StartOf
<1>2. CASE ~first
  <2>1. T \in SUBSET Nat /\ n + 1 \in T
    BY <1>0
  <2>2. PICK m \in T : \A k \in T : m <= k
    BY <2>1, LeastNumber
  <2>3. \A j \in 1..m - 1 : ~Above(cursor, s[j])
    BY <1>0, <2>1, <2>2
  <2> DEFINE st == StartOf(s, cursor, first)
  <2>4. st = CHOOSE i \in 1..n + 1 : /\ i <= n => Above(cursor, s[i])
                                     /\ \A j \in 1..i - 1 : ~Above(cursor, s[j])
    BY <1>2 DEF StartOf
  <2>5. /\ st \in 1..n + 1 /\ (st <= n => Above(cursor, s[st]))
        /\ \A j \in 1..st - 1 : ~Above(cursor, s[j])
    BY <2>2, <2>3, <2>4
  <2> HIDE DEF st
  <2>6. ASSUME NEW i \in 1..n
        PROVE  Above(cursor, s[i]) <=> i >= st
    <3>1. CASE i < st
      BY <1>0, <2>5, <2>6, <3>1
    <3>2. CASE i = st
      BY <1>0, <2>5, <2>6, <3>2
    <3>3. CASE i > st
      <4>1. st \in 1..n /\ st < i
        BY <1>0, <2>5, <2>6, <3>3
      <4>2. Above(cursor, s[st]) /\ Above(s[st], s[i]) /\ s[st] \in S /\ s[i] \in S
        BY <2>5, <2>6, <4>1 DEF Descending
      <4>3. Above(cursor, s[i])
        BY <1>2, <4>2, AboveIsTransitive DEF Orderable
      <4> QED
        BY <1>0, <2>5, <2>6, <3>3, <4>3
    <3> QED
      BY <1>0, <2>5, <2>6, <3>1, <3>2, <3>3
  <2> QED
    BY <1>2, <2>5, <2>6 DEF st
<1> QED
  BY <1>1, <1>2

Shows(page, x) == \E i \in 1..Len(page) : page[i] = x

CursorAt(collection, x) == [collection |-> collection, created |-> x.created, id |-> x.id]

\* What an answer is of a list: its page is below the cursor, if there is one,
\* and shows all that is, or all that is not below next_cursor, which is at
\* the page's last element.
AnswerFits(answer, s, collection, cursor, first) ==
  LET page == answer.page
      next == CursorAt(collection, page[Len(page)])
      left(k) == k \in 1..Len(s) /\ (first \/ Above(cursor, s[k])) /\ ~Shows(page, s[k])
  IN
  /\ ~first => \A i \in 1..Len(page) : Above(cursor, page[i])
  /\ answer.next = {} => \A k : ~left(k)
  /\ answer.next # {} => /\ Len(page) > 0 /\ answer.next = {next}
                         /\ \A k : left(k) => Above(next, s[k])

\* The elements of a page, next_cursor and what is left after it: a page has
\* the elements from its start on.
LEMMA PageCut ==
  ASSUME NEW S, Orderable(S), NEW s \in Seq(S), Descending(s), NEW cursor, NEW first \in BOOLEAN,
         ~first => cursor.created \in Nat /\ cursor.id \in Nat,
         NEW collection, NEW limit \in Nat \ {0},
         NEW answer, answer = PageOf(s, collection, cursor, first, limit)
  PROVE  /\ answer.page \in Seq(S) /\ Descending(answer.page)
         /\ AnswerFits(answer, s, collection, cursor, first)
<1> DEFINE n == Len(s)
           start == StartOf(s, cursor, first)
           end == IF start + limit - 1 > n THEN n ELSE start + limit - 1
           more == start <= end /\ end < n
<1>1. n \in Nat /\ start \in 1..n + 1
  BY StartFound
<1>2. \A k \in 1..n : first \/ Above(cursor, s[k]) => k >= start
  BY <1>1, StartFound
<1>3. \A k \in 1..n : ~first /\ k >= start => Above(cursor, s[k])
  BY StartFound
<1>4. /\ answer.page = SubSeq(s, start, end)
      /\ answer.next = IF more THEN {CursorAt(collection, s[end])} ELSE {}
  BY DEF PageOf, CursorAt
<1> HIDE DEF start
<1>5. end \in Nat /\ end <= n /\ start <= end + 1 /\ (start <= n => start <= end)
  BY <1>1
<1>6. ~more => end = n \/ start = n + 1
  BY <1>1
<1> HIDE DEF end, n
<1> DEFINE page == [i \in 1..end - start + 1 |-> s[start + i - 1]]
<1>7. SubSeq(s, start, end) = page
  BY <1>1, <1>5
<1>8. \A i \in 1..end - start + 1 : start + i - 1 \in 1..n /\ start + i - 1 >= start
  BY <1>1, <1>5
<1>9. page \in Seq(S) /\ Len(page) = end - start + 1
  <2>1. end - start + 1 \in Nat
    BY <1>1, <1>5 DEF n
  <2>2. page \in [1..end - start + 1 -> S]
    BY <1>8 DEF n
  <2> HIDE DEF page
  <2> QED
    BY <2>1, <2>2
<1>10. \A i \in 1..Len(page) : page[i] = s[start + i - 1]
  BY <1>9
<1>11. \A k \in start..end : Shows(page, s[k])
  <2> SUFFICES ASSUME NEW k \in start..end
               PROVE  Shows(page, s[k])
    OBVIOUS
  <2> DEFINE i == k - start + 1
  <2>1. i \in 1..Len(page) /\ start + i - 1 = k
    BY <1>1, <1>5, <1>9
  <2> HIDE DEF page, i
  <2> QED
    BY <1>10, <2>1 DEF Shows
<1>12. answer.page = page
  BY <1>4, <1>7
<1> HIDE DEF page
<1>13. Descending(page)
  <2> SUFFICES ASSUME NEW i \in 1..Len(page), NEW j \in 1..Len(page), i < j
               PROVE  Above(page[i], page[j])
    BY DEF Descending
  <2>1. start + i - 1 \in 1..n /\ start + j - 1 \in 1..n /\ start + i - 1 < start + j - 1
    BY <1>1, <1>5, <1>8, <1>9
  <2>2. Above(s[start + i - 1], s[start + j - 1])
    BY <2>1 DEF Descending, n
  <2> QED
    BY <1>10, <2>2
<1>14. ~first => \A i \in 1..Len(page) : Above(cursor, page[i])
  BY <1>3, <1>8, <1>9, <1>10
<1>15. CASE ~more
  <2>1. \A k \in 1..n : first \/ Above(cursor, s[k]) => Shows(page, s[k])
    BY <1>1, <1>2, <1>5, <1>6, <1>11, <1>15
  <2> QED
    BY <1>4, <1>9, <1>12, <1>13, <1>14, <1>15, <2>1 DEF AnswerFits, n
<1>16. CASE more
  <2> DEFINE last == page[Len(page)]
             c == CursorAt(collection, s[end])
  <2>1. Len(page) > 0 /\ last = s[end]
    <3>1. Len(page) \in 1..Len(page) /\ start + Len(page) - 1 = end
      BY <1>1, <1>5, <1>9, <1>16
    <3> QED
      BY <1>10, <3>1
  <2>2. \A k \in 1..n : k > end => Above(s[end], s[k])
    BY <1>1, <1>5, <1>16 DEF Descending, n
  <2>3. \A k \in 1..n : k > end => Above(c, s[k])
    BY <2>2 DEF Above, CursorAt
  <2>4. \A k \in 1..n : first \/ Above(cursor, s[k]) => Shows(page, s[k]) \/ Above(c, s[k])
    BY <1>1, <1>2, <1>5, <1>11, <2>3
  <2> QED
    BY <1>4, <1>9, <1>12, <1>13, <1>14, <1>16, <2>1, <2>4 DEF AnswerFits, n
<1> QED
  BY <1>15, <1>16

-----------------------------------------------------------------------------
(* A walk through the pages *)

\* A row as a list shows it.
Element(row) == [created |-> created[row], id |-> IdOf[row], row |-> row]

Elements == [created : Nat, id : Nat, row : Rows]
Cursors == [collection : Kinds, created : Nat, id : Nat]

ListingTypeOK ==
  /\ clock \in Nat /\ began \in [Requests -> Nat] /\ created \in [Rows -> Nat]
  /\ walk \in [pc : {"idle", "walking", "done"}, cursor : Cursors \cup {None},
               due : SUBSET Rows, given : Seq(Elements)]

Given == {walk.given[i].row : i \in 1..Len(walk.given)}

\* The cursor is the last element given; what is due is committed, and what of
\* it was not given yet comes after the cursor.
Halfway ==
  LET last == walk.given[Len(walk.given)] IN
  /\ walk.cursor \in Cursors /\ Len(walk.given) > 0
  /\ last.created = walk.cursor.created /\ last.id = walk.cursor.id
  /\ walk.due \subseteq Committed(walk.cursor.collection)
  /\ \A row \in walk.due : row \in Given \/ Above(walk.cursor, Element(row))

ListingInv ==
  /\ ListingTypeOK
  /\ Descending(walk.given)
  /\ walk.pc = "idle" => walk.given = <<>>
  /\ walk.pc = "walking" => Halfway
  /\ walk.pc = "done" => walk.due \subseteq Given

\* The rows of a kind can be put in order.
LEMMA RowsOrderable ==
  ASSUME ListingTypeOK, NEW kind
  PROVE  /\ Orderable({Element(row) : row \in Committed(kind)})
         /\ \A row \in Committed(kind) : row \in Rows /\ Element(row) \in Elements
<1> DEFINE C == Committed(kind)
           S == {Element(row) : row \in C}
           show == [row \in C |-> Element(row)]
<1>1. C \in SUBSET Rows /\ IsFiniteSet(Rows)
  BY ListingAssumption DEF Committed
<1>2. \A row \in C : Element(row) \in Elements /\ Element(row).id = IdOf[row]
  BY <1>1, ListingAssumption DEF ListingTypeOK, Element, Elements
<1>3. IsFiniteSet(S)
  <2>1. IsFiniteSet(C)
    BY <1>1, FS_Subset
  <2>2. show \in Surjection(C, S)
    BY DEF Surjection
  <2> HIDE DEF show, S
  <2> QED
    BY <2>1, <2>2, FS_Surjection
<1>4. \A x, y \in S : x.id = y.id => x = y
  BY <1>1, <1>2, ListingAssumption
<1>5. \A x \in S : x.created \in Nat /\ x.id \in Nat
  BY <1>2 DEF Elements
<1> QED
  BY <1>1, <1>2, <1>3, <1>4, <1>5 DEF Orderable

\* A committed row stays, whatever a request does.
LEMMA CommittedStays ==
  ASSUME CatalogInv, Next, NEW kind \in Kinds
  PROVE  Committed(kind) \subseteq Committed(kind)'
<1>1. CASE UNCHANGED <<product, client, account>>
  BY <1>1 DEF Committed
<1>2. ASSUME NEW r \in Requests, req[r].pc = "applied", CommitEffects(r), CatalogInv'
      PROVE  Committed(kind) \subseteq Committed(kind)'
  <2> DEFINE w == req[r].work
             new == req[r].write
  <2>1. Published(r)
    <3>1. TypeOK'
      BY <1>2 DEF CatalogInv
    <3> QED
      BY <1>2, <3>1, CommitPublishes DEF TypeOK
  <2>2. w \in Asked /\ WriteOK(req[r])
    BY <1>2, CommitterFacts
  <2>3. /\ w.kind = "product" => new # None
        /\ w.kind = "client" => new # None
        /\ w.kind = "account" => new # None
    BY <2>2, AbsentAssumption DEF WriteOK
  <2>4. /\ \A p \in Products : product[p] # None => product'[p] # None
        /\ \A c \in Clients : client[c] # None => client'[c] # None
        /\ \A a \in Accounts : account[a] # None => account'[a] # None
    BY <2>1, <2>3 DEF Published
  <2>5. \A row \in Rows : /\ row[1] = "product" => row[2] \in Products
                          /\ row[1] = "client" => row[2] \in Clients
                          /\ row[1] = "account" => row[2] \in Accounts
    BY DEF Rows
  <2>6. CASE kind = "product"
    BY <2>4, <2>5, <2>6 DEF Committed
  <2>7. CASE kind = "client"
    BY <2>4, <2>5, <2>7 DEF Committed
  <2>8. CASE kind = "account"
    BY <2>4, <2>5, <2>8 DEF Committed
  <2> QED
    BY <2>6, <2>7, <2>8 DEF Kinds
<1>3. CatalogInv'
  BY CatalogInvStep
<1>4. ASSUME NEW r \in Requests, Mutate(r)
      PROVE  UNCHANGED <<product, client, account>>
  BY <1>4 DEF Mutate, CreateCardProduct, CreateClient, CreateAccountReference, UpdateCardProduct,
              UpdateClient, UpdateAccountReference, IssueReferencesValid, IssueCard, tables
<1>5. ASSUME NEW r \in Requests, ClaimIdempotency(r) \/ TransactionFails(r) \/ Resend(r)
      PROVE  UNCHANGED <<product, client, account>>
  BY <1>5 DEF ClaimIdempotency, TransactionFails, Resend, tables
<1>6. ASSUME NEW r \in Requests, Commit(r) \/ CommitUnacknowledged(r)
      PROVE  Committed(kind) \subseteq Committed(kind)'
  BY <1>2, <1>3, <1>6 DEF Commit, CommitUnacknowledged
<1>7. ASSUME NEW r \in Requests, NEW w \in Asked, NEW key \in Keys, Receive(r, w, key)
      PROVE  UNCHANGED <<product, client, account>>
  BY <1>7 DEF Receive, tables
<1>8. ASSUME NEW id \in Ids, WindowCloses(id)
      PROVE  UNCHANGED <<product, client, account>>
  BY <1>8 DEF WindowCloses, tables
<1> QED
  BY <1>1, <1>4, <1>5, <1>6, <1>7, <1>8 DEF Next

\* A row keeps the time of its creation once it is committed.
LEMMA CreationTimes ==
  ASSUME ListingTypeOK, CatalogStep
  PROVE  /\ began' \in [Requests -> Nat] /\ created' \in [Rows -> Nat]
         /\ \A row \in Rows : row \in Committed(row[1]) => created'[row] = created[row]
<1> DEFINE by(row) == {r \in Requests : /\ req[r].pc = "applied" /\ req[r].row = row
                                        /\ req[r].work.verb = "create"}
           new(row) == by(row) # {} /\ row \notin Committed(row[1]) /\ row \in Committed(row[1])'
<1>1. began' \in [Requests -> Nat]
  BY DEF CatalogStep, ListingTypeOK
<1>2. created' = [row \in Rows |-> IF new(row) THEN began[CHOOSE r \in by(row) : TRUE] ELSE created[row]]
  BY DEF CatalogStep
<1>3. \A row \in Rows : by(row) # {} => began[CHOOSE r \in by(row) : TRUE] \in Nat
  BY DEF ListingTypeOK
<1>4. \A row \in Rows : row \in Committed(row[1]) => ~new(row)
  OBVIOUS
<1>5. \A row \in Rows : new(row) => by(row) # {}
  OBVIOUS
<1> HIDE DEF by, new
<1> QED
  BY <1>1, <1>2, <1>3, <1>4, <1>5 DEF ListingTypeOK

\* What the client was given and has to expect is not touched by others.
LEMMA WalkUntouched ==
  ASSUME ListingInv, ListingTypeOK', walk' = walk,
         \A kind \in Kinds : Committed(kind) \subseteq Committed(kind)',
         \A row \in Rows : row \in Committed(row[1]) => created'[row] = created[row]
  PROVE  ListingInv'
<1>1. Given' = Given
  BY DEF Given
<1>2. CASE walk.pc = "walking"
  <2>1. Halfway /\ walk.cursor.collection \in Kinds
    BY <1>2 DEF ListingInv, Halfway, Cursors
  <2>2. walk.due \subseteq Committed(walk.cursor.collection)'
    BY <2>1 DEF Halfway
  <2>3. \A row \in walk.due : Element(row)' = Element(row)
    BY <2>1 DEF Halfway, Element, Committed
  <2>4. Halfway'
    <3>1. \A row \in walk.due : row \in Given' \/ Above(walk.cursor, Element(row)')
      BY <1>1, <2>1, <2>3 DEF Halfway
    <3> QED
      BY <2>1, <2>2, <3>1 DEF Halfway
  <2> QED
    BY <1>1, <1>2, <2>4 DEF ListingInv, Descending
<1>3. CASE walk.pc # "walking"
  BY <1>1, <1>3 DEF ListingInv, Descending
<1> QED
  BY <1>2, <1>3

\* A sequence that shows what two others do, and ends as the second.
Appended(t, s, page) ==
  /\ \A i \in 1..Len(s) : Shows(t, s[i])
  /\ \A i \in 1..Len(page) : Shows(t, page[i])
  /\ Len(page) > 0 => Len(t) > 0 /\ t[Len(t)] = page[Len(page)]

\* A descending sequence goes on with a page below its last element.
LEMMA PageAppended ==
  ASSUME NEW s \in Seq(Elements), Descending(s), NEW page \in Seq(Elements), Descending(page),
         \A i \in 1..Len(page) : Len(s) > 0 => Above(s[Len(s)], page[i])
  PROVE  /\ s \o page \in Seq(Elements) /\ Descending(s \o page)
         /\ Appended(s \o page, s, page)
<1> DEFINE n == Len(s)
           m == Len(page)
           t == s \o page
<1>1. n \in Nat /\ m \in Nat /\ t \in Seq(Elements) /\ Len(t) = n + m
  OBVIOUS
<1>2. \A i \in 1..n : s[i] \in Elements /\ t[i] = s[i]
  OBVIOUS
<1>3. \A i \in 1..m : page[i] \in Elements /\ t[n + i] = page[i]
  OBVIOUS
<1>4. \A i \in n + 1..n + m : i - n \in 1..m /\ t[i] = page[i - n]
  OBVIOUS
<1> HIDE DEF t
<1>5. \A i \in 1..n, j \in 1..m : Above(s[i], page[j])
  <2> SUFFICES ASSUME NEW i \in 1..n, NEW j \in 1..m
               PROVE  Above(s[i], page[j])
    OBVIOUS
  <2>1. Above(s[n], page[j]) /\ n \in 1..n
    BY <1>1
  <2>2. i = n \/ Above(s[i], s[n])
    BY <1>1, <2>1 DEF Descending
  <2>3. s[i] \in Elements /\ s[n] \in Elements /\ page[j] \in Elements
    BY <1>2, <1>3, <2>1
  <2> QED
    BY <2>1, <2>2, <2>3, AboveIsTransitive DEF Elements
<1>6. Descending(t)
  <2> SUFFICES ASSUME NEW i \in 1..n + m, NEW j \in 1..n + m, i < j
               PROVE  Above(t[i], t[j])
    BY <1>1 DEF Descending
  <2>1. CASE j <= n
    <3>1. i \in 1..n /\ j \in 1..n
      BY <1>1, <2>1
    <3> QED
      BY <1>2, <3>1 DEF Descending
  <2>2. CASE i <= n /\ j > n
    <3>1. i \in 1..n /\ j \in n + 1..n + m
      BY <1>1, <2>2
    <3> QED
      BY <1>2, <1>4, <1>5, <3>1
  <2>3. CASE i > n
    <3>1. i \in n + 1..n + m /\ j \in n + 1..n + m /\ i - n < j - n
      BY <1>1, <2>3
    <3>2. Above(page[i - n], page[j - n])
      BY <1>4, <3>1 DEF Descending
    <3> QED
      BY <1>4, <3>1, <3>2
  <2> QED
    BY <1>1, <2>1, <2>2, <2>3
<1>7. \A i \in 1..n : i \in 1..n + m
  BY <1>1
<1>8. \A i \in 1..m : n + i \in 1..n + m
  BY <1>1
<1>9. m > 0 => n + m > 0 /\ t[n + m] = page[m]
  BY <1>1, <1>3
<1> QED
  BY <1>1, <1>2, <1>3, <1>6, <1>7, <1>8, <1>9 DEF t, Appended, Shows

\* A page: it goes on below the cursor and leaves nothing out.
LEMMA PageStep ==
  ASSUME ListingInv, NEW kind \in Kinds, NEW limit \in PageSizes, Collection(kind, limit)
  PROVE  ListingInv'
<1> DEFINE first == walk.pc = "idle"
           S == {Element(row) : row \in Committed(kind)}
           list == Listed(S)
           answer == PageOf(list, kind, walk.cursor, first, limit)
           page == answer.page
           due == IF first THEN Committed(kind) ELSE walk.due
           given == walk.given \o page
<1>1. ListingTypeOK /\ limit \in Nat \ {0}
  BY ListingAssumption DEF ListingInv
<1>2. /\ first \/ (walk.pc = "walking" /\ walk.cursor.collection = kind)
      /\ walk' = [pc |-> IF answer.next = {} THEN "done" ELSE "walking",
                  cursor |-> IF answer.next = {} THEN None ELSE CHOOSE c \in answer.next : TRUE,
                  due |-> due, given |-> given]
      /\ UNCHANGED <<vars, clock, began, created>>
  BY DEF Collection, ListReference, Serves, Element
<1>3. Orderable(S) /\ \A row \in Committed(kind) : row \in Rows /\ Element(row) \in Elements
  BY <1>1, RowsOrderable
<1>4. /\ list \in Seq(S) /\ Descending(list)
      /\ \A x \in S : \E i \in 1..Len(list) : list[i] = x
  BY <1>3, ListedInOrder
<1>5. ~first => Halfway
  BY <1>2 DEF ListingInv
<1>6. ~first => walk.cursor.created \in Nat /\ walk.cursor.id \in Nat
  BY <1>5 DEF Halfway, Cursors
<1>7. first \in BOOLEAN /\ answer = PageOf(list, kind, walk.cursor, first, limit)
  OBVIOUS
<1>8. first <=> walk.pc = "idle"
  OBVIOUS
<1> HIDE DEF list, S, first, answer
<1>9. /\ page \in Seq(S) /\ Descending(page)
      /\ AnswerFits(answer, list, kind, walk.cursor, first)
  BY <1>1, <1>3, <1>4, <1>6, <1>7, PageCut
<1>10. /\ ~first => \A i \in 1..Len(page) : Above(walk.cursor, page[i])
       /\ answer.next = {} =>
            \A k \in 1..Len(list) : first \/ Above(walk.cursor, list[k]) => Shows(page, list[k])
       /\ answer.next # {} =>
            /\ Len(page) > 0 /\ answer.next = {CursorAt(kind, page[Len(page)])}
            /\ \A k \in 1..Len(list) : first \/ Above(walk.cursor, list[k]) =>
                 Shows(page, list[k]) \/ Above(CursorAt(kind, page[Len(page)]), list[k])
  BY <1>9 DEF AnswerFits
<1> HIDE DEF page
<1> DEFINE c == CursorAt(kind, page[Len(page)])
<1>11. page \in Seq(Elements) /\ walk.given \in Seq(Elements) /\ walk.due \in SUBSET Rows
  <2>1. S \subseteq Elements
    BY <1>3 DEF S
  <2> QED
    BY <1>1, <1>9, <2>1 DEF ListingTypeOK
<1>12. \A i \in 1..Len(page) : Len(walk.given) > 0 => Above(walk.given[Len(walk.given)], page[i])
  <2>1. CASE first
    BY <1>8, <2>1 DEF ListingInv
  <2>2. CASE ~first
    BY <1>5, <1>10, <2>2 DEF Halfway, Above
  <2> QED
    BY <2>1, <2>2
<1>13. Descending(walk.given)
  BY DEF ListingInv
<1>14. given \in Seq(Elements) /\ Descending(given) /\ Appended(given, walk.given, page)
  BY <1>9, <1>11, <1>12, <1>13, PageAppended
<1> DEFINE rows == {given[i].row : i \in 1..Len(given)}
<1> HIDE DEF given
<1>15. Given \subseteq rows
  BY <1>14 DEF Given, Appended, Shows
<1>16. \A row \in Committed(kind) : Shows(page, Element(row)) => row \in rows
  <2>1. \A row \in Committed(kind) : Element(row).row = row
    BY DEF Element
  <2> QED
    BY <1>14, <2>1 DEF Shows, Appended
<1>17. due \in SUBSET Rows /\ due \subseteq Committed(kind)
  BY <1>2, <1>3, <1>5 DEF Halfway
<1>18. \A row \in due : row \in Given \/ first \/ Above(walk.cursor, Element(row))
  BY <1>5 DEF Halfway
<1>19. \A row \in due : \E k \in 1..Len(list) : list[k] = Element(row)
  BY <1>4, <1>17 DEF S
<1>20. walk'.given = given /\ walk'.due = due /\ Given' = rows
  BY <1>2 DEF Given
<1>21. (Committed(kind))' = Committed(kind) /\ \A row : Element(row)' = Element(row)
  BY <1>2 DEF Committed, Element, vars, tables
<1> HIDE DEF due, rows
<1>22. CASE answer.next = {}
  <2>1. due \subseteq rows
    BY <1>10, <1>15, <1>16, <1>17, <1>18, <1>19, <1>22
  <2>2. walk' = [pc |-> "done", cursor |-> None, due |-> due, given |-> given]
    BY <1>2, <1>22
  <2>3. ListingTypeOK'
    BY <1>1, <1>2, <1>14, <1>17, <2>2 DEF ListingTypeOK
  <2> QED
    BY <1>14, <1>20, <2>1, <2>2, <2>3 DEF ListingInv
<1>23. CASE answer.next # {}
  <2>1. answer.next = {c} /\ Len(page) > 0
    BY <1>10, <1>23
  <2>2. page[Len(page)] \in Elements
    BY <1>11, <2>1
  <2>3. c \in Cursors
    BY <2>2 DEF CursorAt, Cursors, Elements
  <2>4. walk' = [pc |-> "walking", cursor |-> c, due |-> due, given |-> given]
    BY <1>2, <1>23, <2>1
  <2>5. ListingTypeOK'
    <3>1. walk' \in [pc : {"idle", "walking", "done"}, cursor : Cursors \cup {None},
                      due : SUBSET Rows, given : Seq(Elements)]
      <4> HIDE DEF c
      <4> QED
        BY <1>14, <1>17, <2>3, <2>4
    <3> QED
      BY <1>1, <1>2, <3>1 DEF ListingTypeOK
  <2>6. \A row \in due : row \in rows \/ Above(c, Element(row))
    BY <1>10, <1>15, <1>16, <1>17, <1>18, <1>19, <1>23
  <2>7. /\ Len(given) > 0 /\ given[Len(given)].created = c.created
        /\ given[Len(given)].id = c.id /\ c.collection = kind
    BY <1>14, <2>1 DEF CursorAt, Appended
  <2>8. walk'.cursor = c
    BY <2>4
  <2> HIDE DEF c
  <2>9. due \subseteq Committed(walk.cursor.collection)'
    BY <1>17, <1>21, <2>7, <2>8 DEF Committed
  <2>10. Halfway'
    BY <1>20, <1>21, <2>3, <2>6, <2>7, <2>8, <2>9 DEF Halfway
  <2> QED
    BY <1>14, <1>20, <2>4, <2>5, <2>10 DEF ListingInv
<1> QED
  BY <1>22, <1>23

LEMMA ListingStep ==
  ASSUME CatalogInv, ListingInv, [ListingNext]_listingVars
  PROVE  CatalogInv' /\ ListingInv'
<1>1. CASE CatalogStep
  <2>1. CatalogInv' /\ \A kind \in Kinds : Committed(kind) \subseteq Committed(kind)'
    BY <1>1, CatalogInvStep, CommittedStays DEF CatalogStep
  <2>2. ListingTypeOK
    BY DEF ListingInv
  <2>3. /\ began' \in [Requests -> Nat] /\ created' \in [Rows -> Nat]
        /\ \A row \in Rows : row \in Committed(row[1]) => created'[row] = created[row]
    BY <1>1, <2>2, CreationTimes
  <2>4. walk' = walk /\ clock' = clock
    BY <1>1 DEF CatalogStep
  <2>5. ListingTypeOK'
    BY <2>2, <2>3, <2>4 DEF ListingTypeOK
  <2> QED
    BY <2>1, <2>3, <2>4, <2>5, WalkUntouched
<1>2. CASE Tick \/ UNCHANGED listingVars
  <2>1. UNCHANGED vars /\ UNCHANGED <<began, created, walk>> /\ (clock' = clock \/ clock' = clock + 1)
    BY <1>2 DEF Tick, listingVars, listVars
  <2>2. CatalogInv'
    BY <2>1, CatalogInvStep
  <2>3. ListingTypeOK'
    BY <2>1 DEF ListingInv, ListingTypeOK
  <2>4. \A kind \in Kinds : Committed(kind)' = Committed(kind)
    BY <2>1 DEF Committed, vars, tables
  <2> QED
    BY <2>1, <2>2, <2>3, <2>4, WalkUntouched
<1>3. ASSUME NEW kind \in Kinds, NEW limit \in PageSizes, Collection(kind, limit)
      PROVE  CatalogInv' /\ ListingInv'
  <2>1. UNCHANGED vars
    BY <1>3 DEF Collection
  <2> QED
    BY <1>3, <2>1, CatalogInvStep, PageStep
<1> QED
  BY <1>1, <1>2, <1>3 DEF ListingNext

\* A client that follows the cursors of a list (bankResource, collection) is
\* given every row that was there at its first page and none twice, with any
\* page sizes and whatever is committed meanwhile.
THEOREM CompletePages == ListingSpec => []PagesComplete
<1>1. ListingInit => CatalogInv /\ ListingInv
  <2> SUFFICES ASSUME ListingInit
               PROVE  CatalogInv /\ ListingInv
    OBVIOUS
  <2>1. CatalogInv
    BY CatalogInitial DEF ListingInit
  <2>2. ListingTypeOK
    BY DEF ListingInit, ListingTypeOK
  <2> QED
    BY <2>1, <2>2 DEF ListingInit, ListingInv, Descending
<1>2. CatalogInv /\ ListingInv /\ [ListingNext]_listingVars => CatalogInv' /\ ListingInv'
  BY ListingStep
<1>3. ListingInv => PagesComplete
  BY DEF ListingInv, PagesComplete, Descending, Given
<1> QED
  BY <1>1, <1>2, <1>3, PTL DEF ListingSpec

=============================================================================
