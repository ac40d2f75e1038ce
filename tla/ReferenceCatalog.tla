-------------------------- MODULE ReferenceCatalog --------------------------
(***************************************************************************)
(* The reference data of one bank: card products, clients and account      *)
(* references (internal/catalog, repository/shard/reader.go), and the      *)
(* issuance of cards that refer to them (IssueCardWorkflow).               *)
(*                                                                         *)
(* Every workflow is one transaction of the shard (READ COMMITTED): it     *)
(* claims an idempotency key, writes one row, finishes the record and      *)
(* commits.  What it writes is visible from its commit on; the locks it    *)
(* takes are held until it ends.  Two kinds of row locks meet here: the    *)
(* exclusive lock of the row that is written, and the key-share lock that  *)
(* the foreign key of a new card takes on its account.  An account is      *)
(* referred to by (client, account), so moving it to another client needs  *)
(* the one and conflicts with the other.                                   *)
(*                                                                         *)
(* A row is named by its external reference, which is unique in the bank   *)
(* and immutable (guard_public_reference_keys).  Left out: names of        *)
(* products, audit rows, the vault (CardCommands); actors are in Keys.     *)
(***************************************************************************)
EXTENDS Naturals, FiniteSets

CONSTANTS
  Products, Clients, Accounts,   \* external references
  Configurations,                \* of products
  Existing,                      \* rows at first: [product, client, account]
  Asked,                         \* requests made in this instance
  Requests,                      \* handlers: one HTTP request each
  Keys,                          \* (actor, Idempotency-Key) pairs
  None,
  MaxFaults,                     \* bound: errors, lost answers and crashes
  MaxWindows                     \* bound: replay windows that run out

\* The columns of a product and the references of a card.
Product == [status : {"active", "inactive"}, configuration : Configurations, version : Nat \ {0}]
Card == [client : Clients, account : Accounts, product : Products]

\* A request: value is the new client's or account's column, or the columns
\* of a product or card; a patch of a product leaves out what is None.  (A
\* client without a display_name has a value that says so.)
ASSUME CatalogAssumption ==
  /\ \A w \in Asked :
       /\ w.verb \in {"create", "patch"}
       /\ \/ /\ w.kind = "product" /\ w.ref \in Products
             /\ w.value.status \in {"active", "inactive"} \cup {None}
             /\ w.value.configuration \in Configurations \cup {None}
             /\ w.verb = "create" => w.value.status # None /\ w.value.configuration # None
          \/ w.kind = "client" /\ w.ref \in Clients /\ w.value # None
          \/ w.kind = "account" /\ w.ref \in Accounts /\ w.value \in Clients
          \/ w.kind = "card" /\ w.verb = "create" /\ w.ref = None /\ w.value \in Card
  /\ Existing.product \in [Products -> Product \cup {None}]
  /\ Existing.client = [c \in Clients |-> Existing.client[c]]
  /\ Existing.account \in [Accounts -> Clients \cup {None}]
  /\ MaxFaults \in Nat /\ MaxWindows \in Nat

VARIABLES
  product,   \* bank.card_products: status, configuration and its version
  client,    \* bank.clients: display_name
  account,   \* bank.account_references: client_id
  cards,     \* bank.cards: the references of the card a request issued
  records,   \* bank.idempotency_records, committed
  req,       \* the handlers
  applied,   \* ghost: commits under a key in its current replay window
  versions,  \* ghost: the configuration_version and configuration pairs committed
  faults

tables == <<product, client, account, cards>>
vars == <<tables, records, req, applied, versions, faults>>

-----------------------------------------------------------------------------

\* What scope and key of an idempotency record tell apart.
Id(w, key) == <<w.kind, w.verb, IF w.verb = "patch" THEN w.ref ELSE None, key>>
Ids == {Id(w, key) : w \in Asked, key \in Keys}

Rows == ({"product"} \X Products) \cup ({"client"} \X Clients) \cup ({"account"} \X Accounts)
Row(w) == <<w.kind, w.ref>>

Values == Product \cup {w.value : w \in Asked}
Record == [work : Asked, lapsed : BOOLEAN]
\* write is what the commit will publish; share the account that the foreign
\* key of a new card has locked; open says whether locks are held.
Handler ==
  [pc : {"idle", "claiming", "claimed", "validated", "applied", "answered"},
   work : Asked \cup {None}, id : Ids \cup {None}, open : BOOLEAN,
   row : Rows \cup {None}, share : Accounts \cup {None}, write : Values \cup {None},
   answer : {"none", "done", "replayed", "conflict", "rejected", "failed"}]

\* None stands for a row, a record or a column that is not there.
ASSUME AbsentAssumption ==
  /\ None \notin Asked /\ None \notin Product /\ None \notin Record /\ None \notin Rows
  /\ None \notin Clients /\ None \notin Accounts /\ None \notin Configurations

Waiting == [pc |-> "idle", work |-> None, id |-> None, open |-> FALSE,
            row |-> None, share |-> None, write |-> None, answer |-> "none"]

TypeOK ==
  /\ product \in [Products -> Product \cup {None}]
  /\ client = [c \in Clients |-> client[c]]
  /\ account \in [Accounts -> Clients \cup {None}]
  /\ cards \in [Requests -> Card \cup {None}]
  /\ records \in [Ids -> Record \cup {None}]
  /\ req \in [Requests -> Handler]
  /\ applied \in [Ids -> Nat]
  /\ versions \in [Products -> SUBSET ((Nat \ {0}) \X Configurations)]
  /\ faults \in 0..MaxFaults

Init ==
  /\ product = Existing.product /\ client = Existing.client /\ account = Existing.account
  /\ cards = [r \in Requests |-> None]
  /\ records = [id \in Ids |-> None]
  /\ req = [r \in Requests |-> Waiting]
  /\ applied = [id \in Ids |-> 0]
  /\ versions = [p \in Products |->
        IF product[p] = None THEN {} ELSE {<<product[p].version, product[p].configuration>>}]
  /\ faults = 0

-----------------------------------------------------------------------------
(* Locks and ends of a transaction *)

\* Mutation of KeyLocked: a claim does not wait for the other transaction.
KeyNeverLocked(id) == FALSE

KeyLocked(id) == \E r \in Requests : req[r].open /\ req[r].id = id

\* Mutation of RowLocked: rows are written without waiting for each other.
RowNeverLocked(row) == FALSE

\* A row that an open transaction has inserted or updated.
RowLocked(row) == \E r \in Requests : req[r].open /\ req[r].row = row

AccountShared(a) == \E r \in Requests : req[r].open /\ req[r].share = a

\* The uncommitted update of the account changes its key.
AccountMoving(a) ==
  \E r \in Requests : /\ req[r].open /\ req[r].row = <<"account", a>>
                      /\ req[r].write # account[a]

Answer(r, a) == req' = [req EXCEPT ![r] = [@ EXCEPT !.pc = "answered", !.answer = a,
                                                    !.open = FALSE]]

\* The write is made, invisible to others, and the row locked.
Writes(r, value) ==
  req' = [req EXCEPT ![r] = [@ EXCEPT !.pc = "applied", !.write = value,
                                      !.row = Row(req[r].work)]]

Does(r, verb, kind) ==
  req[r].pc = "claimed" /\ req[r].work.verb = verb /\ req[r].work.kind = kind

-----------------------------------------------------------------------------
(* Claiming the key *)

Receive(r, w, key) ==
  /\ req[r].pc = "idle"
  /\ req' = [req EXCEPT ![r] = [Waiting EXCEPT !.pc = "claiming", !.work = w,
                                               !.id = Id(w, key)]]
  /\ UNCHANGED <<tables, records, applied, versions, faults>>

Replayable(id) == records[id] # None /\ ~records[id].lapsed

\* ClaimIdempotency: replay, refuse another body, or claim the key.
ClaimIdempotency(r) ==
  LET id == req[r].id IN
  /\ req[r].pc = "claiming"
  /\ ~KeyLocked(id)
  /\ \/ Replayable(id) /\ records[id].work # req[r].work /\ Answer(r, "conflict")
     \/ Replayable(id) /\ records[id].work = req[r].work /\ Answer(r, "replayed")
     \/ ~Replayable(id) /\ req' = [req EXCEPT ![r].pc = "claimed", ![r].open = TRUE]
  /\ UNCHANGED <<tables, records, applied, versions, faults>>

WindowCloses(id) ==
  /\ Replayable(id)
  /\ Cardinality({i \in Ids : records[i] # None /\ records[i].lapsed}) < MaxWindows
  /\ records' = [records EXCEPT ![id].lapsed = TRUE]
  /\ applied' = [applied EXCEPT ![id] = 0]
  /\ UNCHANGED <<tables, req, versions, faults>>

-----------------------------------------------------------------------------
(* Products, clients and accounts *)

\* An insert waits for an uncommitted one with the same reference and then
\* fails on the unique constraint, as it does on a committed one.
CreateCardProduct(r) ==
  LET w == req[r].work IN
  /\ Does(r, "create", "product")
  /\ ~RowLocked(Row(w))
  /\ \/ product[w.ref] # None /\ Answer(r, "failed")
     \/ /\ product[w.ref] = None
        /\ Writes(r, [status |-> w.value.status, configuration |-> w.value.configuration,
                      version |-> 1])
  /\ UNCHANGED <<tables, records, applied, versions, faults>>

CreateClient(r) ==
  LET w == req[r].work IN
  /\ Does(r, "create", "client")
  /\ ~RowLocked(Row(w))
  /\ \/ client[w.ref] # None /\ Answer(r, "failed")
     \/ client[w.ref] = None /\ Writes(r, w.value)
  /\ UNCHANGED <<tables, records, applied, versions, faults>>

\* The foreign key fails for a client that is not committed.
CreateAccountReference(r) ==
  LET w == req[r].work IN
  /\ Does(r, "create", "account")
  /\ ~RowLocked(Row(w))
  /\ \/ (account[w.ref] # None \/ client[w.value] = None) /\ Answer(r, "failed")
     \/ account[w.ref] = None /\ client[w.value] # None /\ Writes(r, w.value)
  /\ UNCHANGED <<tables, records, applied, versions, faults>>

\* COALESCE: a column left out keeps its value.
Patched(old, new) == IF new = None THEN old ELSE new

\* The version counts changes of the configuration.
PatchedProduct(old, patch) ==
  LET configuration == Patched(old.configuration, patch.configuration) IN
  [status |-> Patched(old.status, patch.status), configuration |-> configuration,
   version |-> IF configuration = old.configuration THEN old.version ELSE old.version + 1]

\* An update does not see an uncommitted insert; it waits for another update
\* and is evaluated on the row as it is once the lock is held.
UpdateCardProduct(r) ==
  LET w == req[r].work IN
  /\ Does(r, "patch", "product")
  /\ \/ product[w.ref] = None /\ Answer(r, "rejected")
     \/ /\ product[w.ref] # None /\ ~RowLocked(Row(w))
        /\ Writes(r, PatchedProduct(product[w.ref], w.value))
  /\ UNCHANGED <<tables, records, applied, versions, faults>>

UpdateClient(r) ==
  LET w == req[r].work IN
  /\ Does(r, "patch", "client")
  /\ \/ client[w.ref] = None /\ Answer(r, "rejected")
     \/ client[w.ref] # None /\ ~RowLocked(Row(w)) /\ Writes(r, w.value)
  /\ UNCHANGED <<tables, records, applied, versions, faults>>

\* The foreign keys let an account go to an existing client, and away from
\* its own only without cards.
Movable(a, c) ==
  /\ client[c] # None
  /\ account[a] = c \/ ~\E r \in Requests : cards[r] # None /\ cards[r].account = a

\* Changing the client changes a key, which a key-share lock excludes.
UpdateAccountReference(r) ==
  LET w == req[r].work  a == w.ref IN
  /\ Does(r, "patch", "account")
  /\ \/ account[a] = None /\ Answer(r, "rejected")
     \/ /\ account[a] # None /\ ~RowLocked(Row(w))
        /\ account[a] # w.value => ~AccountShared(a)
        /\ \/ Movable(a, w.value) /\ Writes(r, w.value)
           \/ ~Movable(a, w.value) /\ Answer(r, "failed")
  /\ UNCHANGED <<tables, records, applied, versions, faults>>

-----------------------------------------------------------------------------
(* Issuance *)

\* IssueReferencesValid reads without a lock; the vault is called next.
IssueReferencesValid(r) ==
  LET v == req[r].work.value
      valid == /\ account[v.account] = v.client
               /\ product[v.product] # None /\ product[v.product].status = "active"
  IN
  /\ Does(r, "create", "card")
  /\ \/ ~valid /\ Answer(r, "rejected")
     \/ valid /\ req' = [req EXCEPT ![r].pc = "validated"]
  /\ UNCHANGED <<tables, records, applied, versions, faults>>

\* Mutation of IssueCard: the insert relies on what was validated.
IssueCardUnchecked(r) ==
  LET v == req[r].work.value IN
  /\ req[r].pc = "validated"
  /\ req' = [req EXCEPT ![r] = [@ EXCEPT !.pc = "applied", !.write = v, !.share = v.account]]
  /\ UNCHANGED <<tables, records, applied, versions, faults>>

\* The insert's foreign key waits for an account on the move, and fails if it
\* went to another client.
IssueCard(r) ==
  LET v == req[r].work.value IN
  /\ req[r].pc = "validated"
  /\ ~AccountMoving(v.account)
  /\ \/ account[v.account] # v.client /\ Answer(r, "failed")
     \/ /\ account[v.account] = v.client
        /\ req' = [req EXCEPT ![r] = [@ EXCEPT !.pc = "applied", !.write = v,
                                               !.share = v.account]]
  /\ UNCHANGED <<tables, records, applied, versions, faults>>

-----------------------------------------------------------------------------
(* The end of a transaction *)

\* FinishIdempotency and what the commit publishes.
CommitEffects(r) ==
  LET w == req[r].work  new == req[r].write
      set(table, kind) == IF w.kind = kind THEN [table EXCEPT ![w.ref] = new] ELSE table
  IN
  /\ product' = set(product, "product")
  /\ client' = set(client, "client")
  /\ account' = set(account, "account")
  /\ cards' = IF w.kind = "card" THEN [cards EXCEPT ![r] = new] ELSE cards
  /\ records' = [records EXCEPT ![req[r].id] = [work |-> w, lapsed |-> FALSE]]
  /\ applied' = [applied EXCEPT ![req[r].id] = @ + 1]
  /\ versions' = IF w.kind = "product"
                   THEN [versions EXCEPT ![w.ref] = @ \cup {<<new.version, new.configuration>>}]
                   ELSE versions

Commit(r) ==
  /\ req[r].pc = "applied"
  /\ CommitEffects(r)
  /\ Answer(r, "done")
  /\ UNCHANGED faults

Fault == faults < MaxFaults /\ faults' = faults + 1

\* The acknowledgement of the commit is lost.
CommitUnacknowledged(r) ==
  /\ req[r].pc = "applied"
  /\ Fault
  /\ CommitEffects(r)
  /\ Answer(r, "failed")

\* A statement fails, the client goes away or the process dies: rolled back.
TransactionFails(r) ==
  /\ req[r].pc \in {"claimed", "validated", "applied"}
  /\ Fault
  /\ Answer(r, "failed")
  /\ UNCHANGED <<tables, records, applied, versions>>

\* The same request is sent again after an error.  (cards is kept by request,
\* so an issuance that took effect is repeated by another one.)
Resend(r) ==
  /\ req[r].pc = "answered" /\ req[r].answer = "failed" /\ cards[r] = None
  /\ req' = [req EXCEPT ![r] = [Waiting EXCEPT !.pc = "claiming", !.work = req[r].work,
                                               !.id = req[r].id]]
  /\ UNCHANGED <<tables, records, applied, versions, faults>>

Mutate(r) ==
  \/ CreateCardProduct(r) \/ CreateClient(r) \/ CreateAccountReference(r)
  \/ UpdateCardProduct(r) \/ UpdateClient(r) \/ UpdateAccountReference(r)
  \/ IssueReferencesValid(r) \/ IssueCard(r)

Next ==
  \/ \E r \in Requests, w \in Asked, key \in Keys : Receive(r, w, key)
  \/ \E r \in Requests : \/ ClaimIdempotency(r) \/ Mutate(r) \/ Commit(r)
                         \/ CommitUnacknowledged(r) \/ TransactionFails(r) \/ Resend(r)
  \/ \E id \in Ids : WindowCloses(id)

Spec == Init /\ [][Next]_vars

-----------------------------------------------------------------------------
(* Properties *)

\* The account of a card belongs to the card's client, for as long as the card
\* exists, although the references are validated before the vault is called
\* and accounts may be moved to another client meanwhile and afterwards.
CardsMatchAccounts ==
  \A r \in Requests : cards[r] # None => account[cards[r].account] = cards[r].client

\* A configuration_version names one configuration of a product: concurrent
\* patches never publish different configurations under one version.
VersionsNameConfigurations ==
  \A p \in Products : \A x, y \in versions[p] : x[1] = y[1] => x = y

\* A request takes effect at most once within the replay window of its key,
\* and a reference is created by one request only, whatever their keys.
ReferencesCreatedOnce ==
  /\ \A id \in Ids : applied[id] <= 1
  /\ \A r, q \in Requests :
       (/\ req[r].answer = "done" /\ req[q].answer = "done"
        /\ req[r].work.verb = "create" /\ req[r].work.kind # "card"
        /\ req[r].work.kind = req[q].work.kind /\ req[r].work.verb = req[q].work.verb
        /\ req[r].work.ref = req[q].work.ref) => r = q
=============================================================================
