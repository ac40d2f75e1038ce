-------------------------- MODULE BankProvisioning --------------------------
(***************************************************************************)
(* Provisioning and patching a bank, internal/bank/service.go: a saga over *)
(* two databases that share no transaction.  The control database has the  *)
(* bank's route and the idempotency record of the command, the shard has   *)
(* the bank's entity.  A handler commits a first control transaction       *)
(* (claim, route), then the shard transaction (entity, audit event), then  *)
(* a last control transaction (route, result).  Whatever stops it leaves   *)
(* what is committed; a client that was told of a failure may send its     *)
(* request again under the same key.                                       *)
(*                                                                         *)
(* The central ClaimIdempotency is SELECT FOR UPDATE and then a plain      *)
(* INSERT: a request that finds no record waits in the INSERT for another  *)
(* one's and fails on the unique key.  Names of banks are left out, actors *)
(* are folded into Keys.  A patch may name any bank: one that is not there *)
(* and one that is being provisioned, with or without its entity.          *)
(***************************************************************************)
EXTENDS Naturals, FiniteSets

CONSTANTS
  Banks,         \* UUIDs; a new one is one never used before
  NoBank,
  Requests,      \* handlers: one HTTP request each
  Keys,          \* (actor, Idempotency-Key) pairs
  References,    \* bank references asked for
  Patches,       \* statuses asked for, or "rename"
  None,
  MaxFaults,     \* bound: errors, lost acknowledgements and crashes
  MaxWindows     \* bound: windows run out until one id's has done so this often

ASSUME BankProvisioningAssumption ==
  /\ NoBank \notin Banks
  /\ Patches \subseteq {"active", "inactive", "rename"}
  /\ MaxFaults \in Nat /\ MaxWindows \in Nat

VARIABLES
  route,     \* control.bank_routing_entries.placement_status, or "none"
  entity,    \* bank.entities of the shard
  records,   \* control.command_idempotency_records
  req,       \* the handlers
  applied,   \* ghost: banks created or patches applied under an id, per window
  windows,   \* ghost: replay windows of an id that have run out
  faults

tables == <<route, entity, records, applied>>
vars == <<tables, req, windows, faults>>

-----------------------------------------------------------------------------

\* Scope and key of a record: banks.create, or banks.patch of one bank.
Ids == ({NoBank} \X Keys) \cup (Banks \X Keys)
Provisions(id) == id[1] = NoBank

Entity == [reference : References, status : {"active", "inactive"}]

\* "processing" is the response body {}, "provisional" the one with the new
\* bank's identifier, "done" the final response.
Record == [body : References \cup Patches, state : {"processing", "provisional", "done"},
           bank : Banks \cup {NoBank}, lapsed : BOOLEAN]

Handler ==
  [pc : {"idle", "claiming", "inserting", "claimed", "shard", "finish", "answered"},
   id : Ids \cup {None}, body : References \cup Patches \cup {None},
   bank : Banks \cup {NoBank}, found : BOOLEAN, window : Nat,
   answer : {"none", "created", "patched", "replayed", "conflict", "notfound", "failed"}]

\* None stands for an entity or a record that is not there.
ASSUME AbsentAssumption == None \notin Entity /\ None \notin Record

IdleHandler == [pc |-> "idle", id |-> None, body |-> None, bank |-> NoBank,
                found |-> FALSE, window |-> 0, answer |-> "none"]

TypeOK ==
  /\ route \in [Banks -> {"none", "provisioning", "active", "paused"}]
  /\ entity \in [Banks -> Entity \cup {None}]
  /\ records \in [Ids -> Record \cup {None}]
  /\ req \in [Requests -> Handler]
  /\ applied \in [Ids -> Nat]
  /\ windows \in [Ids -> 0..MaxWindows] /\ faults \in 0..MaxFaults

Init ==
  /\ route = [b \in Banks |-> "none"]
  /\ entity = [b \in Banks |-> None]
  /\ records = [id \in Ids |-> None]
  /\ req = [r \in Requests |-> IdleHandler]
  /\ applied = [id \in Ids |-> 0]
  /\ windows = [id \in Ids |-> 0] /\ faults = 0

-----------------------------------------------------------------------------

Fault == faults < MaxFaults /\ faults' = faults + 1

Answer(r, a) == req' = [req EXCEPT ![r].pc = "answered", ![r].answer = a]
\* A problem is the answer: what the handler had found is of no more use.
Refuse(r, a) ==
  req' = [req EXCEPT ![r] = [IdleHandler EXCEPT !.pc = "answered", !.id = req[r].id,
                               !.body = req[r].body, !.answer = a]]
Goto(r, pc) == req' = [req EXCEPT ![r].pc = pc]

\* The record is inserted, updated or locked by an open transaction.
Locked(id) == \E r \in Requests : req[r].pc = "claimed" /\ req[r].id = id

Live(id) == records[id] # None /\ ~records[id].lapsed

\* replayLifetime, seven days, has passed since the record was claimed: no
\* request under way lasts that long.
WindowCloses(id) ==
  /\ Live(id)
  /\ \A r \in Requests : req[r].id = id => req[r].pc \in {"claiming", "answered"}
  /\ \A i \in Ids : windows[i] < MaxWindows
  /\ windows' = [windows EXCEPT ![id] = @ + 1]
  /\ records' = [records EXCEPT ![id].lapsed = TRUE]
  /\ applied' = [applied EXCEPT ![id] = 0]
  /\ UNCHANGED <<route, entity, req, faults>>

Receive(r, id, body) ==
  /\ req[r].pc = "idle"
  /\ body \in IF Provisions(id) THEN References ELSE Patches
  /\ req' = [req EXCEPT ![r].pc = "claiming", ![r].id = id, ![r].body = body,
                        ![r].bank = id[1]]
  /\ UNCHANGED <<tables, windows, faults>>

\* The client was told of a failure and sends its request again.
Retry(r) ==
  /\ req[r].pc = "answered" /\ req[r].answer = "failed"
  /\ req' = [req EXCEPT ![r] = [IdleHandler EXCEPT !.pc = "claiming", !.id = req[r].id,
                                  !.body = req[r].body, !.bank = req[r].id[1]]]
  /\ UNCHANGED <<tables, windows, faults>>

\* The SELECT of ClaimIdempotency.  A provisional record resumes the saga of
\* its bank, a processing one executes the patch again.
ClaimIdempotency(r) ==
  LET id == req[r].id  found == records[id] IN
  /\ req[r].pc = "claiming"
  /\ \/ found = None /\ Goto(r, "inserting")
     \/ found # None /\ ~Live(id) /\ ~Locked(id)
        /\ req' = [req EXCEPT ![r].pc = "claimed", ![r].window = windows[req[r].id]]
     \/ /\ Live(id) /\ ~Locked(id)
        /\ \/ found.body # req[r].body /\ Refuse(r, "conflict")
           \/ /\ found.body = req[r].body /\ found.state = "done"
              /\ req' = [req EXCEPT ![r].pc = "answered", ![r].answer = "replayed",
                                    ![r].bank = found.bank, ![r].window = windows[req[r].id]]
           \/ /\ found.body = req[r].body /\ found.state # "done"
              /\ req' = [req EXCEPT ![r].pc = "claimed", ![r].found = TRUE,
                                    ![r].window = windows[req[r].id],
                                    ![r].bank = IF Provisions(id) THEN found.bank ELSE id[1]]
  /\ UNCHANGED <<tables, windows, faults>>

\* Mutation of InsertRecord: ON CONFLICT DO NOTHING without a second look.
InsertRecordRegardless(r) ==
  /\ req[r].pc = "inserting" /\ ~Locked(req[r].id)
  /\ req' = [req EXCEPT ![r].pc = "claimed", ![r].window = windows[req[r].id]]
  /\ UNCHANGED <<tables, windows, faults>>

\* The INSERT of ClaimIdempotency waits for another one of the same key.
InsertRecord(r) ==
  /\ req[r].pc = "inserting" /\ ~Locked(req[r].id)
  /\ \/ records[req[r].id] = None
        /\ req' = [req EXCEPT ![r].pc = "claimed", ![r].window = windows[req[r].id]]
     \/ records[req[r].id] # None /\ Refuse(r, "failed")
  /\ UNCHANGED <<tables, windows, faults>>

-----------------------------------------------------------------------------
(* The three transactions: what their commits publish *)

\* Mutation of ClaimedRecord: the provisional record names no bank.
ClaimedRecordUnnamed(r, b) ==
  [body |-> req[r].body, state |-> "processing", bank |-> NoBank, lapsed |-> FALSE]

ClaimedRecord(r, b) ==
  [body |-> req[r].body, state |-> IF Provisions(req[r].id) THEN "provisional" ELSE "processing",
   bank |-> IF Provisions(req[r].id) THEN b ELSE NoBank, lapsed |-> FALSE]

\* Mutation of PlacementBefore: a new route is routable at once.
ActiveBefore(r) == IF req[r].body = "inactive" THEN "paused" ELSE "active"

\* The placement set by the first transaction: that of a new route, or the one
\* a patch of the status asks for.
PlacementBefore(r) ==
  IF Provisions(req[r].id) THEN "provisioning"
  ELSE IF req[r].body = "active" THEN "active" ELSE "paused"

\* CreateBankRoute or SetBankRouteStatusForEntity, with the claim.  A patch
\* asks for a route of any status (ActiveOrProvisioning), not for the entity.
FirstCommit(r, b) ==
  LET id == req[r].id IN
  /\ req[r].pc = "claimed"
  /\ IF Provisions(id) /\ ~req[r].found THEN route[b] = "none" /\ entity[b] = None
                                        ELSE b = req[r].bank /\ route[b] # "none"
  /\ route' = IF IF Provisions(id) THEN req[r].found ELSE req[r].body = "rename"
                THEN route ELSE [route EXCEPT ![b] = PlacementBefore(r)]
  /\ records' = IF req[r].found THEN records ELSE [records EXCEPT ![id] = ClaimedRecord(r, b)]
  /\ applied' = IF Provisions(id) /\ ~req[r].found THEN [applied EXCEPT ![id] = @ + 1] ELSE applied
  /\ UNCHANGED entity

\* bank_reference is UNIQUE.
ReferenceTaken(r) ==
  \E b \in Banks \ {req[r].bank} : entity[b] # None /\ entity[b].reference = req[r].body

\* ProvisionEntity, an upsert that leaves an existing status alone, or
\* UpdateEntity, which fails where there is no row.
ShardCommit(r) ==
  LET b == req[r].bank  id == req[r].id IN
  /\ req[r].pc = "shard"
  /\ IF Provisions(id) THEN ~ReferenceTaken(r) ELSE entity[b] # None
  /\ entity' = [entity EXCEPT ![b] =
        IF Provisions(id)
          THEN IF entity[b] = None THEN [reference |-> req[r].body, status |-> "active"] ELSE entity[b]
          ELSE IF req[r].body = "rename" THEN entity[b] ELSE [entity[b] EXCEPT !.status = req[r].body]]
  /\ applied' = IF Provisions(id) THEN applied ELSE [applied EXCEPT ![id] = @ + 1]
  /\ UNCHANGED <<route, records>>

\* SetBankRouteStatus, for a new bank, and FinishIdempotency.
LastCommit(r) ==
  LET b == req[r].bank  id == req[r].id IN
  /\ req[r].pc = "finish" /\ ~Locked(id)
  /\ route' = IF Provisions(id) THEN [route EXCEPT ![b] = "active"] ELSE route
  /\ records' = [records EXCEPT ![id].state = "done", ![id].bank = b]
  /\ UNCHANGED <<entity, applied>>

-----------------------------------------------------------------------------
(* The handler *)

CommitFirst(r, b) ==
  /\ FirstCommit(r, b)
  /\ req' = [req EXCEPT ![r].pc = "shard", ![r].bank = b]
  /\ UNCHANGED <<windows, faults>>

CommitShard(r) ==
  /\ ShardCommit(r)
  /\ Goto(r, "finish")
  /\ UNCHANGED <<windows, faults>>

\* The bank of a patch has no route, or its route could not be read; the
\* claim is rolled back.
PatchRefused(r) ==
  /\ req[r].pc = "claimed" /\ ~Provisions(req[r].id)
  /\ \/ route[req[r].bank] = "none" /\ UNCHANGED faults
     \/ Fault
  /\ Refuse(r, "notfound")
  /\ UNCHANGED <<tables, windows>>

\* ProvisionEntity or UpdateEntity returns an error; the first commit stays.
ShardRefuses(r) ==
  /\ req[r].pc = "shard"
  /\ IF Provisions(req[r].id) THEN ReferenceTaken(r) ELSE entity[req[r].bank] = None
  /\ Refuse(r, "failed")
  /\ UNCHANGED <<tables, windows, faults>>

CommitLast(r) ==
  /\ LastCommit(r)
  /\ Answer(r, IF Provisions(req[r].id) THEN "created" ELSE "patched")
  /\ UNCHANGED <<windows, faults>>

\* An error before a commit, or the end of the process.
StepFails(r) ==
  /\ req[r].pc \in {"claimed", "shard", "finish"}
  /\ Fault
  /\ Refuse(r, "failed")
  /\ UNCHANGED <<tables, windows>>

\* A commit that took effect and is taken for a failure.
CommitUnacknowledged(r) ==
  /\ \/ \E b \in Banks : FirstCommit(r, b)
     \/ ShardCommit(r)
     \/ LastCommit(r)
  /\ Fault
  /\ Refuse(r, "failed")
  /\ UNCHANGED windows

Step(r) ==
  \/ ClaimIdempotency(r) \/ InsertRecord(r)
  \/ \E b \in Banks : CommitFirst(r, b)
  \/ PatchRefused(r) \/ CommitShard(r) \/ ShardRefuses(r) \/ CommitLast(r)

Next ==
  \/ \E id \in Ids : WindowCloses(id)
  \/ \E r \in Requests :
       \/ \E id \in Ids, body \in References \cup Patches : Receive(r, id, body)
       \/ Retry(r) \/ Step(r) \/ StepFails(r) \/ CommitUnacknowledged(r)

Spec == Init /\ [][Next]_vars

\* Handlers run to their end, also past the lock of a record that others keep
\* taking (PostgreSQL queues those who wait for a row); a client that was told
\* of a failure retries.
FairSpec == Spec /\ \A r \in Requests : SF_vars(Step(r)) /\ WF_vars(Retry(r))

-----------------------------------------------------------------------------
(* Properties *)

\* The client of r asked for another status of bank b.
StatusPatch(r, b) ==
  req[r].pc # "idle" /\ ~Provisions(req[r].id) /\ req[r].id[1] = b /\ req[r].body # "rename"

\* The saga opens no route before the entity is on the shard, wherever it
\* stopped and however it was resumed or replayed: a bank routed without one
\* is in the status that a patch sent to it meanwhile asked for.  And no
\* request is told of success, at once or by a replay, for a bank without one.
RoutableHasEntity ==
  /\ \A b \in Banks : route[b] \in {"active", "paused"} /\ entity[b] = None =>
       \E r \in Requests : StatusPatch(r, b) /\ route[b] = PlacementBefore(r)
  /\ \A r \in Requests : req[r].answer \in {"created", "patched", "replayed"} =>
       req[r].bank \in Banks /\ entity[req[r].bank] # None

\* A bank is routable only once its entity is there, whatever its patches.
\* (A patch of the status of a bank still without one opens or pauses its
\* route, and then fails on the shard.)
EntityBeforeRoute ==
  \A b \in Banks : route[b] \in {"active", "paused"} => entity[b] # None

\* One key provisions one bank within its replay window, though the claim is
\* committed before the bank exists: concurrent and repeated requests resume
\* the same bank, and all that succeed are answered with it.
OneBankPerKey ==
  /\ \A id \in Ids : Provisions(id) => applied[id] <= 1
  /\ \A r, q \in Requests :
       (/\ req[r].answer \in {"created", "replayed"} /\ req[q].answer \in {"created", "replayed"}
        /\ req[r].id = req[q].id /\ Provisions(req[r].id) /\ req[r].window = req[q].window)
       => req[r].bank = req[q].bank /\ req[r].body = req[q].body

\* A patch under one key is applied once.  (A request that finds the record of
\* one still running, or of one that was interrupted, applies it again.)
PatchAppliedOnce == \A id \in Ids : ~Provisions(id) => applied[id] <= 1

\* A provisioning interrupted anywhere is completed by repeating it: every
\* request is answered in the end with the bank, which is past provisioning (a
\* patch may have paused it), unless its key was used for another body or its
\* reference belongs to another bank.
ProvisioningCompletes ==
  \A r \in Requests :
    (req[r].pc = "claiming" /\ Provisions(req[r].id))
    ~> \/ req[r].answer = "conflict"
       \/ req[r].pc = "shard" /\ ReferenceTaken(r)
       \/ req[r].answer \in {"created", "replayed"} /\ route[req[r].bank] \in {"active", "paused"}
=============================================================================
