---------------------------- MODULE CardCommands ----------------------------
(***************************************************************************)
(* The synchronous card workflows of internal/card/service.go: issue,      *)
(* activate, suspend, resume, close and replace.  Each is one transaction  *)
(* of the bank's shard (READ COMMITTED) that claims an idempotency key,    *)
(* locks the card, writes card, operation, history, audit and the          *)
(* idempotency result, and commits.  Issue and replace also provision a    *)
(* credential in the vault, a remote call inside that transaction, and     *)
(* revoke it when the workflow does not see its commit succeed.            *)
(*                                                                         *)
(* Requests run concurrently, on one or several API processes.  A request  *)
(* is the state of one handler; what it writes becomes visible when it     *)
(* commits, the locks it takes are held until its transaction ends.        *)
(* The scope of an idempotency record names action, card and actor; actors *)
(* are folded into Keys.  The references of a new card are an input.       *)
(***************************************************************************)
EXTENDS CardLifecycle, Naturals, Sequences, FiniteSets

CONSTANTS
  Cards,         \* card identifiers; a fresh UUID is one never used before
  NoCard,
  Standing,      \* status of the cards that exist at first
  Succeeds,      \* which of them replace which
  Requests,      \* handlers: one HTTP request each
  Keys,          \* (actor, Idempotency-Key) pairs
  Bodies,        \* request bodies, told apart by their fingerprints
  Asked,         \* actions asked for in this instance
  None,
  MaxFaults,     \* bound: errors, lost answers and crashes
  MaxWindows     \* bound: times the replay window of a key runs out

Commands == CardActions \ {"expire"}
Creations == {"issue", "replace"}

ASSUME CardCommandsAssumption ==
  /\ NoCard \notin Cards
  /\ DOMAIN Standing \subseteq Cards
  /\ \A c \in DOMAIN Standing : Standing[c] \in CardStates
  /\ DOMAIN Succeeds \subseteq DOMAIN Standing
  /\ \A c \in DOMAIN Succeeds : /\ Succeeds[c] \in DOMAIN Standing \ {c}
                               /\ Standing[Succeeds[c]] \in CardStates \ {"pending", "issued"}
                               /\ Standing[c] = "issued"
                               /\ \A d \in DOMAIN Succeeds : Succeeds[c] = Succeeds[d] => c = d
  /\ Asked \subseteq Commands \cup Creations
  /\ MaxFaults \in Nat /\ MaxWindows \in Nat

VARIABLES
  card,         \* bank.cards.status, or "absent"
  predecessor,  \* bank.cards.predecessor_card_id
  trail,        \* bank.card_status_history: <<previous, new>> per card
  records,      \* bank.idempotency_records, committed
  vault,        \* what the vault holds for a card UUID
  req,          \* the handlers
  applied,      \* ghost: commits of a command in the current replay window
  window,       \* ghost: replay windows of a key that have run out
  faults

dbVars == <<card, predecessor, trail, records, applied>>
vars == <<dbVars, vault, req, window, faults>>

-----------------------------------------------------------------------------

\* What scope and key of an idempotency record tell apart.
Ids == ((Asked \cap {"issue"}) \X {NoCard} \X Keys) \cup ((Asked \ {"issue"}) \X Cards \X Keys)
Action(id) == id[1]
Subject(id) == id[2]

Record == [body : Bodies, result : Cards, lapsed : BOOLEAN]

\* None stands for a record that is not there.
ASSUME AbsentAssumption == None \notin Record

Success == {"created", "done", "replayed"}
Answers == Success \cup {"none", "conflict", "rejected", "failed", "lost"}

\* new is the card to create, status what LockCard read, old what was read of
\* the predecessor; open says whether the transaction holds its locks.
Handler ==
  [pc : {"idle", "claiming", "claimed", "locked", "provisioning", "applying", "applied",
         "revoking", "answered"},
   id : Ids \cup {None}, body : Bodies \cup {None}, new : Cards \cup {NoCard},
   status : CardStates \cup {"absent"}, old : CardStates \cup {"absent"},
   open : BOOLEAN, locks : SUBSET Cards, provisioned : BOOLEAN, leaked : BOOLEAN,
   window : Nat, answer : Answers, result : Cards \cup {NoCard}]

Waiting == [pc |-> "idle", id |-> None, body |-> None, new |-> NoCard,
            status |-> "absent", old |-> "absent", open |-> FALSE, locks |-> {},
            provisioned |-> FALSE, leaked |-> FALSE, window |-> 0,
            answer |-> "none", result |-> NoCard]

TypeOK ==
  /\ card \in [Cards -> CardStates \cup {"absent"}]
  /\ predecessor \in [Cards -> Cards \cup {NoCard}]
  /\ trail \in [Cards -> Seq(CardStates \X CardStates)]
  /\ records \in [Ids -> Record \cup {None}]
  /\ vault \in [Cards -> {"none", "live", "revoked"}]
  /\ req \in [Requests -> Handler]
  /\ applied \in [Ids -> Nat]
  /\ window \in [Ids -> 0..MaxWindows]
  /\ faults \in 0..MaxFaults

Init ==
  /\ card = [c \in Cards |-> IF c \in DOMAIN Standing THEN Standing[c] ELSE "absent"]
  /\ predecessor = [c \in Cards |-> IF c \in DOMAIN Succeeds THEN Succeeds[c] ELSE NoCard]
  /\ trail = [c \in Cards |-> <<>>]
  /\ records = [id \in Ids |-> None]
  /\ vault = [c \in Cards |-> IF c \in DOMAIN Standing THEN "live" ELSE "none"]
  /\ req = [r \in Requests |-> Waiting]
  /\ applied = [id \in Ids |-> 0]
  /\ window = [id \in Ids |-> 0]
  /\ faults = 0

-----------------------------------------------------------------------------
(* Locks *)

\* Mutation of KeyLocked: a claim does not wait for the other transaction.
KeyNeverLocked(id) == FALSE

\* The record inserted, updated or locked by an open transaction.
KeyLocked(id) ==
  \E r \in Requests : req[r].open /\ req[r].id = id

\* Mutation of CardLocked: the row is read without FOR UPDATE.
CardNeverLocked(c) == FALSE

CardLocked(c) == \E r \in Requests : req[r].open /\ c \in req[r].locks

Fault == faults < MaxFaults /\ faults' = faults + 1

\* Mutation of Answer: the transaction is not rolled back on return.
AnswerWithoutRollback(r, a, c) ==
  req' = [req EXCEPT ![r].pc = "answered", ![r].answer = a, ![r].result = c]

\* The handler returns; the deferred Rollback ends what is still open.
Answer(r, a, c) ==
  req' = [req EXCEPT ![r].pc = "answered", ![r].answer = a, ![r].result = c,
                     ![r].open = FALSE, ![r].locks = {}]

\* Mutation of Fails: only an error of the commit is compensated.
FailsCompensatingCommits(r) ==
  IF req[r].provisioned /\ req[r].pc = "applied"
    THEN req' = [req EXCEPT ![r].pc = "revoking"]
    ELSE Answer(r, "failed", NoCard)

\* An error return.  The deferred functions run last in, first out: Revoke,
\* once Provision has returned a credential, and then Rollback.
Fails(r) ==
  IF req[r].provisioned
    THEN req' = [req EXCEPT ![r].pc = "revoking"]
    ELSE Answer(r, "failed", NoCard)

-----------------------------------------------------------------------------
(* The replay window of a key *)

\* A record whose replay window is still open.
Replayable(id) == records[id] # None /\ ~records[id].lapsed

\* replayLifetime has passed since the record was claimed.
WindowCloses(id) ==
  /\ Replayable(id)
  /\ window[id] < MaxWindows
  /\ records' = [records EXCEPT ![id].lapsed = TRUE]
  /\ window' = [window EXCEPT ![id] = @ + 1]
  /\ applied' = [applied EXCEPT ![id] = 0]
  /\ UNCHANGED <<card, predecessor, trail, vault, req, faults>>

-----------------------------------------------------------------------------
(* The handler *)

Receive(r, id, body) ==
  /\ req[r].pc = "idle"
  /\ req' = [req EXCEPT ![r].pc = "claiming", ![r].id = id, ![r].body = body]
  /\ UNCHANGED <<dbVars, vault, window, faults>>

\* ClaimIdempotency: SELECT FOR UPDATE, or INSERT ON CONFLICT DO NOTHING,
\* which waits for a transaction that inserted the key and then reads again.
\* A lapsed record is claimed anew; the claim commits with the command.
ClaimIdempotency(r) ==
  LET id == req[r].id  found == records[id] IN
  /\ req[r].pc = "claiming"
  /\ ~KeyLocked(id)
  /\ \/ /\ Replayable(id) /\ found.body # req[r].body
        /\ Answer(r, "conflict", NoCard)
     \/ /\ Replayable(id) /\ found.body = req[r].body
        /\ req' = [req EXCEPT ![r].pc = "answered", ![r].window = window[id],
                              ![r].answer = "replayed", ![r].result = found.result]
     \/ /\ ~Replayable(id)
        /\ req' = [req EXCEPT ![r].pc = "claimed", ![r].open = TRUE, ![r].window = window[id]]
  /\ UNCHANGED <<dbVars, vault, window, faults>>

\* A UUID nobody has used, to be provisioned next.
Fresh(c) == card[c] = "absent" /\ vault[c] = "none" /\ \A q \in Requests : req[q].new # c

\* IssueReferencesValid and the new identifiers.
IssueReferencesValid(r) ==
  /\ req[r].pc = "claimed" /\ Action(req[r].id) = "issue"
  /\ \/ Answer(r, "rejected", NoCard)
     \/ \E c \in Cards : /\ Fresh(c)
                         /\ req' = [req EXCEPT ![r].pc = "provisioning", ![r].new = c]
  /\ UNCHANGED <<dbVars, vault, window, faults>>

LockCard(r) ==
  LET c == Subject(req[r].id) IN
  /\ req[r].pc = "claimed" /\ Action(req[r].id) # "issue"
  /\ \/ card[c] = "absent" /\ Answer(r, "rejected", NoCard)
     \/ /\ card[c] # "absent" /\ ~CardLocked(c)
        /\ req' = [req EXCEPT ![r].pc = "locked", ![r].locks = {c}, ![r].status = card[c]]
  /\ UNCHANGED <<dbVars, vault, window, faults>>

\* Mutation of ReplacementPending: looks for a successor already in use.
ReplacementInUse(c) == \E s \in Cards : predecessor[s] = c /\ card[s] = "active"

ReplacementPending(c) == \E s \in Cards : predecessor[s] = c /\ card[s] = "issued"

\* Transition decides a command; replace has its own conditions.
Judge(r) ==
  LET action == Action(req[r].id)  c == Subject(req[r].id)  status == req[r].status IN
  /\ req[r].pc = "locked"
  /\ \/ /\ action \in Commands /\ Transition(status, action).valid
        /\ req' = [req EXCEPT ![r].pc = "applying"]
     \/ /\ action \in Commands /\ ~Transition(status, action).valid
        /\ Answer(r, "rejected", NoCard)
     \/ /\ action = "replace"
        /\ status \notin {"active", "suspended"} \/ ReplacementPending(c)
        /\ Answer(r, "rejected", NoCard)
     \/ /\ action = "replace"
        /\ status \in {"active", "suspended"} /\ ~ReplacementPending(c)
        /\ \E s \in Cards : /\ Fresh(s)
                            /\ req' = [req EXCEPT ![r].pc = "provisioning", ![r].new = s]
  /\ UNCHANGED <<dbVars, vault, window, faults>>

\* The vault's Provision under the new card's UUID.
Provision(r) ==
  /\ req[r].pc = "provisioning"
  /\ vault' = [vault EXCEPT ![req[r].new] = "live"]
  /\ req' = [req EXCEPT ![r].pc = "applying", ![r].provisioned = TRUE]
  /\ UNCHANGED <<dbVars, window, faults>>

\* The call fails, before or after it took effect: nothing is revoked.
ProvisionFails(r) ==
  /\ req[r].pc = "provisioning"
  /\ Fault
  /\ \E effect \in BOOLEAN :
       /\ vault' = IF effect THEN [vault EXCEPT ![req[r].new] = "live"] ELSE vault
       /\ req' = [req EXCEPT ![r].pc = "answered", ![r].answer = "failed", ![r].open = FALSE,
                             ![r].locks = {}, ![r].leaked = effect]
  /\ UNCHANGED <<dbVars, window>>

Activates(r) == Action(req[r].id) = "activate" /\ req[r].status # "active"

\* Mutation of RetiresOld: only a predecessor in use is closed, not one that is
\* suspended.
RetiresActiveOnly(r) == Activates(r) /\ req[r].old = "active"

\* closePredecessorOnActivation closes the predecessor it has locked.
RetiresOld(r) == Activates(r) /\ req[r].old \in {"active", "suspended"}

\* IssueCard, ReplaceCard or ApplyCardCommand, and FinishIdempotency.  An
\* activation locks the predecessor after the card.
Apply(r) ==
  LET p == IF Activates(r) THEN predecessor[Subject(req[r].id)] ELSE NoCard IN
  /\ req[r].pc = "applying"
  /\ IF p = NoCard
       THEN req' = [req EXCEPT ![r].pc = "applied"]
       ELSE /\ ~CardLocked(p)
            /\ req' = [req EXCEPT ![r].pc = "applied", ![r].locks = @ \cup {p},
                                  ![r].old = card[p]]
  /\ UNCHANGED <<dbVars, vault, window, faults>>

\* The card a successful command answers with and FinishIdempotency records.
ResultOf(r) ==
  IF Action(req[r].id) \in Creations THEN req[r].new ELSE Subject(req[r].id)

\* What the commit publishes.
CommitEffects(r) ==
  LET id == req[r].id  action == Action(id)  c == Subject(id)  p == predecessor[c]
      target == TargetOf[action]
      moves == action \in Commands /\ req[r].status # target
  IN
  /\ card' = [x \in Cards |-> IF action \in Creations /\ x = req[r].new THEN "issued"
                              ELSE IF moves /\ x = c THEN target
                              ELSE IF moves /\ RetiresOld(r) /\ x = p THEN "closed"
                              ELSE card[x]]
  /\ trail' = [x \in Cards |->
        IF action \in Creations /\ x = req[r].new THEN Append(trail[x], <<"pending", "issued">>)
        ELSE IF moves /\ x = c THEN Append(trail[x], <<req[r].status, target>>)
        ELSE IF moves /\ RetiresOld(r) /\ x = p THEN Append(trail[x], <<req[r].old, "closed">>)
        ELSE trail[x]]
  /\ predecessor' = IF action = "replace" THEN [predecessor EXCEPT ![req[r].new] = c]
                                          ELSE predecessor
  /\ records' = [records EXCEPT ![id] =
                   [body |-> req[r].body, result |-> ResultOf(r), lapsed |-> FALSE]]
  /\ applied' = [applied EXCEPT ![id] = @ + 1]

Commit(r) ==
  LET id == req[r].id IN
  /\ req[r].pc = "applied"
  /\ CommitEffects(r)
  /\ Answer(r, IF Action(id) \in Creations THEN "created" ELSE "done", ResultOf(r))
  /\ UNCHANGED <<vault, window, faults>>

\* The commit took effect and its acknowledgement is lost: the transaction is
\* over, the workflow takes the error for a failure.
CommitUnacknowledged(r) ==
  /\ req[r].pc = "applied"
  /\ Fault
  /\ CommitEffects(r)
  /\ IF req[r].provisioned
       THEN req' = [req EXCEPT ![r].pc = "revoking", ![r].open = FALSE, ![r].locks = {}]
       ELSE Answer(r, "failed", NoCard)
  /\ UNCHANGED <<vault, window>>

\* A statement or the commit fails, or the client goes away.
TransactionFails(r) ==
  /\ req[r].pc \in {"claimed", "locked", "applying", "applied"}
  /\ Fault
  /\ Fails(r)
  /\ UNCHANGED <<dbVars, vault, window>>

Revoke(r) ==
  /\ req[r].pc = "revoking"
  /\ vault' = [vault EXCEPT ![req[r].new] = "revoked"]
  /\ Answer(r, "failed", NoCard)
  /\ UNCHANGED <<dbVars, window, faults>>

\* The error of Revoke is dropped.
RevokeFails(r) ==
  /\ req[r].pc = "revoking"
  /\ Fault
  /\ req' = [req EXCEPT ![r].pc = "answered", ![r].answer = "failed", ![r].open = FALSE,
                        ![r].locks = {}, ![r].leaked = TRUE]
  /\ UNCHANGED <<dbVars, vault, window>>

\* The process of the handler dies: no deferred function runs, the server
\* rolls the transaction back.
Crash(r) ==
  /\ req[r].pc \notin {"idle", "claiming", "answered"}
  /\ Fault
  /\ Answer(r, "lost", NoCard)
  /\ UNCHANGED <<dbVars, vault, window>>

\* The executor expires a card (ApplyExpiryItem locks it in its own turn).
ExpireCard(c) ==
  /\ card[c] \in SourcesOf["expire"] /\ ~CardLocked(c)
  /\ card' = [card EXCEPT ![c] = "expired"]
  /\ trail' = [trail EXCEPT ![c] = Append(@, <<card[c], "expired">>)]
  /\ UNCHANGED <<predecessor, records, vault, req, applied, window, faults>>

Step(r) ==
  \/ ClaimIdempotency(r) \/ IssueReferencesValid(r) \/ LockCard(r) \/ Judge(r)
  \/ Provision(r) \/ Apply(r) \/ Commit(r) \/ Revoke(r)

Failure(r) ==
  \/ ProvisionFails(r) \/ CommitUnacknowledged(r) \/ TransactionFails(r)
  \/ RevokeFails(r) \/ Crash(r)

Next ==
  \/ \E r \in Requests, id \in Ids, body \in Bodies : Receive(r, id, body)
  \/ \E r \in Requests : Step(r) \/ Failure(r)
  \/ \E id \in Ids : WindowCloses(id)
  \/ \E c \in Cards : ExpireCard(c)

Spec == Init /\ [][Next]_vars

-----------------------------------------------------------------------------
(* Properties *)

\* However often a command is sent under one key, concurrently, after an
\* error or after a lost acknowledgement, it takes effect at most once within
\* the key's replay window; all successful answers of that window are for the
\* same request body and name the same card, so a replay never reports another
\* request's result and a new body under an old key is refused.
CommandTakesEffectOnce ==
  /\ \A id \in Ids : applied[id] <= 1
  /\ \A r, q \in Requests :
       (/\ req[r].answer \in Success /\ req[q].answer \in Success
        /\ req[r].id = req[q].id /\ req[r].window = req[q].window)
       => req[r].body = req[q].body /\ req[r].result = req[q].result

\* One card takes another's place, whoever replaces, activates, suspends,
\* resumes or expires either of them concurrently: a card never has two issued
\* successors, and once a successor is in use the card it replaces is closed
\* or expired, in the same commit.
OneCardInPlace ==
  /\ \A s, t \in Cards :
       (/\ predecessor[s] # NoCard /\ predecessor[s] = predecessor[t]
        /\ card[s] = "issued" /\ card[t] = "issued") => s = t
  /\ \A s \in Cards :
       (predecessor[s] # NoCard /\ card[s] \in {"active", "suspended"})
       => card[predecessor[s]] \in {"closed", "expired"}

\* Credentials are accounted for.  One disclosed to a client belongs to a card
\* that exists and is not revoked: compensation never follows an acknowledged
\* commit.  A live one without a card belongs to a request still running, to
\* one whose process died, or to one whose call of the vault itself failed:
\* every other failure after provisioning revokes it.
CredentialsAccounted ==
  /\ \A r \in Requests :
       req[r].answer = "created" => vault[req[r].result] = "live" /\ card[req[r].result] # "absent"
  /\ \A c \in Cards :
       (vault[c] = "live" /\ card[c] = "absent")
       => \E r \in Requests : /\ req[r].new = c
                              /\ \/ req[r].pc # "answered"
                                 \/ req[r].answer = "lost" \/ req[r].leaked

\* The history of a card is the chain of its statuses: each entry starts where
\* the one before it ended, the last one ends in the card's status.
TrailConnected ==
  \A c \in Cards :
    /\ \A i \in 1..(Len(trail[c]) - 1) : trail[c][i][2] = trail[c][i + 1][1]
    /\ trail[c] # <<>> => trail[c][Len(trail[c])][2] = card[c]

\* The credential of a card that was committed stays usable.  (The workflow
\* revokes it when the acknowledgement of the commit is lost.)
CommittedCardsKeepCredentials ==
  \A c \in Cards : card[c] # "absent" => vault[c] = "live"

\* No call of the vault is made while a card is locked.  (replace provisions
\* the successor's credential with its predecessor locked.)
NoRemoteCallUnderLock ==
  \A r \in Requests : req[r].pc \in {"provisioning", "revoking"} => req[r].locks = {}

UnderWay(r) == req[r].pc \notin {"idle", "answered"}

\* The transaction of q holds the record or the row that r waits for.
WaitsFor(r, q) ==
  /\ req[q].open
  /\ \/ req[r].pc = "claiming" /\ req[q].id = req[r].id
     \/ /\ req[r].pc = "claimed" /\ Action(req[r].id) # "issue"
        /\ Subject(req[r].id) \in req[q].locks
     \/ /\ req[r].pc = "applying" /\ Activates(r)
        /\ predecessor[Subject(req[r].id)] \in req[q].locks

\* Waits end.  A request waits only for one that is still under way, because
\* every return releases the locks; and however many requests there are, no
\* four of them wait in a row, since locks are taken in the order key, card,
\* predecessor, and a card that was replaced is not itself being activated.
\* A circle of waits would go on for ever.
WaitsEnd ==
  /\ \A r, q \in Requests : WaitsFor(r, q) => UnderWay(q)
  /\ \A r1, r2 \in Requests : WaitsFor(r1, r2) =>
       \A r3 \in Requests : WaitsFor(r2, r3) =>
         \A r4 \in Requests : WaitsFor(r3, r4) =>
           \A r5 \in Requests : ~WaitsFor(r4, r5)

\* Nobody waits for ever: waits end, and a request that is under way and waits
\* for nobody can take a step without a failure.
SomeoneCanProceed ==
  /\ WaitsEnd
  /\ \A r \in Requests :
       (/\ UnderWay(r) /\ \A q \in Requests : ~WaitsFor(r, q)
        /\ \E c \in Cards : Fresh(c))     \* the instance has a UUID left
       => ENABLED Step(r)

\* What keys stand for within their replay windows, and what requests were
\* told, as the callers see it.
Outcomes ==
  {[id |-> id, body |-> records[id].body, result |-> records[id].result] :
     id \in {i \in Ids : Replayable(i)}}
Reports ==
  {[to |-> r, of |-> [id |-> req[r].id, body |-> req[r].body, result |-> req[r].result]] :
     r \in {q \in Requests : req[q].answer \in Success}}

Promise == INSTANCE AtomicCommand WITH outcomes <- Outcomes, reports <- Reports

\* Transactions, locks, remote calls, crashes and retries are invisible to the
\* callers: a command takes effect in one step, judged on the cards as they are
\* when it commits although it read them long before, once per key, and every
\* success that is reported is that of the command that took effect.
ImplementsAtomicCommand == Promise!Spec
=============================================================================
