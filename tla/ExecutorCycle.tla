--------------------------- MODULE ExecutorCycle ---------------------------
(***************************************************************************)
(* The polling loop of the executor, internal/executor/service.go: each    *)
(* cycle lists the active banks, starts at a rotating one, and for each    *)
(* bank in turn reserves a slot, claims a batch or gives the slot back,    *)
(* then does the same for an expiry item.  Claimed work runs in goroutines *)
(* that release their slot when they end.  inFlight and byBank are guarded *)
(* by a mutex; reserving and claiming are separate steps, so goroutines    *)
(* end in between.                                                         *)
(*                                                                         *)
(* SIGTERM cancels the context of the loop, at any point of it.  A call of *)
(* the database begun after that fails; the one under way may fail, may    *)
(* succeed, and may commit and still report the cancellation.  Run then    *)
(* waits for the goroutines, whose context is not cancelled, or for the    *)
(* drain timeout, returns, and main (cmd/executor/main.go) closes the      *)
(* pools, which waits for the connections the goroutines hold.             *)
(*                                                                         *)
(* Of the work itself only its amount is kept; the database's side of      *)
(* claims, leases and results is modelled in CardStatusBatch and           *)
(* ExpiryRun.                                                              *)
(***************************************************************************)
EXTENDS Naturals, Sequences, FiniteSets

CONSTANTS
  Banks,
  SortedBanks,   \* all banks, in the order of sort.Strings
  MaxClaims,     \* EXECUTOR_MAX_CLAIMS
  PerBank,       \* EXECUTOR_PER_BANK_CONCURRENCY
  Kinds,         \* kinds of work that occur: "batch", "item"
  MaxBacklog,    \* bound: work of one kind waiting at a bank
  MaxChanges,    \* bound: changes of the active routes
  MaxFaults,     \* bound: cycles that end in an error, and kills
  MaxStops       \* bound: SIGTERMs

ASSUME ExecutorCycleAssumption ==
  /\ MaxClaims \in Nat \ {0} /\ PerBank \in Nat \ {0}     \* config.go: positive
  /\ Kinds \subseteq {"batch", "item"}
  /\ MaxBacklog \in Nat /\ MaxChanges \in Nat /\ MaxFaults \in Nat /\ MaxStops \in Nat
  /\ IsFiniteSet(Banks)
  /\ SortedBanks \in Seq(Banks) /\ Len(SortedBanks) = Cardinality(Banks)
  /\ {SortedBanks[i] : i \in DOMAIN SortedBanks} = Banks

VARIABLES
  routed,     \* banks with an active route to this shard
  backlog,    \* work that can be claimed
  running,    \* goroutines
  inFlight, byBank, rotation,   \* fields of Service
  todo,       \* banks the cycle has still to visit
  phase,      \* where the loop is
  mode,       \* how far the shutdown of the process is
  inCall,     \* the claim under way had begun when the context was cancelled
  claimed,    \* ghost: what the current cycle has claimed, unless cancelled
  late,       \* ghost: claims committed since the context was cancelled
  changes, faults, stops

counters == <<inFlight, byBank>>
loop == <<rotation, todo, phase>>
shutdown == <<mode, inCall, late, stops>>
vars == <<routed, backlog, running, counters, loop, shutdown, claimed, changes, faults>>

\* "cancelled": Run has not seen it yet; "draining": it waits for goroutines;
\* "closing": Run has returned.
Modes == {"running", "cancelled", "draining", "closing", "exited"}

Phases == {"waiting", "reserve batch", "claim batch", "reserve item", "claim item"}
KindOf(p) == IF p \in {"reserve batch", "claim batch"} THEN "batch" ELSE "item"
AllKinds == {"batch", "item"}

TypeOK ==
  /\ routed \subseteq Banks
  /\ backlog \in [Banks -> [AllKinds -> 0..MaxBacklog]]
  /\ running \in [Banks -> [AllKinds -> Nat]]
  /\ inFlight \in 0..MaxClaims
  /\ byBank \in [Banks -> 0..PerBank]
  /\ rotation \in Nat
  /\ todo \in Seq(Banks)
  /\ phase \in Phases /\ (todo = <<>> => phase = "waiting")
  /\ claimed \subseteq Banks \X AllKinds
  /\ mode \in Modes /\ inCall \in BOOLEAN /\ late \in Nat
  /\ changes \in 0..MaxChanges /\ faults \in 0..MaxFaults /\ stops \in 0..MaxStops

NoWork == [b \in Banks |-> [k \in AllKinds |-> 0]]
NoSlots == [b \in Banks |-> 0]

Init ==
  /\ routed = Banks /\ backlog = NoWork /\ running = NoWork
  /\ inFlight = 0 /\ byBank = NoSlots /\ rotation = 0
  /\ todo = <<>> /\ phase = "waiting" /\ claimed = {}
  /\ mode = "running" /\ inCall = FALSE /\ late = 0
  /\ changes = 0 /\ faults = 0 /\ stops = 0

-----------------------------------------------------------------------------

\* reserve returns false at either limit.
Reservable(b) == inFlight < MaxClaims /\ byBank[b] < PerBank

Reserve(b) == inFlight' = inFlight + 1 /\ byBank' = [byBank EXCEPT ![b] = @ + 1]
Release(b) == inFlight' = inFlight - 1 /\ byBank' = [byBank EXCEPT ![b] = @ - 1]

Before(b, c) == \E i, j \in 1..Len(SortedBanks) : i < j /\ SortedBanks[i] = b /\ SortedBanks[j] = c

\* activeBanks: the routed banks in their order, as the one sequence of this set.
ActiveBanks == {s \in [1..Cardinality(routed) -> routed] : \A i, j \in DOMAIN s : i < j => Before(s[i], s[j])}

\* rotate: where the cycle begins, counted from one.
Start(n) == IF n < 2 THEN 1 ELSE (rotation % n) + 1

\* Mutation of Rotated: the field of Service is never written.
RotatedNowhere(n) == rotation

\* rotate: what it leaves for the next cycle.
Rotated(n) == IF n < 2 THEN rotation ELSE (rotation + 1) % n

\* continue: the next bank, or the end of the cycle.
NextBank ==
  /\ todo' = Tail(todo)
  /\ phase' = IF Tail(todo) = <<>> THEN "waiting" ELSE "reserve batch"

-----------------------------------------------------------------------------

Submit(b, k) ==
  /\ k \in Kinds /\ backlog[b][k] < MaxBacklog
  /\ backlog' = [backlog EXCEPT ![b][k] = @ + 1]
  /\ UNCHANGED <<routed, running, counters, loop, shutdown, claimed, changes, faults>>

RouteChanges(b) ==
  /\ changes < MaxChanges /\ changes' = changes + 1
  /\ routed' = IF b \in routed THEN routed \ {b} ELSE routed \cup {b}
  /\ UNCHANGED <<backlog, running, counters, loop, shutdown, claimed, faults>>

\* The ticker fires: activeBanks and rotate.  (Once the context is cancelled
\* the first call fails and nothing changes.)
StartCycle ==
  LET n == Cardinality(routed)  s == Start(n) IN
  /\ mode = "running" /\ phase = "waiting"
  /\ \E banks \in ActiveBanks : todo' = SubSeq(banks, s, n) \o SubSeq(banks, 1, s - 1)
  /\ rotation' = Rotated(n)
  /\ phase' = IF n = 0 THEN "waiting" ELSE "reserve batch"
  /\ claimed' = {}
  /\ UNCHANGED <<routed, backlog, running, counters, shutdown, changes, faults>>

ReserveSlot ==
  /\ phase \in {"reserve batch", "reserve item"}
  /\ \/ /\ Reservable(Head(todo))
        /\ Reserve(Head(todo))
        /\ phase' = IF phase = "reserve batch" THEN "claim batch" ELSE "claim item"
        /\ UNCHANGED todo
     \/ ~Reservable(Head(todo)) /\ NextBank /\ UNCHANGED counters
  /\ UNCHANGED <<routed, backlog, running, rotation, shutdown, claimed, changes, faults>>

AfterClaim == IF phase = "claim batch" THEN phase' = "reserve item" /\ UNCHANGED todo ELSE NextBank

\* Mutation of MaySucceed: the claims run detached from the context, as the
\* goroutines do.
MaySucceedDetached == mode \in {"running", "cancelled"}

\* A call of the claim can still succeed.
MaySucceed == mode = "running" \/ inCall

Claiming == phase \in {"claim batch", "claim item"}

\* Mutation of ClaimNothing: the slot is kept.
ClaimNothingKeepingSlot ==
  /\ Claiming /\ MaySucceed
  /\ backlog[Head(todo)][KindOf(phase)] = 0
  /\ AfterClaim /\ inCall' = FALSE
  /\ UNCHANGED <<routed, backlog, running, counters, rotation, mode, late, stops, claimed, changes, faults>>

\* ClaimBatch or ClaimExpiryItem finds nothing: the slot is given back.
ClaimNothing ==
  /\ Claiming /\ MaySucceed
  /\ backlog[Head(todo)][KindOf(phase)] = 0
  /\ Release(Head(todo))
  /\ AfterClaim /\ inCall' = FALSE
  /\ UNCHANGED <<routed, backlog, running, rotation, mode, late, stops, claimed, changes, faults>>

\* The claim commits.
TakesWork ==
  /\ Claiming /\ MaySucceed
  /\ backlog[Head(todo)][KindOf(phase)] > 0
  /\ backlog' = [backlog EXCEPT ![Head(todo)][KindOf(phase)] = @ - 1]
  /\ late' = IF mode = "running" THEN late ELSE late + 1
  /\ inCall' = FALSE

\* The slot goes with the goroutine that runs the claim.
ClaimWork ==
  LET b == Head(todo)  k == KindOf(phase) IN
  /\ TakesWork
  /\ running' = [running EXCEPT ![b][k] = @ + 1]
  /\ claimed' = IF mode = "running" THEN claimed \cup {<<b, k>>} ELSE claimed
  /\ AfterClaim
  /\ UNCHANGED <<routed, counters, rotation, mode, stops, changes, faults>>

\* An error of a claim: the slot is given back and the cycle left.
LeaveCycle ==
  /\ IF Claiming THEN Release(Head(todo)) ELSE UNCHANGED counters
  /\ todo' = <<>> /\ phase' = "waiting" /\ inCall' = FALSE

\* The claim ends with context.Canceled, which Run ignores.
ClaimCancelled ==
  /\ mode = "cancelled" /\ Claiming
  /\ LeaveCycle
  /\ UNCHANGED <<routed, backlog, running, rotation, mode, late, stops, claimed, changes, faults>>

\* The claim committed and the cancellation hid it: nobody runs the work, and
\* it can be claimed again (Submit) once its lease has expired.
ClaimForgotten ==
  /\ mode = "cancelled" /\ TakesWork
  /\ LeaveCycle
  /\ UNCHANGED <<routed, running, rotation, mode, stops, claimed, changes, faults>>

\* runBatch or runExpiry returns; release is deferred.
WorkEnds(b, k) ==
  /\ running[b][k] > 0
  /\ running' = [running EXCEPT ![b][k] = @ - 1]
  /\ Release(b)
  /\ UNCHANGED <<routed, backlog, loop, shutdown, claimed, changes, faults>>

\* SIGTERM; a claim may be under way.
Cancel ==
  /\ mode = "running" /\ stops < MaxStops /\ stops' = stops + 1
  /\ mode' = "cancelled"
  /\ inCall' \in (IF Claiming THEN BOOLEAN ELSE {FALSE})
  /\ claimed' = {}
  /\ UNCHANGED <<routed, backlog, running, counters, loop, late, changes, faults>>

\* The select of Run takes ctx.Done.
BeginDrain ==
  /\ mode = "cancelled" /\ phase = "waiting"
  /\ mode' = "draining"
  /\ UNCHANGED <<routed, backlog, running, counters, loop, inCall, late, stops, claimed, changes, faults>>

\* Mutation of EndDrain: only the goroutines are waited for.
EndDrainWithoutTimeout ==
  /\ mode = "draining" /\ running = NoWork
  /\ mode' = "closing"
  /\ UNCHANGED <<routed, backlog, running, counters, loop, inCall, late, stops, claimed, changes, faults>>

\* The goroutines have ended, or DrainTimeout has passed.
EndDrain ==
  /\ mode = "draining"
  /\ mode' = "closing"
  /\ UNCHANGED <<routed, backlog, running, counters, loop, inCall, late, stops, claimed, changes, faults>>

\* Any other error of the store ends Run, without a drain.
CycleFails ==
  /\ mode \in {"running", "cancelled"}
  /\ phase \in {"waiting", "claim batch", "claim item"}
  /\ faults < MaxFaults /\ faults' = faults + 1
  /\ mode' = "closing"
  /\ LeaveCycle
  /\ UNCHANGED <<routed, backlog, running, rotation, late, stops, claimed, changes>>

\* The process ends, and with it the goroutines that hold no connection; or it
\* is killed.  What the goroutines had claimed comes back when the leases expire.
Exit ==
  /\ \/ mode = "closing" /\ UNCHANGED faults
     \/ mode # "exited" /\ faults < MaxFaults /\ faults' = faults + 1
  /\ mode' = "exited" /\ inCall' = FALSE
  /\ backlog' = [b \in Banks |-> [k \in AllKinds |->
        LET all == backlog[b][k] + running[b][k] IN IF all < MaxBacklog THEN all ELSE MaxBacklog]]
  /\ running' = NoWork /\ inFlight' = 0 /\ byBank' = NoSlots /\ rotation' = 0
  /\ todo' = <<>> /\ phase' = "waiting" /\ claimed' = {}
  /\ UNCHANGED <<routed, late, stops, changes>>

\* The container is started again (restart: unless-stopped, or a deployment).
Restart ==
  /\ mode = "exited"
  /\ mode' = "running" /\ late' = 0
  /\ UNCHANGED <<routed, backlog, running, counters, loop, inCall, stops, claimed, changes, faults>>

Cycle == StartCycle \/ ReserveSlot \/ ClaimNothing \/ ClaimWork \/ ClaimCancelled

Next ==
  \/ Cycle \/ ClaimForgotten \/ CycleFails
  \/ Cancel \/ BeginDrain \/ EndDrain \/ Exit \/ Restart
  \/ \E b \in Banks : RouteChanges(b) \/ \E k \in AllKinds : Submit(b, k) \/ WorkEnds(b, k)

Spec == Init /\ [][Next]_vars

\* The ticker keeps firing, and the loop goes on.  A goroutine ends, since the
\* database answers; but while the executor drains nothing is assumed of it:
\* its calls have no deadline.  The drain has its timer, closed pools end the
\* process once the goroutines have ended, and the container is restarted.
FairSpec ==
  /\ Spec
  /\ WF_vars(Cycle)
  /\ \A b \in Banks, k \in AllKinds : WF_vars(mode \in {"running", "closing"} /\ WorkEnds(b, k))
  /\ WF_vars(BeginDrain) /\ WF_vars(EndDrain)
  /\ WF_vars(mode = "closing" /\ running = NoWork /\ Exit)
  /\ WF_vars(Restart)

-----------------------------------------------------------------------------
(* Properties *)

\* The slots that are taken, numbered from one in each bank.
Slots(taken) == {s \in Banks \X (1..PerBank) : s[2] <= taken[s[1]]}

Holds(b) == IF Claiming /\ Head(todo) = b THEN 1 ELSE 0

\* The counters are exact at every step of the loop: each slot belongs to a
\* goroutine or is the one just reserved, whatever ends or is cancelled between
\* reserving and claiming, so the executor neither leaks slots nor runs more than its limit.
CountersExact ==
  /\ \A b \in Banks : byBank[b] = running[b]["batch"] + running[b]["item"] + Holds(b)
  /\ \A b \in Banks : running[b]["batch"] + running[b]["item"] <= PerBank
  /\ inFlight <= MaxClaims
  /\ inFlight = Cardinality(Slots(byBank))

\* Work of this kind is claimed for the bank, unless there is none to claim.
Served(b, k) == b \notin routed \/ backlog[b][k] = 0 \/ <<b, k>> \in claimed

\* However scarce the slots are and whatever the other banks and the expiry
\* items take of them: if from some time on every cycle begins with a slot to
\* spare, each routed bank with batches waiting gets one claimed, again and
\* again.  Any one bank may take all the slots of a cycle it comes first in, so
\* this rests on the rotation.
BatchesServed ==
  <>[][StartCycle => inFlight < MaxClaims]_vars => \A b \in Banks : []<>Served(b, "batch")

\* "A busy bank must not indefinitely starve others", though cycles may find
\* every slot taken.
BusyBanksLeaveRoom == \A b \in Banks : []<>Served(b, "batch")

\* Every routed bank with due expiry items gets one of them claimed, again and again.
ItemsServed == \A b \in Banks : []<>Served(b, "item")

\* Run "claims no new work after cancellation" (service.go): at most the one
\* claim whose call was under way takes effect after it, though the cycle goes
\* on over the other kind of work and the other banks; and nothing is claimed
\* once the drain has begun, so that no goroutine starts behind its back.
LateClaimsBounded ==
  /\ late <= 1
  /\ mode \in {"draining", "closing", "exited"} => phase = "waiting" /\ ~inCall

\* A cancelled executor exits, wherever the loop was, and Run returns even if
\* the goroutines never end ("waits a bounded time", service.go).
ShutdownCompletes == mode = "cancelled" ~> mode = "exited"
=============================================================================
