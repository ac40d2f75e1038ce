------------------------ MODULE ExecutorCycleProofs ------------------------
(***************************************************************************)
(* The counters and the shutdown of the executor's polling loop, proved    *)
(* for any number of banks and any limits: CountersExact and               *)
(* LateClaimsBounded of ExecutorCycle.                                     *)
(***************************************************************************)
EXTENDS ExecutorCycle, FiniteSetTheorems, TLAPS

-----------------------------------------------------------------------------
(* The invariant *)

\* Every slot of a bank belongs to a goroutine or is the one just reserved.
SlotsHeld == \A b \in Banks : byBank[b] = running[b]["batch"] + running[b]["item"] + Holds(b)

\* The two counters agree.
SlotsCounted == inFlight = Cardinality(Slots(byBank))

\* Before the cancellation no claim is late; one that was under way at the
\* cancellation is the only one that may become so.
LateOnce ==
  /\ late \in 0..1
  /\ mode = "running" => late = 0 /\ ~inCall
  /\ inCall => mode = "cancelled" /\ late = 0 /\ Claiming

\* The loop has ended before the drain begins, and before the pools close.
LoopEnded == mode \in {"draining", "closing", "exited"} => phase = "waiting"

CycleInv == TypeOK /\ SlotsHeld /\ SlotsCounted /\ LateOnce /\ LoopEnded

-----------------------------------------------------------------------------
(* Counting slots *)

\* Arithmetic of a counter that is taken up and down by one.
LEMMA OneMoreOneLess == \A m \in Nat : (m + 1) - 1 = m /\ m + 0 = m
OBVIOUS

LEMMA ZeroOne == 0 \in 0..1 /\ 0 + 1 \in 0..1
OBVIOUS

\* A reserved slot is a new one, one more than before.
LEMMA SlotTaken ==
  ASSUME NEW taken \in [Banks -> 0..PerBank], NEW b \in Banks, taken[b] < PerBank
  PROVE  /\ [taken EXCEPT ![b] = @ + 1] \in [Banks -> 0..PerBank]
         /\ Cardinality(Slots(taken)) \in Nat
         /\ Cardinality(Slots([taken EXCEPT ![b] = @ + 1])) = Cardinality(Slots(taken)) + 1
<1> DEFINE more == [taken EXCEPT ![b] = @ + 1]
           new == <<b, taken[b] + 1>>
<1>1. PerBank \in Nat /\ IsFiniteSet(Banks)
  BY ExecutorCycleAssumption
<1>2. more \in [Banks -> 0..PerBank]
  BY <1>1
<1>3. IsFiniteSet(Slots(taken))
  <2>1. IsFiniteSet(1..PerBank)
    BY <1>1, FS_Interval
  <2>2. IsFiniteSet(Banks \X (1..PerBank))
    BY <1>1, <2>1, FS_Product
  <2> QED
    BY <2>2, FS_Subset DEF Slots
<1>4. Slots(more) = Slots(taken) \cup {new}
  BY <1>1 DEF Slots
<1>5. new \notin Slots(taken)
  BY <1>1 DEF Slots
<1> QED
  BY <1>2, <1>3, <1>4, <1>5, FS_AddElement, FS_CardinalityType

\* A released slot is one that was taken, one less than before.
LEMMA SlotReleased ==
  ASSUME NEW taken \in [Banks -> 0..PerBank], NEW b \in Banks, taken[b] > 0
  PROVE  /\ [taken EXCEPT ![b] = @ - 1] \in [Banks -> 0..PerBank]
         /\ Cardinality(Slots(taken)) \in Nat \ {0}
         /\ Cardinality(Slots([taken EXCEPT ![b] = @ - 1])) = Cardinality(Slots(taken)) - 1
<1> DEFINE less == [taken EXCEPT ![b] = @ - 1]
<1>1. less \in [Banks -> 0..PerBank] /\ less[b] < PerBank
  BY ExecutorCycleAssumption
<1>2. [less EXCEPT ![b] = @ + 1] = taken
  <2>1. /\ DOMAIN [less EXCEPT ![b] = @ + 1] = Banks
        /\ \A c \in Banks : [less EXCEPT ![b] = @ + 1][c] = taken[c]
    BY ExecutorCycleAssumption
  <2> QED
    BY <2>1
<1> HIDE DEF less
<1>3. /\ Cardinality(Slots(less)) \in Nat
      /\ Cardinality(Slots(taken)) = Cardinality(Slots(less)) + 1
  BY <1>1, <1>2, SlotTaken
<1>4. Cardinality(Slots(taken)) \in Nat \ {0} /\ Cardinality(Slots(less)) = Cardinality(Slots(taken)) - 1
  BY <1>3
<1> QED
  BY <1>1, <1>4 DEF less

-----------------------------------------------------------------------------
(* What a step does to the counters *)

\* What the invariant says of the slots.
SlotInv == TypeOK /\ SlotsHeld /\ SlotsCounted

\* The bank the loop is at is one of the banks.
LEMMA BankAtHand ==
  ASSUME TypeOK, phase # "waiting"
  PROVE  Head(todo) \in Banks /\ Tail(todo) \in Seq(Banks)
<1>1. todo \in Seq(Banks) /\ todo # <<>>
  BY DEF TypeOK
<1> QED
  BY <1>1

\* Goroutines are counted in natural numbers.
LEMMA RunningCounts ==
  ASSUME TypeOK
  PROVE  /\ \A c \in Banks : running[c]["batch"] \in Nat /\ running[c]["item"] \in Nat
         /\ \A c \in Banks : running[c]["batch"] + running[c]["item"] \in Nat
<1>1. running \in [Banks -> [AllKinds -> Nat]]
  BY DEF TypeOK
<1>2. \A c \in Banks : running[c]["batch"] \in Nat /\ running[c]["item"] \in Nat
  BY <1>1 DEF AllKinds
<1>3. \A c \in Banks : running[c]["batch"] + running[c]["item"] \in Nat
  BY <1>2
<1> QED
  BY <1>2, <1>3

\* Giving back a slot of b keeps the two counters in step.
LEMMA ReleaseCounts ==
  ASSUME TypeOK, SlotsCounted, NEW b \in Banks, byBank[b] > 0, Release(b)
  PROVE  /\ inFlight' \in 0..MaxClaims
         /\ byBank' \in [Banks -> 0..PerBank]
         /\ SlotsCounted'
         /\ \A c \in Banks : byBank'[c] = IF c = b THEN byBank[b] - 1 ELSE byBank[c]
<1>1. byBank \in [Banks -> 0..PerBank] /\ inFlight \in 0..MaxClaims /\ MaxClaims \in Nat
  BY ExecutorCycleAssumption DEF TypeOK
<1>2. byBank' = [byBank EXCEPT ![b] = @ - 1] /\ inFlight' = inFlight - 1
  BY DEF Release
<1>3. /\ byBank' \in [Banks -> 0..PerBank]
      /\ Cardinality(Slots(byBank)) \in Nat \ {0}
      /\ Cardinality(Slots(byBank')) = Cardinality(Slots(byBank)) - 1
  BY <1>1, <1>2, SlotReleased
<1>4. inFlight' \in 0..MaxClaims /\ inFlight' = Cardinality(Slots(byBank'))
  BY <1>1, <1>2, <1>3 DEF SlotsCounted
<1>5. \A c \in Banks : byBank'[c] = IF c = b THEN byBank[b] - 1 ELSE byBank[c]
  BY <1>1, <1>2
<1> QED
  BY <1>3, <1>4, <1>5 DEF SlotsCounted, Slots

\* So does taking one that the limits allow.
LEMMA ReserveCounts ==
  ASSUME TypeOK, SlotsCounted, NEW b \in Banks, Reservable(b), Reserve(b)
  PROVE  /\ inFlight' \in 0..MaxClaims
         /\ byBank' \in [Banks -> 0..PerBank]
         /\ SlotsCounted'
         /\ \A c \in Banks : byBank'[c] = IF c = b THEN byBank[b] + 1 ELSE byBank[c]
<1>1. byBank \in [Banks -> 0..PerBank] /\ inFlight \in 0..MaxClaims /\ MaxClaims \in Nat
  BY ExecutorCycleAssumption DEF TypeOK
<1>2. /\ byBank' = [byBank EXCEPT ![b] = @ + 1] /\ inFlight' = inFlight + 1
      /\ byBank[b] < PerBank /\ inFlight < MaxClaims
  BY DEF Reserve, Reservable
<1>3. /\ byBank' \in [Banks -> 0..PerBank]
      /\ Cardinality(Slots(byBank')) = Cardinality(Slots(byBank)) + 1
  BY <1>1, <1>2, SlotTaken
<1>4. inFlight' \in 0..MaxClaims /\ inFlight' = Cardinality(Slots(byBank'))
  BY <1>1, <1>2, <1>3 DEF SlotsCounted
<1>5. \A c \in Banks : byBank'[c] = IF c = b THEN byBank[b] + 1 ELSE byBank[c]
  BY <1>1, <1>2
<1> QED
  BY <1>3, <1>4, <1>5 DEF SlotsCounted, Slots

\* The bank of a claim under way has a slot to give back.
LEMMA SlotAtHand ==
  ASSUME SlotInv, Claiming
  PROVE  byBank[Head(todo)] > 0
<1>1. Head(todo) \in Banks
  BY BankAtHand DEF SlotInv, Claiming
<1>2. /\ running[Head(todo)]["batch"] \in Nat /\ running[Head(todo)]["item"] \in Nat
  BY <1>1 DEF SlotInv, TypeOK, AllKinds
<1>3. byBank[Head(todo)] = running[Head(todo)]["batch"] + running[Head(todo)]["item"] + 1
  BY <1>1 DEF SlotInv, SlotsHeld, Holds
<1> QED
  BY <1>2, <1>3

\* Where the loop goes next is a phase, and no claim.
LEMMA LoopGoesOn ==
  ASSUME TypeOK, phase # "waiting", NextBank
  PROVE  /\ todo' \in Seq(Banks) /\ phase' \in {"waiting", "reserve batch"}
         /\ todo' = <<>> => phase' = "waiting"
<1>1. Tail(todo) \in Seq(Banks)
  BY BankAtHand
<1> QED
  BY <1>1 DEF NextBank

\* After a claim the loop turns to the items, or to the next bank.
LEMMA ClaimLeaves ==
  ASSUME TypeOK, Claiming, AfterClaim
  PROVE  /\ todo' \in Seq(Banks) /\ phase' \in {"waiting", "reserve batch", "reserve item"}
         /\ todo' = <<>> => phase' = "waiting"
<1>1. CASE phase = "claim batch"
  BY <1>1 DEF AfterClaim, TypeOK
<1>2. CASE phase # "claim batch"
  BY <1>2, LoopGoesOn DEF AfterClaim, Claiming
<1> QED
  BY <1>1, <1>2

-----------------------------------------------------------------------------
(* The slots are accounted for, step by step *)

LEMMA EnvironmentSlots ==
  ASSUME SlotInv, NEW b \in Banks, NEW k \in AllKinds, RouteChanges(b) \/ Submit(b, k)
  PROVE  SlotInv'
<1>1. UNCHANGED <<running, counters, loop, shutdown, claimed, faults>>
  BY DEF RouteChanges, Submit
<1>2. SlotsHeld' /\ SlotsCounted'
  BY <1>1 DEF SlotInv, SlotsHeld, SlotsCounted, Holds, Claiming, Slots, counters, loop
<1>3. CASE RouteChanges(b)
  <2>0. routed \subseteq Banks /\ changes \in 0..MaxChanges /\ MaxChanges \in Nat
    BY ExecutorCycleAssumption DEF SlotInv, TypeOK
  <2>1. routed' \subseteq Banks /\ changes' \in 0..MaxChanges
    BY <1>3, <2>0 DEF RouteChanges
  <2> QED
    BY <1>1, <1>2, <1>3, <2>1 DEF RouteChanges, SlotInv, TypeOK, counters, loop, shutdown
<1>4. CASE Submit(b, k)
  <2>0. backlog \in [Banks -> [AllKinds -> 0..MaxBacklog]] /\ MaxBacklog \in Nat
    BY ExecutorCycleAssumption DEF SlotInv, TypeOK
  <2>1. backlog' \in [Banks -> [AllKinds -> 0..MaxBacklog]]
    BY <1>4, <2>0 DEF Submit
  <2> QED
    BY <1>1, <1>2, <1>4, <2>1 DEF Submit, SlotInv, TypeOK, counters, loop, shutdown
<1> QED
  BY <1>3, <1>4

LEMMA StartCycleSlots ==
  ASSUME SlotInv, StartCycle
  PROVE  SlotInv'
<1> DEFINE n == Cardinality(routed)
           s == Start(n)
<1>1. n \in Nat
  <2>1. IsFiniteSet(routed)
    BY ExecutorCycleAssumption, FS_Subset DEF SlotInv, TypeOK
  <2> QED
    BY <2>1, FS_CardinalityType
<1>2. s \in Nat \ {0} /\ (n # 0 => s <= n)
  BY <1>1 DEF Start, SlotInv, TypeOK
<1> HIDE DEF n, s
<1>3. PICK banks \in ActiveBanks : todo' = SubSeq(banks, s, n) \o SubSeq(banks, 1, s - 1)
  BY DEF StartCycle, n, s
<1>4. banks \in Seq(Banks) /\ Len(banks) = n
  <2>1. banks \in [1..n -> routed] /\ routed \subseteq Banks
    BY DEF ActiveBanks, SlotInv, TypeOK, n
  <2>2. banks \in [1..n -> Banks]
    BY <2>1
  <2> QED
    BY <1>1, <2>2
<1>5. /\ SubSeq(banks, s, n) \in Seq(Banks) /\ SubSeq(banks, 1, s - 1) \in Seq(Banks)
      /\ n # 0 => Len(SubSeq(banks, s, n)) # 0
  <2>1. CASE n = 0
    <3>1. s = 1
      BY <2>1 DEF s, Start
    <3> QED
      BY <1>4, <2>1, <3>1
  <2>2. CASE n # 0
    BY <1>1, <1>2, <1>4, <2>2
  <2> QED
    BY <2>1, <2>2
<1>6. todo' \in Seq(Banks) /\ (n # 0 => todo' # <<>>)
  <2>1. /\ todo' \in Seq(Banks)
        /\ Len(todo') = Len(SubSeq(banks, s, n)) + Len(SubSeq(banks, 1, s - 1))
    BY <1>3, <1>5
  <2>2. Len(SubSeq(banks, s, n)) \in Nat /\ Len(SubSeq(banks, 1, s - 1)) \in Nat
    BY <1>5
  <2>3. n # 0 => Len(todo') # 0
    BY <1>5, <2>1, <2>2
  <2>4. todo' = <<>> => Len(todo') = 0
    OBVIOUS
  <2> QED
    BY <2>1, <2>3, <2>4
<1>7. /\ phase' = IF n = 0 THEN "waiting" ELSE "reserve batch"
      /\ rotation' = IF n < 2 THEN rotation ELSE (rotation + 1) % n
      /\ claimed' = {} /\ phase = "waiting"
      /\ UNCHANGED <<routed, backlog, running, counters, shutdown, changes, faults>>
  BY DEF StartCycle, Rotated, n
<1>8. rotation' \in Nat
  <2>1. rotation \in Nat
    BY DEF SlotInv, TypeOK
  <2>2. CASE n < 2
    BY <1>7, <2>1, <2>2
  <2>3. CASE ~(n < 2)
    <3>1. \A x \in Nat, y \in Nat \ {0} : x % y \in Nat
      OBVIOUS
    <3>2. n \in Nat \ {0} /\ rotation + 1 \in Nat
      BY <1>1, <2>1, <2>3
    <3>3. rotation' = (rotation + 1) % n
      BY <1>7, <2>3
    <3> QED
      BY <3>1, <3>2, <3>3
  <2> QED
    BY <2>2, <2>3
<1>9. TypeOK'
  BY <1>6, <1>7, <1>8 DEF SlotInv, TypeOK, counters, shutdown, Phases
<1>10. SlotsHeld' /\ SlotsCounted'
  BY <1>7 DEF SlotInv, SlotsHeld, SlotsCounted, Holds, Claiming, Slots, counters
<1> QED
  BY <1>9, <1>10 DEF SlotInv

LEMMA ReserveSlots ==
  ASSUME SlotInv, ReserveSlot
  PROVE  SlotInv'
<1> DEFINE b == Head(todo)
<1>1. b \in Banks /\ ~Claiming /\ phase # "waiting"
  BY BankAtHand DEF SlotInv, ReserveSlot, Claiming
<1>2. UNCHANGED <<routed, backlog, running, rotation, shutdown, claimed, changes, faults>>
  BY DEF ReserveSlot
<1>3. CASE Reservable(b) /\ Reserve(b) /\ UNCHANGED todo
           /\ phase' = IF phase = "reserve batch" THEN "claim batch" ELSE "claim item"
  <2>1. /\ inFlight' \in 0..MaxClaims
        /\ byBank' \in [Banks -> 0..PerBank]
        /\ SlotsCounted'
        /\ \A c \in Banks : byBank'[c] = IF c = b THEN byBank[b] + 1 ELSE byBank[c]
    BY <1>1, <1>3, ReserveCounts DEF SlotInv
  <2>2. TypeOK'
    BY <1>1, <1>2, <1>3, <2>1 DEF SlotInv, TypeOK, shutdown, Phases
  <2>3. SlotsHeld'
    <3>1. \A c \in Banks : running[c]["batch"] + running[c]["item"] \in Nat
      BY RunningCounts DEF SlotInv
    <3>2. Claiming' /\ Head(todo') = b
      BY <1>3 DEF Claiming
    <3>3. \A c \in Banks : Holds(c) = 0 /\ Holds(c)' = IF c = b THEN 1 ELSE 0
      BY <1>1, <3>2 DEF Holds
    <3> QED
      BY <1>1, <1>2, <2>1, <3>1, <3>3 DEF SlotInv, SlotsHeld
  <2> QED
    BY <2>1, <2>2, <2>3 DEF SlotInv
<1>4. CASE NextBank /\ UNCHANGED counters
  <2>1. /\ todo' \in Seq(Banks) /\ phase' \in {"waiting", "reserve batch"}
        /\ todo' = <<>> => phase' = "waiting"
    BY <1>1, <1>4, LoopGoesOn DEF SlotInv
  <2>2. TypeOK'
    BY <1>2, <1>4, <2>1 DEF SlotInv, TypeOK, counters, shutdown, Phases
  <2>3. SlotsHeld' /\ SlotsCounted'
    BY <1>1, <1>2, <1>4, <2>1 DEF SlotInv, SlotsHeld, SlotsCounted, Holds, Claiming, Slots, counters
  <2> QED
    BY <2>2, <2>3 DEF SlotInv
<1> QED
  BY <1>3, <1>4 DEF ReserveSlot

\* The reserved slot is given back and the loop leaves the claim.
LEMMA SlotGivenBack ==
  ASSUME SlotInv, Claiming, Release(Head(todo)), UNCHANGED running,
         phase' \in {"waiting", "reserve batch", "reserve item"}
  PROVE  /\ inFlight' \in 0..MaxClaims /\ byBank' \in [Banks -> 0..PerBank]
         /\ SlotsHeld' /\ SlotsCounted'
<1> DEFINE b == Head(todo)
<1>1. b \in Banks /\ byBank[b] > 0
  BY BankAtHand, SlotAtHand DEF SlotInv, Claiming
<1>2. /\ inFlight' \in 0..MaxClaims
      /\ byBank' \in [Banks -> 0..PerBank]
      /\ SlotsCounted'
      /\ \A c \in Banks : byBank'[c] = IF c = b THEN byBank[b] - 1 ELSE byBank[c]
  BY <1>1, ReleaseCounts DEF SlotInv
<1>3. \A c \in Banks : running[c]["batch"] + running[c]["item"] \in Nat
  BY RunningCounts DEF SlotInv
<1>4. Claiming /\ ~Claiming'
  BY DEF Claiming
<1>5. SlotsHeld'
  <2>1. \A c \in Banks : byBank[c] = running[c]["batch"] + running[c]["item"] + Holds(c)
    BY DEF SlotInv, SlotsHeld
  <2>2. \A c \in Banks : byBank'[c] = running[c]["batch"] + running[c]["item"]
    <3> SUFFICES ASSUME NEW c \in Banks
                 PROVE  byBank'[c] = running[c]["batch"] + running[c]["item"]
      OBVIOUS
    <3> DEFINE all == running[c]["batch"] + running[c]["item"]
    <3>1. all \in Nat /\ byBank[c] = all + Holds(c)
      BY <1>3, <2>1
    <3> HIDE DEF all
    <3>2. CASE c = b
      <4>1. byBank'[c] = byBank[c] - 1 /\ byBank[c] = all + 1
        BY <1>2, <1>4, <3>1, <3>2 DEF Holds
      <4>2. byBank'[c] = all
        BY OneMoreOneLess, <3>1, <4>1
      <4> QED
        BY <4>2 DEF all
    <3>3. CASE c # b
      <4>1. byBank'[c] = byBank[c] /\ byBank[c] = all + 0
        BY <1>2, <1>4, <3>1, <3>3 DEF Holds
      <4>2. byBank'[c] = all
        BY OneMoreOneLess, <3>1, <4>1
      <4> QED
        BY <4>2 DEF all
    <3> QED
      BY <3>2, <3>3
  <2> QED
    <3> SUFFICES ASSUME NEW c \in Banks
                 PROVE  byBank'[c] = running'[c]["batch"] + running'[c]["item"] + Holds(c)'
      BY DEF SlotsHeld
    <3>1. Holds(c)' = 0 /\ running' = running
      BY <1>4 DEF Holds
    <3>2. byBank'[c] = running[c]["batch"] + running[c]["item"]
      BY <2>2
    <3>3. running[c]["batch"] + running[c]["item"] \in Nat
      BY <1>3
    <3>4. byBank'[c] = running[c]["batch"] + running[c]["item"] + 0
      BY OneMoreOneLess, <3>2, <3>3
    <3> QED
      BY <3>1, <3>4
<1> QED
  BY <1>2, <1>5

LEMMA ClaimNothingSlots ==
  ASSUME SlotInv, ClaimNothing
  PROVE  SlotInv'
<1>1. /\ Claiming /\ Release(Head(todo)) /\ AfterClaim /\ inCall' = FALSE
      /\ UNCHANGED <<routed, backlog, running, rotation, mode, late, stops, claimed, changes, faults>>
  BY DEF ClaimNothing
<1>2. /\ todo' \in Seq(Banks) /\ phase' \in {"waiting", "reserve batch", "reserve item"}
      /\ todo' = <<>> => phase' = "waiting"
  BY <1>1, ClaimLeaves DEF SlotInv
<1>3. /\ inFlight' \in 0..MaxClaims /\ byBank' \in [Banks -> 0..PerBank]
      /\ SlotsHeld' /\ SlotsCounted'
  BY <1>1, <1>2, SlotGivenBack
<1>4. TypeOK'
  BY <1>1, <1>2, <1>3 DEF SlotInv, TypeOK, Phases
<1> QED
  BY <1>3, <1>4 DEF SlotInv

\* A claim that commits takes from the backlog.
LEMMA BacklogTyped ==
  ASSUME TypeOK, TakesWork
  PROVE  backlog' \in [Banks -> [AllKinds -> 0..MaxBacklog]] /\ late' \in Nat
<1> DEFINE b == Head(todo)
           k == KindOf(phase)
<1>1. b \in Banks
  BY BankAtHand DEF TakesWork, Claiming
<1>2. k \in AllKinds
  BY DEF KindOf, AllKinds
<1>3. /\ backlog \in [Banks -> [AllKinds -> 0..MaxBacklog]] /\ MaxBacklog \in Nat /\ late \in Nat
  BY ExecutorCycleAssumption DEF TypeOK
<1>4. /\ backlog[b][k] > 0 /\ backlog' = [backlog EXCEPT ![b][k] = @ - 1]
      /\ late' = IF mode = "running" THEN late ELSE late + 1
  BY DEF TakesWork
<1> HIDE DEF b, k
<1>5. backlog' \in [Banks -> [AllKinds -> 0..MaxBacklog]]
  BY <1>1, <1>2, <1>3, <1>4
<1> QED
  BY <1>3, <1>4, <1>5

\* What changing the number of goroutines of one kind does to their sum.
LEMMA RunningMoves ==
  ASSUME TypeOK, NEW b \in Banks, NEW k \in AllKinds, NEW d \in {0 - 1, 1},
         d < 0 => running[b][k] > 0,
         running' = [running EXCEPT ![b][k] = @ + d]
  PROVE  /\ running' \in [Banks -> [AllKinds -> Nat]]
         /\ \A c \in Banks : running'[c]["batch"] + running'[c]["item"] =
              IF c = b THEN running[b]["batch"] + running[b]["item"] + d
                       ELSE running[c]["batch"] + running[c]["item"]
<1>1. running \in [Banks -> [AllKinds -> Nat]]
  BY DEF TypeOK
<1>2. running' \in [Banks -> [AllKinds -> Nat]]
  BY <1>1
<1>3. \A c \in Banks : running[c]["batch"] \in Nat /\ running[c]["item"] \in Nat
  BY RunningCounts
<1>4. \A c \in Banks : c # b => running'[c] = running[c]
  BY <1>1
<1>5. CASE k = "batch"
  <2>1. running'[b]["batch"] = running[b]["batch"] + d /\ running'[b]["item"] = running[b]["item"]
    BY <1>1, <1>5 DEF AllKinds
  <2>2. running'[b]["batch"] + running'[b]["item"] = running[b]["batch"] + running[b]["item"] + d
    BY <1>3, <2>1
  <2> QED
    BY <1>2, <1>4, <2>2
<1>6. CASE k = "item"
  <2>1. running'[b]["item"] = running[b]["item"] + d /\ running'[b]["batch"] = running[b]["batch"]
    BY <1>1, <1>6 DEF AllKinds
  <2>2. running'[b]["batch"] + running'[b]["item"] = running[b]["batch"] + running[b]["item"] + d
    BY <1>3, <2>1
  <2> QED
    BY <1>2, <1>4, <2>2
<1> QED
  BY <1>5, <1>6 DEF AllKinds

\* The reserved slot becomes that of a goroutine.
LEMMA ClaimWorkSlots ==
  ASSUME SlotInv, ClaimWork
  PROVE  SlotInv'
<1> DEFINE b == Head(todo)
           k == KindOf(phase)
<1>1. /\ TakesWork /\ Claiming /\ AfterClaim /\ inCall' = FALSE
      /\ running' = [running EXCEPT ![b][k] = @ + 1]
      /\ claimed' = IF mode = "running" THEN claimed \cup {<<b, k>>} ELSE claimed
      /\ UNCHANGED <<routed, counters, rotation, mode, stops, changes, faults>>
  BY DEF ClaimWork, TakesWork
<1>2. /\ todo' \in Seq(Banks) /\ phase' \in {"waiting", "reserve batch", "reserve item"}
      /\ todo' = <<>> => phase' = "waiting"
  BY <1>1, ClaimLeaves DEF SlotInv
<1>3. backlog' \in [Banks -> [AllKinds -> 0..MaxBacklog]] /\ late' \in Nat
  BY <1>1, BacklogTyped DEF SlotInv
<1>4. b \in Banks /\ k \in AllKinds
  BY <1>1, BankAtHand DEF SlotInv, Claiming, KindOf, AllKinds
<1>5. claimed' \subseteq Banks \X AllKinds
  <2>1. claimed \subseteq Banks \X AllKinds
    BY DEF SlotInv, TypeOK
  <2> QED
    BY <1>1, <1>4, <2>1
<1>6. /\ running' \in [Banks -> [AllKinds -> Nat]]
      /\ \A c \in Banks : running'[c]["batch"] + running'[c]["item"] =
           IF c = b THEN running[b]["batch"] + running[b]["item"] + 1
                    ELSE running[c]["batch"] + running[c]["item"]
  <2>1. running' = [running EXCEPT ![b][k] = @ + 1] /\ TypeOK
    BY <1>1 DEF SlotInv
  <2> HIDE DEF b, k
  <2>2. 1 \in {0 - 1, 1} /\ ~(1 < 0)
    OBVIOUS
  <2> QED
    BY <1>4, <2>1, <2>2, RunningMoves
<1>7. TypeOK'
  <2> HIDE DEF b, k
  <2> QED
    BY <1>1, <1>2, <1>3, <1>5, <1>6 DEF SlotInv, TypeOK, Phases, counters
<1>8. SlotsHeld'
  <2> SUFFICES ASSUME NEW c \in Banks
               PROVE  byBank'[c] = running'[c]["batch"] + running'[c]["item"] + Holds(c)'
    BY DEF SlotsHeld
  <2>1. Holds(c)' = 0
    BY <1>2 DEF Holds, Claiming
  <2>2. byBank'[c] = running[c]["batch"] + running[c]["item"] + Holds(c)
    BY <1>1 DEF SlotInv, SlotsHeld, counters
  <2>3. Holds(c) = IF c = b THEN 1 ELSE 0
    BY <1>1 DEF Holds
  <2>4. running[c]["batch"] + running[c]["item"] \in Nat
    BY RunningCounts DEF SlotInv
  <2>5. running'[c]["batch"] + running'[c]["item"] = byBank'[c]
    <3>1. CASE c = b
      BY <1>6, <2>2, <2>3, <3>1
    <3>2. CASE c # b
      BY <1>6, <2>2, <2>3, <2>4, <3>2, OneMoreOneLess
    <3> QED
      BY <3>1, <3>2
  <2>6. byBank'[c] \in Nat
    <3>1. byBank \in [Banks -> 0..PerBank] /\ byBank' = byBank /\ PerBank \in Nat
      BY <1>1, ExecutorCycleAssumption DEF SlotInv, TypeOK, counters
    <3> QED
      BY <3>1
  <2> QED
    BY <2>1, <2>5, <2>6, OneMoreOneLess
<1>9. SlotsCounted'
  BY <1>1 DEF SlotInv, SlotsCounted, Slots, counters
<1> QED
  BY <1>7, <1>8, <1>9 DEF SlotInv

\* Leaving the cycle gives the slot of a claim back.
LEMMA LeaveSlots ==
  ASSUME SlotInv, LeaveCycle, UNCHANGED running
  PROVE  /\ inFlight' \in 0..MaxClaims /\ byBank' \in [Banks -> 0..PerBank]
         /\ todo' \in Seq(Banks) /\ phase' = "waiting" /\ inCall' = FALSE
         /\ SlotsHeld' /\ SlotsCounted'
<1>1. todo' = <<>> /\ phase' = "waiting" /\ inCall' = FALSE
  BY DEF LeaveCycle
<1>2. todo' \in Seq(Banks)
  BY <1>1
<1>3. CASE Claiming
  BY <1>1, <1>2, <1>3, SlotGivenBack DEF LeaveCycle
<1>4. CASE ~Claiming
  <2>1. UNCHANGED counters
    BY <1>4 DEF LeaveCycle
  <2>2. SlotsHeld' /\ SlotsCounted'
    BY <1>1, <1>4, <2>1 DEF SlotInv, SlotsHeld, SlotsCounted, Slots, Holds, Claiming, counters
  <2>3. inFlight' \in 0..MaxClaims /\ byBank' \in [Banks -> 0..PerBank]
    BY <2>1 DEF SlotInv, TypeOK, counters
  <2> QED
    BY <1>1, <1>2, <2>2, <2>3
<1> QED
  BY <1>3, <1>4

LEMMA CycleLeftSlots ==
  ASSUME SlotInv, ClaimCancelled \/ ClaimForgotten \/ CycleFails
  PROVE  SlotInv'
<1>1. LeaveCycle /\ UNCHANGED <<routed, running, rotation, stops, claimed, changes>>
  BY DEF ClaimCancelled, ClaimForgotten, CycleFails
<1>2. /\ inFlight' \in 0..MaxClaims /\ byBank' \in [Banks -> 0..PerBank]
      /\ todo' \in Seq(Banks) /\ phase' = "waiting" /\ inCall' = FALSE
      /\ SlotsHeld' /\ SlotsCounted'
  BY <1>1, LeaveSlots
<1>3. backlog' \in [Banks -> [AllKinds -> 0..MaxBacklog]] /\ late' \in Nat
  <2>1. CASE TakesWork
    BY <2>1, BacklogTyped DEF SlotInv
  <2>2. CASE UNCHANGED <<backlog, late>>
    BY <2>2 DEF SlotInv, TypeOK
  <2> QED
    BY <2>1, <2>2 DEF ClaimCancelled, ClaimForgotten, CycleFails
<1>4. mode' \in Modes /\ faults' \in 0..MaxFaults
  <2>1. mode \in Modes /\ faults \in 0..MaxFaults /\ MaxFaults \in Nat
    BY ExecutorCycleAssumption DEF SlotInv, TypeOK
  <2>2. mode' \in Modes
    BY <2>1 DEF ClaimCancelled, ClaimForgotten, CycleFails, Modes
  <2>3. UNCHANGED faults \/ (faults < MaxFaults /\ faults' = faults + 1)
    BY DEF ClaimCancelled, ClaimForgotten, CycleFails
  <2> QED
    BY <2>1, <2>2, <2>3
<1>5. TypeOK'
  BY <1>1, <1>2, <1>3, <1>4 DEF SlotInv, TypeOK, Phases
<1> QED
  BY <1>2, <1>5 DEF SlotInv

\* A goroutine that ends gives its slot back, wherever the loop is.
LEMMA WorkEndsSlots ==
  ASSUME SlotInv, NEW b \in Banks, NEW k \in AllKinds, WorkEnds(b, k)
  PROVE  SlotInv'
<1>1. /\ running[b][k] > 0 /\ running' = [running EXCEPT ![b][k] = @ - 1] /\ Release(b)
      /\ UNCHANGED <<routed, backlog, loop, shutdown, claimed, changes, faults>>
  BY DEF WorkEnds
<1>2. running \in [Banks -> [AllKinds -> Nat]] /\ byBank \in [Banks -> 0..PerBank] /\ PerBank \in Nat
  BY ExecutorCycleAssumption DEF SlotInv, TypeOK
<1>3. running' = [running EXCEPT ![b][k] = @ + (0 - 1)]
  <2>1. running[b][k] - 1 = running[b][k] + (0 - 1)
    BY <1>2
  <2> QED
    BY <1>1, <2>1
<1>4. /\ running' \in [Banks -> [AllKinds -> Nat]]
      /\ \A c \in Banks : running'[c]["batch"] + running'[c]["item"] =
           IF c = b THEN running[b]["batch"] + running[b]["item"] + (0 - 1)
                    ELSE running[c]["batch"] + running[c]["item"]
  <2>1. TypeOK /\ 0 - 1 \in {0 - 1, 1}
    BY DEF SlotInv
  <2> QED
    BY <1>1, <1>3, <2>1, RunningMoves
<1>5. \A c \in Banks : Holds(c) \in {0, 1}
  BY DEF Holds
<1>6. byBank[b] > 0
  <2>1. running[b]["batch"] \in Nat /\ running[b]["item"] \in Nat
    BY RunningCounts DEF SlotInv
  <2>2. running[b]["batch"] + running[b]["item"] > 0
    BY <1>1, <2>1 DEF AllKinds
  <2>3. byBank[b] = running[b]["batch"] + running[b]["item"] + Holds(b)
    BY DEF SlotInv, SlotsHeld
  <2> DEFINE all == running[b]["batch"] + running[b]["item"]
             held == Holds(b)
  <2>4. all \in Nat /\ all > 0 /\ held \in {0, 1} /\ byBank[b] = all + held
    BY <1>5, <2>1, <2>2, <2>3
  <2> HIDE DEF all, held
  <2> QED
    BY <2>4
<1>7. /\ inFlight' \in 0..MaxClaims
      /\ byBank' \in [Banks -> 0..PerBank]
      /\ SlotsCounted'
      /\ \A c \in Banks : byBank'[c] = IF c = b THEN byBank[b] - 1 ELSE byBank[c]
  BY <1>1, <1>6, ReleaseCounts DEF SlotInv
<1>8. TypeOK'
  BY <1>1, <1>4, <1>7 DEF SlotInv, TypeOK, loop, shutdown
<1>9. SlotsHeld'
  <2> SUFFICES ASSUME NEW c \in Banks
               PROVE  byBank'[c] = running'[c]["batch"] + running'[c]["item"] + Holds(c)'
    BY DEF SlotsHeld
  <2> DEFINE all == running[c]["batch"] + running[c]["item"]
             held == Holds(c)
  <2>1. Holds(c)' = held
    BY <1>1 DEF Holds, Claiming, loop
  <2>2. all \in Nat /\ held \in {0, 1} /\ byBank[c] = all + held
    BY <1>5, RunningCounts DEF SlotInv, SlotsHeld
  <2>3. running'[c]["batch"] + running'[c]["item"] = IF c = b THEN all + (0 - 1) ELSE all
    BY <1>4
  <2> HIDE DEF all, held
  <2>4. byBank'[c] = IF c = b THEN (all + held) - 1 ELSE all + held
    BY <1>7, <2>2
  <2>5. (all + held) - 1 = (all + (0 - 1)) + held
    BY <2>2
  <2> QED
    BY <2>1, <2>3, <2>4, <2>5
<1> QED
  BY <1>7, <1>8, <1>9 DEF SlotInv

\* The shutdown itself touches no slot.
LEMMA ShutdownSlots ==
  ASSUME SlotInv, Cancel \/ BeginDrain \/ EndDrain \/ Restart
  PROVE  SlotInv'
<1>1. UNCHANGED <<routed, backlog, running, counters, loop, changes, faults>>
  BY DEF Cancel, BeginDrain, EndDrain, Restart
<1>2. SlotsHeld' /\ SlotsCounted'
  BY <1>1 DEF SlotInv, SlotsHeld, SlotsCounted, Slots, Holds, Claiming, counters, loop
<1>3. mode' \in Modes /\ inCall' \in BOOLEAN /\ late' \in Nat /\ claimed' \subseteq Banks \X AllKinds
  <2>1. inCall \in BOOLEAN /\ late \in Nat /\ claimed \subseteq Banks \X AllKinds
    BY DEF SlotInv, TypeOK
  <2>2. mode' \in Modes /\ (UNCHANGED claimed \/ claimed' = {})
    BY DEF Cancel, BeginDrain, EndDrain, Restart, Modes
  <2>3. (UNCHANGED inCall \/ inCall' \in BOOLEAN) /\ (UNCHANGED late \/ late' = 0)
    BY DEF Cancel, BeginDrain, EndDrain, Restart
  <2> QED
    BY <2>1, <2>2, <2>3
<1>4. stops' \in 0..MaxStops
  <2>1. stops \in 0..MaxStops /\ MaxStops \in Nat
    BY ExecutorCycleAssumption DEF SlotInv, TypeOK
  <2>2. UNCHANGED stops \/ (stops < MaxStops /\ stops' = stops + 1)
    BY DEF Cancel, BeginDrain, EndDrain, Restart
  <2> QED
    BY <2>1, <2>2
<1>5. TypeOK'
  BY <1>1, <1>3, <1>4 DEF SlotInv, TypeOK, counters, loop
<1> QED
  BY <1>2, <1>5 DEF SlotInv

\* Without goroutines and without a claim there are no slots.
LEMMA NoSlotsTaken ==
  /\ NoSlots \in [Banks -> 0..PerBank] /\ Cardinality(Slots(NoSlots)) = 0
  /\ NoWork \in [Banks -> [AllKinds -> Nat]]
  /\ \A b \in Banks : NoSlots[b] = NoWork[b]["batch"] + NoWork[b]["item"] + 0
<1>1. PerBank \in Nat
  BY ExecutorCycleAssumption
<1>2. NoSlots \in [Banks -> 0..PerBank]
  BY <1>1 DEF NoSlots
<1>3. Slots(NoSlots) = {}
  BY <1>1 DEF Slots, NoSlots
<1> QED
  BY <1>2, <1>3, FS_EmptySet DEF NoWork, NoSlots, AllKinds

\* The counters of a process that starts or has ended.
LEMMA FreshSlots ==
  ASSUME running = NoWork, inFlight = 0, byBank = NoSlots, phase = "waiting"
  PROVE  SlotsHeld /\ SlotsCounted /\ inFlight \in 0..MaxClaims
<1>1. \A b \in Banks : Holds(b) = 0
  BY DEF Holds, Claiming
<1>2. \A b \in Banks : byBank[b] = running[b]["batch"] + running[b]["item"] + 0
  BY NoSlotsTaken
<1>3. SlotsHeld
  BY <1>1, <1>2 DEF SlotsHeld, Holds, Claiming
<1>4. inFlight \in 0..MaxClaims
  BY ExecutorCycleAssumption
<1> QED
  BY <1>3, <1>4, NoSlotsTaken DEF SlotsCounted

LEMMA ExitSlots ==
  ASSUME SlotInv, Exit
  PROVE  SlotInv'
<1>1. /\ mode' = "exited" /\ inCall' = FALSE /\ claimed' = {}
      /\ running' = NoWork /\ inFlight' = 0 /\ byBank' = NoSlots /\ rotation' = 0
      /\ todo' = <<>> /\ phase' = "waiting"
      /\ UNCHANGED <<routed, late, stops, changes>>
  BY DEF Exit
<1>2. (SlotsHeld /\ SlotsCounted /\ inFlight \in 0..MaxClaims)'
  <2>1. (running = NoWork)' /\ (inFlight = 0)' /\ (byBank = NoSlots)' /\ (phase = "waiting")'
    BY <1>1 DEF NoWork, NoSlots
  <2> QED
    BY <2>1, FreshSlots, PTL
<1>3. backlog' \in [Banks -> [AllKinds -> 0..MaxBacklog]]
  <2>1. /\ backlog \in [Banks -> [AllKinds -> 0..MaxBacklog]] /\ running \in [Banks -> [AllKinds -> Nat]]
        /\ MaxBacklog \in Nat
    BY ExecutorCycleAssumption DEF SlotInv, TypeOK
  <2>2. \A b \in Banks, k \in AllKinds :
           LET all == backlog[b][k] + running[b][k] IN
           (IF all < MaxBacklog THEN all ELSE MaxBacklog) \in 0..MaxBacklog
    BY <2>1
  <2> QED
    BY <2>2 DEF Exit
<1>4. faults' \in 0..MaxFaults
  <2>1. faults \in 0..MaxFaults /\ MaxFaults \in Nat
    BY ExecutorCycleAssumption DEF SlotInv, TypeOK
  <2>2. UNCHANGED faults \/ (faults < MaxFaults /\ faults' = faults + 1)
    BY DEF Exit
  <2> QED
    BY <2>1, <2>2
<1>5. TypeOK'
  <2>1. todo' \in Seq(Banks) /\ claimed' \subseteq Banks \X AllKinds
    BY <1>1
  <2>2. byBank' \in [Banks -> 0..PerBank] /\ running' \in [Banks -> [AllKinds -> Nat]]
    BY <1>1, NoSlotsTaken
  <2> QED
    BY <1>1, <1>2, <1>3, <1>4, <2>1, <2>2 DEF SlotInv, TypeOK, Phases, Modes
<1> QED
  BY <1>2, <1>5 DEF SlotInv

LEMMA InitialSlots ==
  ASSUME Init
  PROVE  CycleInv
<1>1. SlotsHeld /\ SlotsCounted /\ inFlight \in 0..MaxClaims
  BY FreshSlots DEF Init
<1>2. backlog \in [Banks -> [AllKinds -> 0..MaxBacklog]]
  BY ExecutorCycleAssumption DEF Init, NoWork
<1>3. byBank \in [Banks -> 0..PerBank] /\ running \in [Banks -> [AllKinds -> Nat]]
  BY NoSlotsTaken DEF Init
<1>4. todo \in Seq(Banks)
  BY DEF Init
<1>5. changes \in 0..MaxChanges /\ faults \in 0..MaxFaults /\ stops \in 0..MaxStops
  BY ExecutorCycleAssumption DEF Init
<1>6. TypeOK
  BY <1>1, <1>2, <1>3, <1>4, <1>5 DEF Init, TypeOK, Phases, Modes
<1> QED
  BY <1>1, <1>6 DEF Init, CycleInv, LateOnce, LoopEnded

-----------------------------------------------------------------------------
(* Every step *)

\* A claim begun after the cancellation does not commit; the one that was under
\* way does so at most once.
LEMMA LateClaimsStep ==
  ASSUME CycleInv, Next
  PROVE  LateOnce' /\ LoopEnded'
<1> USE DEF CycleInv, LateOnce, LoopEnded, Claiming
<1>1. mode \in Modes /\ phase \in Phases /\ inCall \in BOOLEAN
  BY DEF TypeOK
<1>2. CASE StartCycle
  BY <1>2 DEF StartCycle, shutdown
<1>3. CASE ReserveSlot
  BY <1>1, <1>3 DEF ReserveSlot, NextBank, shutdown
<1>4. CASE ClaimNothing
  BY <1>1, <1>4 DEF ClaimNothing, AfterClaim, NextBank
<1>5. CASE ClaimWork
  <2>1. /\ late' = (IF mode = "running" THEN late ELSE late + 1) /\ inCall' = FALSE
        /\ mode = "running" \/ inCall
        /\ phase \in {"claim batch", "claim item"} /\ UNCHANGED mode
    BY <1>5 DEF ClaimWork, TakesWork, MaySucceed
  <2>2. mode = "running" => late' = 0
    BY <2>1
  <2>3. mode # "running" => late = 0
    BY <2>1
  <2>4. mode # "running" => late' = 0 + 1
    BY <2>1, <2>3
  <2>5. late' \in 0..1
    BY <2>2, <2>4, ZeroOne
  <2> QED
    BY <1>1, <2>1, <2>2, <2>5
<1>6. CASE ClaimCancelled
  BY <1>6 DEF ClaimCancelled, LeaveCycle
<1>7. CASE ClaimForgotten
  <2>1. /\ late' = late + 1 /\ inCall' = FALSE /\ inCall /\ UNCHANGED mode /\ mode = "cancelled"
        /\ phase' = "waiting"
    BY <1>7 DEF ClaimForgotten, TakesWork, MaySucceed, LeaveCycle
  <2>2. late' = 0 + 1
    BY <2>1
  <2>3. late' \in 0..1
    BY <2>2, ZeroOne
  <2> QED
    BY <2>1, <2>3
<1>8. CASE CycleFails
  BY <1>8 DEF CycleFails, LeaveCycle
<1>9. CASE Cancel
  BY <1>9 DEF Cancel, loop
<1>10. CASE BeginDrain
  BY <1>10 DEF BeginDrain, loop
<1>11. CASE EndDrain
  BY <1>11 DEF EndDrain, loop
<1>12. CASE Exit
  BY <1>12 DEF Exit
<1>13. CASE Restart
  BY <1>13 DEF Restart, loop
<1>14. ASSUME NEW b \in Banks, NEW k \in AllKinds, RouteChanges(b) \/ Submit(b, k) \/ WorkEnds(b, k)
       PROVE  LateOnce' /\ LoopEnded'
  <2>1. UNCHANGED <<phase, mode, inCall, late>>
    BY <1>14 DEF RouteChanges, Submit, WorkEnds, loop, shutdown
  <2> QED
    BY <2>1
<1>15. ASSUME NEW b \in Banks, RouteChanges(b)
       PROVE  LateOnce' /\ LoopEnded'
  BY <1>15 DEF RouteChanges, loop, shutdown
<1> QED
  BY <1>2, <1>3, <1>4, <1>5, <1>6, <1>7, <1>8, <1>9, <1>10, <1>11, <1>12, <1>13, <1>14, <1>15
     DEF Next, Cycle

LEMMA CycleInvStep ==
  ASSUME CycleInv, [Next]_vars
  PROVE  CycleInv'
<1>1. SlotInv
  BY DEF CycleInv, SlotInv
<1>2. CASE UNCHANGED vars
  BY <1>2 DEF CycleInv, TypeOK, SlotsHeld, SlotsCounted, Slots, Holds, Claiming, LateOnce, LoopEnded,
              vars, counters, loop, shutdown
<1>3. CASE Next
  <2>1. SlotInv'
    <3>1. CASE Cycle
      BY <1>1, <3>1, StartCycleSlots, ReserveSlots, ClaimNothingSlots, ClaimWorkSlots, CycleLeftSlots
         DEF Cycle
    <3>2. CASE ClaimForgotten \/ CycleFails
      BY <1>1, <3>2, CycleLeftSlots
    <3>3. CASE Cancel \/ BeginDrain \/ EndDrain \/ Restart
      BY <1>1, <3>3, ShutdownSlots
    <3>4. CASE Exit
      BY <1>1, <3>4, ExitSlots
    <3>5. CASE \E b \in Banks : RouteChanges(b) \/ \E k \in AllKinds : Submit(b, k) \/ WorkEnds(b, k)
      <4>1. "batch" \in AllKinds
        BY DEF AllKinds
      <4> QED
        BY <1>1, <3>5, <4>1, EnvironmentSlots, WorkEndsSlots
    <3> QED
      BY <1>3, <3>1, <3>2, <3>3, <3>4, <3>5 DEF Next
  <2> QED
    BY <1>3, <2>1, LateClaimsStep DEF CycleInv, SlotInv
<1> QED
  BY <1>2, <1>3

-----------------------------------------------------------------------------
(* Theorems *)

\* In every reachable state of the loop every slot is accounted for, and the
\* claims after a cancellation are bounded.
THEOREM CycleInvariant == Spec => []CycleInv
<1>1. Init => CycleInv
  BY InitialSlots
<1>2. CycleInv /\ [Next]_vars => CycleInv'
  BY CycleInvStep
<1> QED
  BY <1>1, <1>2, PTL DEF Spec

\* inFlight and byBank are exact, neither limit is exceeded and no slot is
\* leaked (reserve, release), for any number of banks and any limits.
THEOREM ExactCounters == Spec => []CountersExact
<1>1. CycleInv => CountersExact
  <2> SUFFICES ASSUME CycleInv
               PROVE  CountersExact
    OBVIOUS
  <2>1. inFlight \in 0..MaxClaims /\ byBank \in [Banks -> 0..PerBank]
        /\ MaxClaims \in Nat /\ PerBank \in Nat
    BY ExecutorCycleAssumption DEF CycleInv, TypeOK
  <2>2. \A b \in Banks : running[b]["batch"] + running[b]["item"] <= PerBank
    <3> SUFFICES ASSUME NEW b \in Banks
                 PROVE  running[b]["batch"] + running[b]["item"] <= PerBank
      OBVIOUS
    <3> DEFINE all == running[b]["batch"] + running[b]["item"]
               held == Holds(b)
    <3>1. all \in Nat /\ byBank[b] = all + held /\ byBank[b] \in 0..PerBank
      BY <2>1, RunningCounts DEF CycleInv, SlotsHeld
    <3>2. held \in {0, 1}
      BY DEF Holds
    <3> HIDE DEF all, held
    <3>3. all <= PerBank
      BY <2>1, <3>1, <3>2
    <3> QED
      BY <3>3 DEF all
  <2>3. inFlight <= MaxClaims
    BY <2>1
  <2> QED
    BY <2>2, <2>3 DEF CycleInv, SlotsHeld, SlotsCounted, CountersExact
<1> QED
  BY <1>1, CycleInvariant, PTL

\* At most the claim under way at the cancellation takes effect after it, and
\* none once Run waits for the goroutines or has returned.
THEOREM LateClaims == Spec => []LateClaimsBounded
<1>1. CycleInv => LateClaimsBounded
  BY DEF CycleInv, LateOnce, LoopEnded, LateClaimsBounded
<1> QED
  BY <1>1, CycleInvariant, PTL

=============================================================================
