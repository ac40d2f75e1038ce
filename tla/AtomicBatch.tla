---------------------------- MODULE AtomicBatch ----------------------------
(***************************************************************************)
(* What a card-status batch promises its requester, with no leases, no     *)
(* workers and no transactions: a submitted batch stays open until it is   *)
(* settled once, either by moving every one of its cards to the target in  *)
(* a single step or by leaving all of them alone.  Card commands and       *)
(* expiry move single cards in between (an activation may also close the   *)
(* card it replaces).  CardStatusBatch is shown to implement this module.  *)
(***************************************************************************)
EXTENDS CardLifecycle

CONSTANTS Cards, Batches, Predecessor, NoRequest

VARIABLES card,    \* status of each card
          phase,   \* what the requester can observe of each batch
          wanted   \* NoRequest, or the target and the cards of the batch

Phases == {"none", "open", "applied", "rejected"}

Init ==
  /\ card \in [Cards -> CardStates]
  /\ phase = [b \in Batches |-> "none"]
  /\ wanted = [b \in Batches |-> NoRequest]

Submit(b) ==
  /\ phase[b] = "none"
  /\ \E target \in CardStates, items \in SUBSET Cards :
        wanted' = [wanted EXCEPT ![b] = [target |-> target, items |-> items]]
  /\ phase' = [phase EXCEPT ![b] = "open"]
  /\ UNCHANGED card

Apply(b) ==
  /\ phase[b] = "open"
  /\ \A c \in wanted[b].items : CanTransition(card[c], wanted[b].target)
  /\ card' = [c \in Cards |-> IF c \in wanted[b].items THEN wanted[b].target ELSE card[c]]
  /\ phase' = [phase EXCEPT ![b] = "applied"]
  /\ UNCHANGED wanted

Reject(b) ==
  /\ phase[b] = "open"
  /\ phase' = [phase EXCEPT ![b] = "rejected"]
  /\ UNCHANGED <<card, wanted>>

MoveCard(c) ==
  /\ \E target \in CardStates :
        /\ CanTransition(card[c], target)
        /\ \/ card' = [card EXCEPT ![c] = target]
           \/ /\ target = "active"
              /\ Predecessor[c] \in Cards
              /\ CanTransition(card[Predecessor[c]], "closed")
              /\ card' = [card EXCEPT ![c] = "active", ![Predecessor[c]] = "closed"]
  /\ UNCHANGED <<phase, wanted>>

Next ==
  \/ \E b \in Batches : Submit(b) \/ Apply(b) \/ Reject(b)
  \/ \E c \in Cards : MoveCard(c)

Spec == Init /\ [][Next]_<<card, phase, wanted>>

=============================================================================
