--------------------------- MODULE CardLifecycle ---------------------------
(***************************************************************************)
(* The card state machine of internal/domain/lifecycle.go.  It has no      *)
(* state of its own: the API commands, the batch executor and the expiry   *)
(* worker all consult the two functions below before they write a card.    *)
(***************************************************************************)

CardStates == {"pending", "issued", "active", "suspended", "closed", "expired"}

CardActions == {"activate", "suspend", "resume", "close", "expire"}

\* The status each action aims at.
TargetOf == [activate |-> "active", suspend |-> "suspended", resume |-> "active",
             close |-> "closed", expire |-> "expired"]

\* The statuses an action may leave, the already-at-target case aside.
SourcesOf == [activate |-> {"issued"}, suspend |-> {"active"}, resume |-> {"suspended"},
              close |-> {"issued", "active", "suspended"},
              expire |-> {"pending", "issued", "active", "suspended"}]

\* An action on a card that already has its target is accepted and ignored.
Transition(current, action) ==
  [target  |-> TargetOf[action],
   valid   |-> current = TargetOf[action] \/ current \in SourcesOf[action],
   ignored |-> current = TargetOf[action]]

\* A direct status change, as a batch asks for it: some action allows it.
CanTransition(current, target) ==
  \/ current = target
  \/ \E action \in CardActions :
        TargetOf[action] = target /\ Transition(current, action).valid

=============================================================================
