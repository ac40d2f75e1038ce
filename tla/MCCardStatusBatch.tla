------------------------- MODULE MCCardStatusBatch -------------------------
(***************************************************************************)
(* Small instances of CardStatusBatch for TLC.                             *)
(***************************************************************************)
EXTENDS CardStatusBatch, TLC

CONSTANTS c1, c2, w1, w2, e1, e2, bank, otherBank

\* Who the slots belong to: two daemons, or two goroutines of one.
TwoDaemons == w1 :> e1 @@ w2 :> e2
OneDaemon == w1 :> e1 @@ w2 :> e1
OneSlot == w1 :> e1

\* c2 is the replacement of c1; or the two cards are unrelated.
Replacement == c1 :> NoCard @@ c2 :> c1
Unrelated == [c \in Cards |-> NoCard]

Operator == [status |-> "enabled", role |-> "bank_operator", entity |-> bank]
Issuer == [status |-> "enabled", role |-> "issuer_operator", entity |-> None]
Foreign == [status |-> "enabled", role |-> "bank_operator", entity |-> otherBank]
Viewer == [status |-> "enabled", role |-> "viewer", entity |-> bank]
Disabled == [status |-> "disabled", role |-> "bank_operator", entity |-> bank]
Missing == [status |-> "missing", role |-> "bank_operator", entity |-> bank]

AllRows == {Operator, Issuer, Foreign, Viewer, Disabled, Missing}
OnOff == {Operator, Disabled}
JustOperator == {Operator}
=============================================================================
