---------------------------- MODULE MCExpiryRun ----------------------------
(***************************************************************************)
(* Small instances of ExpiryRun for TLC.                                   *)
(***************************************************************************)
EXTENDS ExpiryRun, TLC

CONSTANTS w1, w2, e1, e2, First

TwoDaemons == w1 :> e1 @@ w2 :> e2
OneDaemon == w1 :> e1 @@ w2 :> e1
OneSlot == w1 :> e1

DueOnFirstDay == [c \in Cards |-> 1]
DueInTurn == [c \in Cards |-> IF c = First THEN 1 ELSE 2]
=============================================================================
