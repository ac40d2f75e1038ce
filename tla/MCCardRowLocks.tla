--------------------------- MODULE MCCardRowLocks ---------------------------
(***************************************************************************)
(* Small instances of CardRowLocks for TLC.                                *)
(***************************************************************************)
EXTENDS CardRowLocks, TLC

CONSTANTS c1, c2

ActiveAndIssued == c1 :> "active" @@ c2 :> "issued"
SecondReplacesFirst == c2 :> c1
Uuids == c1 :> 1 @@ c2 :> 2
=============================================================================
