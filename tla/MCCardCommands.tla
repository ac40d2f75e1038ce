--------------------------- MODULE MCCardCommands ---------------------------
(***************************************************************************)
(* Small instances of CardCommands for TLC.                                *)
(***************************************************************************)
EXTENDS CardCommands, TLC

CONSTANTS c1, c2, c3, r1, r2, r3

OneActive == c1 :> "active"
ActiveAndIssued == c1 :> "active" @@ c2 :> "issued"
NoCards == <<>>
Unrelated == <<>>
SecondReplacesFirst == c2 :> c1
Interchangeable == Permutations(Requests) \cup Permutations(Keys) \cup Permutations(Bodies)
=============================================================================
