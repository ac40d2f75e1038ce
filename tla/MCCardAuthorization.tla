------------------------ MODULE MCCardAuthorization ------------------------
(***************************************************************************)
(* Small instances of CardAuthorization for TLC.                           *)
(***************************************************************************)
EXTENDS CardAuthorization, TLC

CONSTANTS c1, r1, r2, v1, v2

NoCards == <<>>
OneActive == c1 :> "active"
Unrelated == <<>>
Interchangeable == Permutations(Requests) \cup Permutations(Verifiers)
=============================================================================
