--------------------------- MODULE MCStaffAccess ---------------------------
(***************************************************************************)
(* Small instances of AuthSession and StaffAccess for TLC.                 *)
(***************************************************************************)
EXTENDS StaffAccess, TLC

CONSTANTS b1, b2

Grant(role, bank) == [role |-> role, bank |-> bank]
IssuerOrBank == {Grant("issuer_readonly", None), Grant("bank_operator", b1)}

Interchangeable == Permutations(Requests) \cup Permutations(Passwords) \cup Permutations(Addresses)
=============================================================================
