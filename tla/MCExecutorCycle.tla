-------------------------- MODULE MCExecutorCycle --------------------------
(***************************************************************************)
(* Small instances of ExecutorCycle for TLC.                               *)
(***************************************************************************)
EXTENDS ExecutorCycle

CONSTANTS b1, b2

TwoBanks == <<b1, b2>>
OneBank == <<b1>>
=============================================================================
