\* A patch sent twice under one key.
SPECIFICATION Spec
CONSTANTS
  Banks = {b1}
  NoBank = NoBank
  Requests = {r1, r2, r3}
  Keys = {k1}
  References = {n1}
  Patches = {"inactive"}
  None = None
  MaxFaults = 0
  MaxWindows = 0
INVARIANTS
  PatchAppliedOnce
CHECK_DEADLOCK FALSE
