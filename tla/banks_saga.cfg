\* Three clients provisioning and patching, with a fault and a window that runs out, under fairness.
SPECIFICATION FairSpec
CONSTANTS
  Banks = {b1, b2}
  NoBank = NoBank
  Requests = {r1, r2, r3}
  Keys = {k1}
  References = {n1}
  Patches = {"inactive"}
  None = None
  MaxFaults = 1
  MaxWindows = 1
INVARIANTS
  RoutableHasEntity
  OneBankPerKey
PROPERTIES
  ProvisioningCompletes
CHECK_DEADLOCK FALSE
