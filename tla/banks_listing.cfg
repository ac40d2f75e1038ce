\* Two banks provisioned at once, and a page of one bank after the other.
SPECIFICATION ListingSpec
CONSTANTS
  Banks = {1, 2}
  NoBank = NoBank
  Requests = {r1, r2}
  Keys = {k1, k2}
  References = {n1, n2}
  Patches = {}
  None = None
  MaxFaults = 0
  MaxWindows = 0
  PageSizes = {1}
INVARIANTS
  BankPagesComplete
CHECK_DEADLOCK FALSE
