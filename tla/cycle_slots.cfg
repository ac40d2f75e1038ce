\* Two banks that share two slots, a route that changes and a restart, under fairness.
SPECIFICATION FairSpec
CONSTANTS
  b1 = b1  b2 = b2
  Banks = {b1, b2}
  SortedBanks <- TwoBanks
  MaxClaims = 2
  PerBank = 2
  Kinds = {"batch", "item"}
  MaxBacklog = 1
  MaxChanges = 1
  MaxFaults = 1
  MaxStops = 1
INVARIANTS
  CountersExact
  LateClaimsBounded
PROPERTIES
  BatchesServed
  ShutdownCompletes
