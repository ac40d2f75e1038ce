\* One bank with the limits of compose.yaml: four slots, one per bank.
SPECIFICATION FairSpec
CONSTANTS
  b1 = b1  b2 = b2
  Banks = {b1}
  SortedBanks <- OneBank
  MaxClaims = 4
  PerBank = 1
  Kinds = {"batch", "item"}
  MaxBacklog = 1
  MaxChanges = 0
  MaxFaults = 0
  MaxStops = 0
PROPERTIES
  ItemsServed
