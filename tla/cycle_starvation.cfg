\* Two banks that share one slot.
SPECIFICATION FairSpec
CONSTANTS
  b1 = b1  b2 = b2
  Banks = {b1, b2}
  SortedBanks <- TwoBanks
  MaxClaims = 1
  PerBank = 1
  Kinds = {"batch"}
  MaxBacklog = 1
  MaxChanges = 0
  MaxFaults = 0
  MaxStops = 0
PROPERTIES
  BusyBanksLeaveRoom
