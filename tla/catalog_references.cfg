\* Two requests for anything, an account that moves while cards are issued for it, a fault and a window that runs out.
SPECIFICATION ListingSpec
CONSTANTS
  p1 = p1  p2 = p2  k1 = k1  k2 = k2  k3 = k3  a1 = a1  a2 = a2  x = x  y = y  z = z
  Products = {p1, p2}
  Clients = {k1, k2, k3}
  Accounts = {a1, a2}
  Configurations = {x, y, z}
  Existing <- OneOfEach
  Asked <- Everything
  Requests = {r1, r2}
  Keys = {i1, i2}
  None = None
  MaxFaults = 1
  MaxWindows = 1
  IdOf <- Uuids
  PageSizes = {1, 2}
  MaxTime = 2
SYMMETRY Interchangeable
INVARIANTS
  CardsMatchAccounts
  VersionsNameConfigurations
  ReferencesCreatedOnce
  PagesComplete
CHECK_DEADLOCK FALSE
