\* Every kind of requester row, an oversize batch, routes that come and go, two faults, under fairness.
SPECIFICATION FairSpec
CONSTANTS
  c1 = c1  c2 = c2  w1 = w1  w2 = w2  e1 = e1  e2 = e2
  bank = bank  otherBank = otherBank
  Cards = {c1, c2}
  Predecessor <- Unrelated
  NoCard = NoCard
  Batches = {b1}
  Users = {u1}
  UserRows <- AllRows
  Bank = bank
  Executors = {e1}
  Workers = {w1}
  Identity <- OneSlot
  None = None
  Targets = {"suspended"}
  Commands = {}
  BatchMaxAttempts = 2
  BatchSizeCap = 1
  MaxFaults = 2
  MaxHistory = 1
PROPERTIES
  AppliedOnlyIfAuthorized DispatchedIsSettled
CHECK_DEADLOCK FALSE
