\* One issuance whose commit is not acknowledged.
SPECIFICATION Spec
CONSTANTS
  c1 = c1  c2 = c2  c3 = c3  r1 = r1  r2 = r2  r3 = r3
  Cards = {c1}
  NoCard = NoCard
  Standing <- NoCards
  Succeeds <- Unrelated
  Requests = {r1}
  Keys = {k1}
  Bodies = {b1}
  Asked = {"issue"}
  None = None
  MaxFaults = 1
  MaxWindows = 0
INVARIANTS
  CommittedCardsKeepCredentials
CHECK_DEADLOCK FALSE
