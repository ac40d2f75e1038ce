\* A batch that closes a card and its successor while the successor is activated.
SPECIFICATION RowSpec
CONSTANTS
  c1 = c1  c2 = c2
  Cards = {c1, c2}
  NoCard = NoCard
  Standing <- ActiveAndIssued
  Succeeds <- SecondReplacesFirst
  Requests = {r1, r2}
  Keys = {k1}
  Bodies = {b1}
  Asked = {"activate"}
  None = None
  MaxFaults = 1
  MaxWindows = 0
  RankOf <- Uuids
  Batch = {c1, c2}
  Target = "closed"
INVARIANTS
  NoDeadlock
CHECK_DEADLOCK FALSE
