\* Two commands for one card, of which the later one has the lock first.
SPECIFICATION RowSpec
CONSTANTS
  c1 = c1  c2 = c2
  Cards = {c1, c2}
  NoCard = NoCard
  Standing <- ActiveAndIssued
  Succeeds <- SecondReplacesFirst
  Requests = {r1, r2}
  Keys = {k1}
  Bodies = {b1}
  Asked = {"suspend", "close"}
  None = None
  MaxFaults = 0
  MaxWindows = 0
  RankOf <- Uuids
  Batch = {c1, c2}
  Target = "closed"
INVARIANTS
  HistoryReadsInOrder
CHECK_DEADLOCK FALSE
