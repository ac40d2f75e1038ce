\* A card due on the first of two days and one due on the second, two daemons, manual retries.
SPECIFICATION Spec
CONSTANTS
  First = c1  e1 = e1  e2 = e2  w1 = w1  w2 = w2
  None = None
  DueOn <- DueInTurn
  Cards = {c1, c2}
  LastDay = 2
  Executors = {e1, e2}
  Workers = {w1, w2}
  Identity <- TwoDaemons
  Commands = {}
  ScheduleBatchSize = 2
  AutomaticRetries = 1
  MaxManual = 1
  MaxFaults = 2
INVARIANTS
  ExpiredOnce RetriesBounded CompletedRunsAreSettled
PROPERTIES
  FinalIsFinal
CHECK_DEADLOCK FALSE
