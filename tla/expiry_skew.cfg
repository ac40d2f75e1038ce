\* The last two items of a run end at the same time.
SPECIFICATION Spec
CONSTANTS
  w1 = w1  w2 = w2  e1 = e1  e2 = e2  First = c1
  None = None
  DueOn <- DueOnFirstDay
  Cards = {c1, c2}
  LastDay = 1
  Executors = {e1}
  Workers = {w1, w2}
  Identity <- OneDaemon
  Commands = {}
  ScheduleBatchSize = 2
  AutomaticRetries = 1
  MaxManual = 0
  MaxFaults = 0
INVARIANTS
  SettledRunsAreCounted
CHECK_DEADLOCK FALSE
