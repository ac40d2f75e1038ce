\* A manual retry races the completion of its run.
SPECIFICATION Spec
CONSTANTS
  w1 = w1  w2 = w2  e1 = e1  e2 = e2  First = c1
  None = None
  DueOn <- DueOnFirstDay
  Cards = {c1, c2}
  LastDay = 1
  Executors = {e1}
  Workers = {w1}
  Identity <- OneSlot
  Commands = {}
  ScheduleBatchSize = 2
  AutomaticRetries = 0
  MaxManual = 1
  MaxFaults = 1
INVARIANTS
  CompletedRunsAreExact
CHECK_DEADLOCK FALSE
