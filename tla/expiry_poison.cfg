\* A card with open items in two runs.
SPECIFICATION FairSpec
CONSTANTS
  w1 = w1  w2 = w2  e1 = e1  e2 = e2  First = c1
  None = None
  DueOn <- DueOnFirstDay
  Cards = {c1}
  LastDay = 2
  Executors = {e1}
  Workers = {w1}
  Identity <- OneSlot
  Commands = {}
  ScheduleBatchSize = 2
  AutomaticRetries = 1
  MaxManual = 0
  MaxFaults = 1
PROPERTIES
  ItemsSettle
CHECK_DEADLOCK FALSE
