\* Two cards of one run scheduled one by one, no manual retries, under fairness.
SPECIFICATION FairSpec
CONSTANTS
  w1 = w1  w2 = w2  e1 = e1  e2 = e2  First = c1
  None = None
  DueOn <- DueOnFirstDay
  Cards = {c1, c2}
  LastDay = 1
  Executors = {e1}
  Workers = {w1, w2}
  Identity <- OneDaemon
  Commands = {"close"}
  ScheduleBatchSize = 1
  AutomaticRetries = 1
  MaxManual = 0
  MaxFaults = 2
PROPERTIES
  ItemsSettle
CHECK_DEADLOCK FALSE
