\* Two batches over a card and its replacement, two goroutines of one daemon.
SPECIFICATION Spec
CONSTANTS
  c1 = c1  c2 = c2  w1 = w1  w2 = w2  e1 = e1  e2 = e2
  bank = bank  otherBank = otherBank
  Cards = {c1, c2}
  Predecessor <- Replacement
  NoCard = NoCard
  Batches = {b1, b2}
  Users = {u1}
  UserRows <- JustOperator
  Bank = bank
  Executors = {e1}
  Workers = {w1, w2}
  Identity <- OneDaemon
  None = None
  Targets = {"closed"}
  Commands = {"activate", "expire"}
  BatchMaxAttempts = 1
  BatchSizeCap = 2
  MaxFaults = 0
  MaxHistory = 1
INVARIANTS
  HistoryChains RetryChainAppliesOnce
CHECK_DEADLOCK FALSE
