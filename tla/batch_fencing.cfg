\* One batch of up to two cards, two daemons, two faults.
SPECIFICATION Spec
CONSTANTS
  c1 = c1  c2 = c2  w1 = w1  w2 = w2  e1 = e1  e2 = e2
  bank = bank  otherBank = otherBank
  Cards = {c1, c2}
  Predecessor <- Unrelated
  NoCard = NoCard
  Batches = {b1}
  Users = {u1}
  UserRows <- JustOperator
  Bank = bank
  Executors = {e1, e2}
  Workers = {w1, w2}
  Identity <- TwoDaemons
  None = None
  Targets = {"suspended"}
  Commands = {"suspend"}
  BatchMaxAttempts = 2
  BatchSizeCap = 2
  MaxFaults = 2
  MaxHistory = 1
INVARIANTS
  FencedTransactions AttemptsAccounted AllOrNothing AppliedExactlyOnce
PROPERTIES
  TerminalImmutable ImplementsAtomicBatch
CHECK_DEADLOCK FALSE
