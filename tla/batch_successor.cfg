\* A batch activates a replacement card.
SPECIFICATION Spec
CONSTANTS
  c1 = c1  c2 = c2  w1 = w1  w2 = w2  e1 = e1  e2 = e2
  bank = bank  otherBank = otherBank
  Cards = {c1, c2}
  Predecessor <- Replacement
  NoCard = NoCard
  Batches = {b1}
  Users = {u1}
  UserRows <- JustOperator
  Bank = bank
  Executors = {e1}
  Workers = {w1}
  Identity <- OneSlot
  None = None
  Targets = {"active"}
  Commands = {"activate"}
  BatchMaxAttempts = 2
  BatchSizeCap = 2
  MaxFaults = 2
  MaxHistory = 1
INVARIANTS
  SuccessorReplacesPredecessor
CHECK_DEADLOCK FALSE
