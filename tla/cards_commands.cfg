\* Two requests for any command on an active card and its issued successor; two faults and a window that runs out.
SPECIFICATION Spec
CONSTANTS
  c1 = c1  c2 = c2  c3 = c3  r1 = r1  r2 = r2  r3 = r3
  Cards = {c1, c2, c3, c4}
  NoCard = NoCard
  Standing <- ActiveAndIssued
  Succeeds <- SecondReplacesFirst
  Requests = {r1, r2}
  Keys = {k1, k2}
  Bodies = {b1, b2}
  Asked = {"issue", "replace", "activate", "suspend", "close", "resume"}
  None = None
  MaxFaults = 2
  MaxWindows = 1
SYMMETRY Interchangeable
INVARIANTS
  CommandTakesEffectOnce
  CredentialsAccounted
  OneCardInPlace
  TrailConnected
  SomeoneCanProceed
PROPERTY
  ImplementsAtomicCommand
CHECK_DEADLOCK FALSE
