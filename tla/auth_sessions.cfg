\* Three handlers for one user with one session, against staff changes and time.
SPECIFICATION AccessSpec
CONSTANTS
  b1 = b1  b2 = b2
  Users = {u1}
  Sessions = {s1}
  Tokens = {t1, t2}
  Requests = {q1, q2, q3}
  Passwords = {p1, p2}
  Roles <- IssuerOrBank
  None = None
  MaxFaults = 1
  MaxChanges = 1
  Banks = {b1, b2}
  Addresses = {a1, a2}
  Limit = 2
  Period = 1
  MaxAddresses = 1
  AccessLifetime = 1
  MaxTime = 1
SYMMETRY Interchangeable
INVARIANTS
  LiveSessionsMatchUser
  FamilyIsChain
  AuthorityWasHeld
  RefusalsJustified
PROPERTIES
  DeadFamiliesStayDead
CHECK_DEADLOCK FALSE
