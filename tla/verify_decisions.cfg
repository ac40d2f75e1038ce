\* Two verifications beside the issuance, activation and closing of a card, with one fault.
SPECIFICATION AuthSpec
CONSTANTS
  c1 = c1  r1 = r1  r2 = r2  v1 = v1  v2 = v2
  Cards = {c1}
  NoCard = NoCard
  Standing <- NoCards
  Succeeds <- Unrelated
  Requests = {r1, r2}
  Keys = {k1}
  Bodies = {b1, b2}
  Asked = {"issue", "activate", "close"}
  None = None
  MaxFaults = 1
  MaxWindows = 0
  Verifiers = {v1, v2}
  References = {t1, t2}
SYMMETRY Interchangeable
INVARIANTS
  OneDecisionPerReference
  ApprovalIsEarned
  VerifiersCanProceed
CHECK_DEADLOCK FALSE
