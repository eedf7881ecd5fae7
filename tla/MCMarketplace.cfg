SPECIFICATION Spec
CONSTANTS
  Zips = {z}
  Urls = {u}
  Handlers = {h1, h2}
  Writers = {w1, w2}
  Signatures = {s1}
  Nonces = {n1, n2}
  SignedBy <- OneSignature
  Fees = {f1}
  Pays = {p1}
  NoLeg = NoLeg
  FeeActive = TRUE
  Budget = 1
  MaxVersion = 2
  MaxCrashes = 1
SYMMETRY Symmetry
INVARIANTS BudgetHolds SignatureOnce SettledIsEvidenced TokenServes
CHECK_DEADLOCK FALSE
