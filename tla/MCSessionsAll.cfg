SPECIFICATION Spec
CONSTANTS
  Calls = {a, b, c}
  Sids = {s1}
  Operations <- AccountOperations
  Policies = {"single_device"}
  FirstPolicy = "multi_device"
  Outdated = TRUE
  MaxJti = 3
  MaxPassword = 1
  None = None
SYMMETRY MCSymmetry
INVARIANTS
  RefreshOnce
  EndedStaysOut
  ReplayEndsSession
PROPERTY RevokedStaysRevoked
