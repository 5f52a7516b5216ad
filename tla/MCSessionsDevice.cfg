SPECIFICATION Spec
CONSTANTS
  Calls = {a, b}
  Sids = {s1, s2, s3}
  Operations <- DeviceOperations
  Policies = {"single_device"}
  FirstPolicy = "multi_device"
  Outdated = FALSE
  MaxJti = 1
  MaxPassword = 0
  None = None
SYMMETRY MCSymmetry
INVARIANTS
  SingleDevice
  UsableIsIndexed
