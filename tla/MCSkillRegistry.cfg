SPECIFICATION RegistrySpec
CONSTANTS
  Skills = {s}
  Versions = {"absent", "public", "permission", "raises"}
  Callers <- MCCallers
  Calls = {a, b}
  None = None
SYMMETRY MCSymmetry
INVARIANTS
  FreshReads
  FilesWereAllowed
  FailuresHaveCause
