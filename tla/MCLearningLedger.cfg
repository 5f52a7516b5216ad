SPECIFICATION Spec
CONSTANTS
  Accounts = {a1}
  Requests = {r1, r2}
  Concepts = {c1, c2}
  Keys = {k1, k2}
  Payloads <- MCPayloads
  Evidence <- MCEvidence
  Alpha = 6
  Unit = 10
  Scale = 100
  Fade = 2
  WhyDepth = 1
  EdgeWeight = 1
  QueueLimit = 1
  MaxId = 3
  MaxDay = 2
  MaxEvidence = 2
  None = None
SYMMETRY MCSymmetry
INVARIANTS
  TypeOK
  GraphIsWhole
  LinesAreEarned
  LineIsItsEvidence
  NoEvidenceInvented
  PagesAgree
