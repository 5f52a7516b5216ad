SPECIFICATION Spec
CONSTANTS
  MaxLoops = 3
  MaxProbes = 2
  ReturnMaxChars = 4
  MinExplainChars = 2
  MinTalkPct = 50
  MinCompleteness = 8
  MinOwnWords = 6
  FullScore = 10
  TalkCap = 3
  Concepts = {c1, c2}
  None = None
  ExplainSizes <- MCExplainSizes
  SystemSizes <- MCSystemSizes
  Reports <- MCReports
INVARIANTS
  TypeOK
  LoopBudget
  GapBookkeeping
  SupplyWithinBudget
  ClosedOnEvidence
PROPERTIES
  PhaseSettles
  KeepsPromise
