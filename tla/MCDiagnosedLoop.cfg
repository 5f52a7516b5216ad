SPECIFICATION DiagnosedSpec
CONSTANTS
  MaxLoops = 2
  MaxProbes = 2
  ReturnMaxChars = 4
  MinExplainChars = 1
  MinTalkPct = 50
  MinCompleteness = 5
  MinOwnWords = 6
  FullScore = 10
  TalkCap = 1
  Concepts = {c}
  None = None
  Terms = {"term"}
  AtomIds <- MCAtomIds
  DependsOn <- MCDependsOn
  States <- MCStates
  Verified <- MCVerified
  Refs <- MCRefs
  BundleMaxChars = 3
  Sayings <- MCSayings
  Statements <- MCItems
  Grades <- MCGrades
  ExplainSizes = {1}
  SystemSizes = {0}
  Reports <- DetectorReports
INVARIANTS VerdictsPartOnScores ClosedWasExplained SupplyLeadsOn
CHECK_DEADLOCK FALSE
