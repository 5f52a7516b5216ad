SPECIFICATION Spec
CONSTANTS
  MaxLoops = 1
  MaxProbes = 1
  ReturnMaxChars = 2
  MinExplainChars = 2
  MinTalkPct = 50
  MinCompleteness = 1
  MinOwnWords = 1
  FullScore = 1
  TalkCap = 1
  Concepts = {c1}
  None = None
  Requests = {r1, r2}
  MonologueCap = 2
  HintChars = 1
  Utterances <- PairUtterances
  Messages <- PairMessages
INVARIANTS
  ChannelLegal
  CreditedOnce
  EscapeWasAsked
PROPERTY CardIsSaved
SYMMETRY PairSymmetry
