SPECIFICATION Spec
CONSTANTS
  MaxLoops = 2
  MaxProbes = 2
  ReturnMaxChars = 2
  MinExplainChars = 2
  MinTalkPct = 50
  MinCompleteness = 1
  MinOwnWords = 1
  FullScore = 1
  TalkCap = 2
  Concepts = {c1}
  None = None
  Requests = {r1}
  MonologueCap = 2
  HintChars = 1
  Utterances <- MCUtterances
  Messages <- MCMessages
INVARIANT LoopReadsBack
