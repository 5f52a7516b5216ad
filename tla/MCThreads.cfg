SPECIFICATION ThreadsSpec
CONSTANTS
  Accounts = {a, b}
  ThreadIds = {t}
  Handlers = {r1, r2}
  MaxLives = 2
  None = None
SYMMETRY Symmetry
INVARIANT OwnConversation
PROPERTY GivenTitleStays
CHECK_DEADLOCK FALSE
