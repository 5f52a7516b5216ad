SPECIFICATION Spec
CONSTANTS
  Attempts = {a, b}
  MaxFailures = 2
  CaptchaThreshold = 1
  FailWindow = 2
  LockBase = 1
  LockMax = 2
  LockMemory = 4
  MaxLocks = 2
  MaxDeaths = 1
  Forever = Forever
  None = None
INVARIANTS
  GuardIsExact
  GuessesBounded
PROPERTY Forgets
