SPECIFICATION Spec
CONSTANTS
  Calls = {a, b}
  Capacity = 2
  Refill = 1
  Cost = 2
  Slack = 1
  Skews <- MCSkews
  PerDay = 1
  Day = 3
  CodeTtl = 2
  MaxBack = 2
  MaxDeaths = 1
  Forever = Forever
  None = None
INVARIANTS
  BucketHolds
  CodeUsesBounded
PROPERTIES
  CodeKeptUntilUsed
  ServesAgain
