SPECIFICATION FairSpec
CONSTANTS
  Texts = {f1, f2}
  Policies <- MCPolicies
  MaxIterations = 2
  StuckAfter = 2
  ErrorLimit = 2
  MaxWindows = 3
  MaxEdits = 1
INVARIANTS WorkBudget VerifiedIsFresh NoWorkWithoutConsent ClaimWithdrawn
PROPERTY WindowEnds
CHECK_DEADLOCK FALSE
