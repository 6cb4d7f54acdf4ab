SPECIFICATION MCSpec
CONSTANTS
  Items = {"a", "b"}
  Interval = 2
  MaxRalphIterations = 4
  MaxRetry = 3
  Chain <- MCChain
  Available = {"m2", "m3"}
  Model = "m1"
  Starts = 2
  Writes = 2
  Ids = {1, 2, 3}
  MaxSubtasks = 3
  MaxParallel = 2
INVARIANTS RunIsAccounted TeamIsOrderly
PROPERTY MCRalphWorks
\* A run that is over stays over.
CHECK_DEADLOCK FALSE
