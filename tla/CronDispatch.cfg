SPECIFICATION Spec
CONSTANTS
  Dispatchers = {d1, d2}
  Editors = {e1}
  Job <- MCJob
  Seeds <- MCSeeds
  Moments <- MCMoments
  TaskIds = {t1, t2}
  None = None
  MaxTicks = 3
  MaxEdits = 1
  MaxKills = 1
INVARIANTS Serialized NewsAreTold
PROPERTY DueIsCron
CHECK_DEADLOCK FALSE
