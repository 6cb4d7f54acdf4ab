SPECIFICATION FairSpec
CONSTANTS
  Batches <- MCBatches
  Configs <- MCConfigs
  Models = 2
  MaxIterations = 4
  HardLimit = 2
  MaxFailures = 2
  MaxGateRetries = 1
  MaxEvalRetries = 1
INVARIANTS Sequenced ReportIsTrue
PROPERTY TaskEnds
CHECK_DEADLOCK FALSE
