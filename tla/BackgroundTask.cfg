SPECIFICATION FairSpec
CONSTANTS
  Clients = {c1, c2}
  Watcher = c1
  MaxNotes = 1
  MaxCancels = 1
INVARIANT RecordIsTrue
PROPERTY DeadIsNoticed
CHECK_DEADLOCK FALSE
