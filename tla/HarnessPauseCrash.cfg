SPECIFICATION MCSpec
CONSTANTS
  Good <- MCGood
  MaxEdits = 2
  MaxWindows = 2
  MaxIterations = 2
  StuckAfter = 2
  DiesInReport = TRUE
  CrashPoints <- MCCrashPoints
  Reports <- MCReports
  MaxDrifts = 1
INVARIANT VerifiedMeansAccepted
