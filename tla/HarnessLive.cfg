SPECIFICATION MCFairSpec
CONSTANTS
  Good <- MCGood
  MaxEdits = 1
  MaxWindows = 2
  MaxIterations = 1
  StuckAfter = 2
  DiesInReport = TRUE
  CrashPoints <- MCCrashPoints
  Reports <- MCFewReports
  MaxDrifts = 1
PROPERTY MCEverythingStops
