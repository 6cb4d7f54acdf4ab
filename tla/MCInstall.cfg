SPECIFICATION MCSpec
CONSTANTS
  Assets = {"x", "y"}
  Tier <- MCTier
  Seconds = {0, 1}
  Requests = {"minimal", "full"}
  Ops = 3
  Edits = 1
  Windows = {"w1", "w2"}
  Ver <- MCVer
  Cmds = 3
  Hand = 2
  PluginCmds = 4
INVARIANTS UninstallIsClean PluginIsBacked
PROPERTIES UserEntriesSurvive SkillIsSafe
\* The bounds on commands and changes end every behaviour.
CHECK_DEADLOCK FALSE
