SPECIFICATION FairSpec
CONSTANTS
  MaxBoots = 1
  SignalBoots = {}
  MaxLost = 1
  GoalTitles = {"q", "g1", "fixq"}
  Goals <- QuickThenFull
  QuickGoals = {"q"}
  NoGoal = NoGoal
  NumPhases = 0
  PlanCounts <- Plans_none
  AutoCheckpoint = FALSE
  RequireCleanGit = TRUE
  VerifyCommand = TRUE
  AutoFix = TRUE
  PlanFix <- NoFix
  QuickFix <- FixOfQuick
  AgentOutcomes = {"done", "rejected"}
  DirMatches = {0}
PROPERTIES DaemonEnds
