SPECIFICATION FairSpec
CONSTANTS
  MaxBoots = 1
  SignalBoots = {1}
  MaxLost = 1
  GoalTitles = {"g1", "fix1", "fix2"}
  Goals <- OneGoal
  QuickGoals = {}
  NoGoal = NoGoal
  NumPhases = 1
  PlanCounts <- Plans_2
  AutoCheckpoint = FALSE
  RequireCleanGit = FALSE
  VerifyCommand = TRUE
  AutoFix = TRUE
  PlanFix <- Fix_2
  QuickFix <- FullFix
  AgentOutcomes = {"done", "rejected"}
  DirMatches = {1, 2}
INVARIANTS TypeOK AtMostOneRunAfterSignal NoPlanAfterUnverified
PROPERTIES DaemonEnds ShutdownEnds
