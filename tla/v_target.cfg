SPECIFICATION Spec
CONSTANTS
  MaxBoots = 2
  SignalBoots = {}
  MaxLost = 0
  GoalTitles = {"g1"}
  Goals <- OneGoal
  QuickGoals = {}
  NoGoal = NoGoal
  NumPhases = 2
  PlanCounts <- Plans_1_1
  AutoCheckpoint = FALSE
  RequireCleanGit = FALSE
  VerifyCommand = FALSE
  AutoFix = FALSE
  PlanFix <- AnyFix_1_1
  QuickFix <- FullFix
  AgentOutcomes = {"done"}
  DirMatches = {1}
INVARIANTS ResumeTargetExists
