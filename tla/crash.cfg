SPECIFICATION Spec
CONSTANTS
  MaxBoots = 3
  SignalBoots = {}
  MaxLost = 0
  GoalTitles = {"g1"}
  Goals <- OneGoal
  QuickGoals = {}
  NoGoal = NoGoal
  NumPhases = 2
  PlanCounts <- Plans_2_1
  AutoCheckpoint = FALSE
  RequireCleanGit = FALSE
  VerifyCommand = TRUE
  AutoFix = FALSE
  PlanFix <- AnyFix_2_1
  QuickFix <- FullFix
  AgentOutcomes = {"done", "timeout"}
  DirMatches = {1}
INVARIANTS DoneNotRepeated EntriesPaired AdvancesLegal PlansInOrder PhasesInOrder CompleteCoversPlans
PROPERTIES ImplementsLedger
