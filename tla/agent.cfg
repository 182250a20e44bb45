SPECIFICATION FairSpec
CONSTANTS
  Agents = {"cursor", "cn", "codex"}
  MaxAttempts = 3
  HeirsLinger = FALSE
  MaxCalls = 2
  MaxBoots = 2
  MaxWrites = 1
INVARIANTS TypeOK NothingLeftRunning HeartbeatFollowsRun
PROPERTIES DoneIsHonest EveryCallAnswered ImplementsCall
