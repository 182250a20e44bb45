SPECIFICATION Spec
CONSTANTS
  Cmds = {c1}
  NoDaemon = NoDaemon
  Nothing = Nothing
  Skills <- TwoRevisions
  NgrokChoices = {TRUE, FALSE}
  MaxDeaths = 0
INVARIANTS SettingsKept
CHECK_DEADLOCK FALSE
