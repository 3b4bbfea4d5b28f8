SPECIFICATION WatchedSpec
CONSTANTS
  Modes = {"block", "stream"}
  MaxTurns = 3
  ReplayLimit = 1
  RecoveryLimit = 1
  Fallbacks = {TRUE, FALSE}
  Priors = {0, 4}
  MaxCalls = 2
  ToolSizes = {1, 4}
  Window = 12
  ToolBudget = 6
  KeepRecent = 1
  KeepTrailing = 3
INVARIANTS
  QuestionIsAsked
