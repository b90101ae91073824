SPECIFICATION BTreeSpec
CONSTANTS
  Size = 4
  Tasks = 5
  MaxKeys = 5
  Prompt = TRUE
CHECK_DEADLOCK FALSE
INVARIANT CompletionsApplied
PROPERTY TasksComplete
