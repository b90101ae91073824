SPECIFICATION Spec
CONSTANTS
  Waiters = {w1}
  MaxFlag = 3
  SpinBudget = 2
  Family = "x86"
  Features = {"WAITPKG", "MONITORX"}
  Settings = {"", "mwaitx", "wfe"}
  Forced = {"TPAUSE", "WFE"}
CHECK_DEADLOCK FALSE
INVARIANT PayloadVisible
PROPERTIES ReadyReturns TimedReturns
