SPECIFICATION FairSpec
CONSTANTS
  Hosts = {h1}
  Lines = {l1, l2}
  JobIds = {"CALL", "INSTALL_CACHELINE"}
  MaxSeq = 2
  Overlap = TRUE
  SelfSignal = TRUE
  Timeouts = TRUE
  Leftover = 0
CHECK_DEADLOCK FALSE
INVARIANTS ArgsNeverStale RunsRightJob
PROPERTIES MirrorMonotone LastJobRuns
