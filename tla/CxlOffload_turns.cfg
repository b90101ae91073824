SPECIFICATION FairSpec
CONSTANTS
  Hosts = {h1, h2}
  Lines = {l1, l2}
  JobIds = {"CALL", "INSTALL_CACHELINE"}
  MaxSeq = 2
  Overlap = FALSE
  SelfSignal = FALSE
  Timeouts = FALSE
  Leftover = 0
CHECK_DEADLOCK FALSE
INVARIANTS IInv OwnArgs AtMostOnce NoEarlyCompletion VerdictSound
PROPERTIES EveryJobCompletes ContractSpec
