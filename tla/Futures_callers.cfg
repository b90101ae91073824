SPECIFICATION FairSpec
CONSTANTS
  Threads = {"t1", "t2"}
  Lines = {1, 2}
  Timeouts = FALSE
  WaitInSubmit = {FALSE, TRUE}
  Disciplined = TRUE
INVARIANTS DeviceLive BarrierCovers
PROPERTY BarrierReturns
