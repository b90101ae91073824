CONSTANTS
  NRegions = 2
  Works = {5, 24}
  Kernels = {1, 17}
  Latencies = {2, 12}
  EstCompute = 3
  SimCost = 7
  Tick = 4
  Sync = 2
  Gain = 2
  MinBatch = 2
  MaxBatch = 6
  MaxDepth = 4
  MaxPipe = 5
  Inside = FALSE
  Overlap = TRUE
  SaveCrashes = TRUE
SPECIFICATION TwoPassSpec
INVARIANTS SecondPassTakes HiddenWasMeasured PlacementSurvives KnobsAgree ContentionRises
