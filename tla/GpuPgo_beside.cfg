CONSTANTS
  Objects = {program, client}
  Launchers = {client}
  Requests = {q1, q2}
  Dcoh = {q1}
  Prompt = FALSE
  None = None
  Modules <- WithGeneric
  Iters = 3
  Override = 0
  Program = program
SPECIFICATION GpuSpec
INVARIANTS WaitsForOwn DoneMeansRun CompletionGoesHome TilesFit OffloadedAreEmitted DeviceMemoryMapped
CHECK_DEADLOCK FALSE
