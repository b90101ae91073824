CONSTANTS
  Objects = {program, client}
  Launchers = {client}
  Requests = {q1, q2}
  Dcoh = {q1}
  Prompt = TRUE
  None = None
  Modules <- Several
  Iters = 3
  Override = 0
  Program = program
SPECIFICATION GpuSpec
CHECK_DEADLOCK FALSE
INVARIANTS WaitsForOwn ProductsComputed
