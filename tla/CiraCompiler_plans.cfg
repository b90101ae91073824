CONSTANTS
  Sources <- NoFunctions
  Options <- AllOptions
  Programs <- NoFunctions
  Compilations <- Compiled
  Planned <- AnyFunctions
  Instances <- PassRuns
  Garbage <- AnyRest
  Word = 1048576
  MaxPasses = 3
  OutlineFirst = FALSE
SPECIFICATION CompilerSpec
INVARIANT HoistReady TransfersExist TripsReal MarksAgree
CHECK_DEADLOCK FALSE
