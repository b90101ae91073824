CONSTANTS
  Sources <- Functions
  Options <- AllOptions
  Programs <- Functions4
  Compilations <- Compiled
  Planned <- PlannedFunctions
  Instances <- PassRuns
  Garbage <- AnyRest
  Word = 1048576
  MaxPasses = 3
  OutlineFirst = TRUE
SPECIFICATION CompilerSpec
CHECK_DEADLOCK FALSE
INVARIANTS MeaningKept SourceKept MarksAgree OutlineKept
PROPERTY PhaseDrains
