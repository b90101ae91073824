CONSTANTS
  Programs <- BarrierFunctions
  Compilations <- Compiled
SPECIFICATION Spec
PROPERTY BarrierDrains
CHECK_DEADLOCK FALSE
