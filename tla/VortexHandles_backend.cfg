\* Four blocks, two ids of each kind, argument allocations may fail; arguments
\* as the backend lays them out (alignment 8 throughout).
CONSTANTS
  Blocks = {b1, b2, b3, b4}
  MaxId = 2
  Layouts <- ArgumentSizes
  MixedLayouts <- AnyLayouts
  ArgNames <- NamesOne
  AllocFails = TRUE
SYMMETRY BlockSymmetry
SPECIFICATION Spec
INVARIANTS BlocksOwned ArgumentsFit
