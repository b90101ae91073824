SPECIFICATION Spec
CONSTANTS
  NumLines = 2
  Val = {0, 1}
  Offsets = {0}
  LoadSizes = {2}
  StoreSizes = {1, 2}
  Revive = FALSE
  DelaysFirst = FALSE
  DefaultDepth = 2
  Depths = {3}
INVARIANTS LoadsNewest NothingLost
