CONSTANTS
  Threads = {t1, t2}
  shared = shared
  own = own
  Engines = {shared, own}
  Specs <- OddSpecs
  Versions <- Sources
  Symbols = {"hook", "mmio"}
  Exports = {"mmio", "wait"}
  Step = 4
  MaxResets = 1
  QuietResets = FALSE
  Bases = {64, 128}
  FixedBase = 32
  Environs <- Emulation
  MaxOpens = 1
  OnDevice <- OfDevice
  QuietWindows = FALSE
SYMMETRY Swap
SPECIFICATION DeviceSpec
INVARIANT TargetReady FreshCode LookupFinds OnlyAsked DeviceReached
