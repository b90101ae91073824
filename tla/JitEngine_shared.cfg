CONSTANTS
  Threads = {t1, t2}
  shared = shared
  own = own
  Engines = {shared, own}
  Specs <- PlainSpecs
  Versions <- Sources
  Symbols = {"hook"}
  Exports = {"mmio", "wait"}
  Step = 4
  MaxResets = 1
  QuietResets = TRUE
  Bases = {64, 128}
  FixedBase = 32
  Environs <- LegacyPath
  MaxOpens = 1
  OnDevice <- OfDevice
  QuietWindows = TRUE
SYMMETRY Swap
SPECIFICATION DeviceSpec
INVARIANTS CodeFits NeverRefused DeviceReached
