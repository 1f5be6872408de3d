SPECIFICATION Spec
CONSTANTS
  Threads = {1, 2}
  Cpus = {c1, c2}
  MaxTime = 8
SYMMETRY CpuSymmetry
CHECK_DEADLOCK FALSE
PROPERTIES
  IntervalsTrue
  WakerAfterFirst
