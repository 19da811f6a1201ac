CONSTANTS
  Procs = {p1, p2}
  Blocks = {k1, k2, k3, k4}
  NoBlock = NoBlock
  Bufs = {b1, b2, b3}
  NoBuf = NoBuf
  MaxPins = 1
  NUMs = {4, 7}
  Laps = 1
SPECIFICATION Spec
SYMMETRY IoSymmetry
INVARIANTS
  ReadsLastWrite
  
  SleepersAreNeeded
