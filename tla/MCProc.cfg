CONSTANTS
  NPROC = 3
  Cpus = {c1, c2}
  NoCpu = NoCpu
  MaxPid = 4
SPECIFICATION Spec
SYMMETRY CpuSymmetry
INVARIANTS
  OneCpuPerProcess
  SchedNeverPanics
  NoLostWakeup
  WaitSeesEveryChild
