CONSTANTS
  NPROC = 2
  Cpus = {c0, c1}
  Cpu0 = c0
  Args = {1, 2}
  MaxPid = 3
  MaxTicks = 2
  MaxRuns = 3
SPECIFICATION Spec
PROPERTY SetsThePriority
CHECK_DEADLOCK FALSE
