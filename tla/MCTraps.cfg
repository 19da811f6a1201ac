SPECIFICATION TrapsOrTimes
SYMMETRY ThreadSymmetry
CONSTANTS
  NCPU = 2
  Threads = {t1, t2}
  NPROC = 2
  Cpus = {c0, c1}
  Cpu0 = c0
  Args = {2}
  MaxPid = 3
  MaxTicks = 2
  MaxRuns = 2
INVARIANTS
  TrapsNeverPanic
  TrapsReturnExactly
  InterruptsBalanced
  
 
