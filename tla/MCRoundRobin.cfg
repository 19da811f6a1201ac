CONSTANTS
  NPROC = 3
  Cpus = {c1}
  NoCpu = NoCpu
  MaxPid = 3
SPECIFICATION RRSpec
PROPERTIES
  WaitReturns
  RunnableRuns
