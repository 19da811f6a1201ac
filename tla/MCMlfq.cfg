CONSTANTS
  NPROC = 3
  Cpus = {c1}
  NoCpu = NoCpu
  MaxPid = 3
  NQ = 2
  AGE_LIMIT = 1
SPECIFICATION FairMlfqSpec
 
PROPERTY StarvedOnlyBySleepers
