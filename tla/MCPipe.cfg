CONSTANTS
  Procs = {p1, p2}
  Creator = p1
  NoProc = NoProc
  Bytes = {0, 1}
  PIPESIZE = 2
  UINT = 4
  MaxWrite = 3
  MaxRead = 2
SPECIFICATION FairSpec
CHECK_DEADLOCK FALSE
INVARIANTS
  FreedIsUnused
PROPERTIES
  StreamSpec
  ClosesAreSeen
