CONSTANTS
  Procs = {p1, p2}
  NoProc = NoProc
  NInodes = 3
  MaxDirs = 2
  MaxLinks = 2
  Names = {"a"}
  Paths <- MCPaths
  DirPaths <- MCDirPaths
  Types = {"T_FILE", "T_DIR"}
SPECIFICATION Spec
SYMMETRY ProcSymmetry
INVARIANTS
  RefsCounted
  NothingDangles
  CopyIsCurrent
  LocksAreOrdered
