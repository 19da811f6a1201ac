CONSTANTS
  Procs = {p1}
  NoProc = NoProc
  NInodes = 3
  MaxDirs = 3
  MaxLinks = 2
  Names = {"a"}
  Paths <- OrphanPaths
  DirPaths <- OrphanDirPaths
  Types = {"T_FILE", "T_DIR"}
SPECIFICATION Spec
INVARIANT IlockFindsAType
