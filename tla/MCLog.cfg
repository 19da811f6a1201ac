CONSTANTS
  Ops = {p1, p2, p3}
  Few = {p1, p2}
  Zero = 0
  Blocks = {b1, b2, b3}
  Vals = {0, 1}
  NotCached = NotCached
  NoBlock = NoBlock
  MAXOPBLOCKS = 2
  LOGSIZE = 4
  NLOG = 4
  OpBlocks = 1
SPECIFICATION MCSpec
INVARIANTS
  QuietIsDurable
  NeverPanics
PROPERTIES
  AtomicSpec
  SleeperWakes
