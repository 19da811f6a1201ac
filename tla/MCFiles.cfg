CONSTANTS
  Procs = {p1, p2}
  NOFILE = 3
  NFILE = 3
  NPIPE = 1
  Writers = {p1, p2}
  Files = {1, 2}
  Inums = {1, 2}
  NBLOCKS = 8
  BPB = 5
  IPB = 16
  BSIZE = 2
  NDIRECT = 1
  NINDIRECT = 2
  MAXOPBLOCKS = 6
  Lengths = {1, 5}
  MaxChanges = 3
  NPAGES = 20
  NPROC = 2
  FAN = 3
  PGSIZE = 2
  UINTMAX = 64
  MAXARG = 1
  Increments = {1, 3, 5}
  Vaddrs = {0, 3}
  Memszs = {0, 3, 5}
  Lines <- MCLines
  MAXARGS = 3
  NFD = 6
  NALLOC = 4
  Units = {1, 2, 5}
  Limit = 11
  BufSize = 5
  PAGE = 2
  Pages = 3
  WORD = 2
  ADDRESSES = 16
  DIRSIZ = 2
  MaxPath = 6
  INT_MAX = 127
  BASE = 10
  BUF = 5
  Jobs <- MCJobs
SPECIFICATION Spec
SYMMETRY ProcSymmetry
INVARIANTS
  FilesCounted
  BlockMapIsExact
  WriteFitsTransaction
  PagesAccounted
  ImageIsMapped
  ParsesByPrecedence
  PipelineIsWired
  HeapIsExact
  AnswersAreExact
  FiltersIgnorePieces
