CONSTANTS
  None = None
  Proc = {p1, p2}
  Block = {b1, b2, b3}
  Val = {0, 1}
  InitVal = 0
  LOGSIZE = 4
  MAXOPBLOCKS = 2
  OpBlocks = 1
  LogBlocks = 4
SPECIFICATION FairSpec
INVARIANTS CommitAlone
PROPERTIES CrashAtomic Progress
