CONSTANTS
  Proc <- MCProc
  Inode <- MCInode
  File <- MCFile
  ip <- MCip
  uses <- MCuses
  bytes <- MCbytes
  old = "x"
  NBLOCKS = 10
  BSIZE = 2
  NDIRECT = 1
  NINDIRECT = 3
  BPB = 2
  MAXOPBLOCKS = 10
  MaxTrunc = 1
  None = None
SPECIFICATION Spec
INVARIANTS BlocksExact ReadiReads
PROPERTY WriteiWrites
