CONSTANTS
  p1 = p1
  p2 = p2
  v1 = v1
  v2 = v2
  Proc <- TwoProcs
  Killable = {p1}
  Val <- TwoBytes
  MaxN = 2
  PIPESIZE = 2
  Wrap = 4
  None = None
  MAXARGS = 3
  Lines <- MCLines
  FileName <- MCNames
  NPROC = 6
  NOFILE = 6
  NFILE = 6
  PIPECAP = 1
  BUFSIZE = 2
  MaxLines = 2
  Jobs <- MCJobs
  BufLen = 5
  Arguments <- MCArguments
  BSIZE = 6
  NDIRECT = 1
  NINDIRECT = 2
  Underscore = 95
  Dot = 46
  DIRSIZ = 2
  IPB = 2
  NINODES = 5
  LOGSIZE = 1
  FSSIZE = 18
  BITS = 20
SPECIFICATION MCSpec
INVARIANTS NoLostWakeup NoUseAfterFree ParserRight FilesExact NobodyStuck OutputRight GrepLines ImageExact
PROPERTIES RefinesStream EndOfFile
CHECK_DEADLOCK FALSE
