CONSTANTS
  c1 = c1
  c2 = c2
  p1 = p1
  p2 = p2
  l1 = l1
  l2 = l2
  CPU <- MCCPU
  Proc <- MCProc
  Lock <- MCLock
  PT = l2
  Rank <- MCRank
  NoCpu = NoCpu
  NoFrame = NoFrame
  Locker = {t1, t2, t3, t4}
  None = None
  Sleeper = {s1, s2}
  TickWrap = 3
  MaxTicks = 4
  Nobody = Nobody
  Reader = {r1, r2}
  Killable = {r1}
  Letter = {"a"}
  Text <- MCText
  INPUT_BUF = 3
  IndexWrap = 6
  COLS = 2
  ROWS = 4
  StartIndex = 4
  StartPos = {5}
  MaxRead = 2
  MaxKeys = 5
  MaxTexts = 1
  Noone = Noone
SPECIFICATION MCSpec
SYMMETRY Symmetry
INVARIANTS MutualExclusion InterruptsExact Exclusion NoLostWakeup SleepExact ReadersWoken EchoShown
PROPERTIES RefinesMutex RefinesTerminal
