CONSTANTS
  Proc = {p1, p2, p3}
  Block = {b1, b2, b3}
  Val = {0, 1}
  InitVal = 0
  NBUF = 4
  MaxPinned = 1
  Careful = TRUE
  None = None
SPECIFICATION Spec
SYMMETRY Symmetry
INVARIANTS BreadReturnsBlock CacheExact NoLostWakeup
