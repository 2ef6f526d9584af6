CONSTANTS
  Proc = {p1, p2}
  Block = {b1, b2}
  Val = {0, 1}
  InitVal = 0
  NBUF = 3
  MaxPinned = 1
  Careful = FALSE
  None = None
SPECIFICATION Spec
INVARIANT BreadReturnsBlock
