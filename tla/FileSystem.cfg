CONSTANTS
  Proc <- TwoProcs
  NINODES = 3
  NINODE = 8
  Name = {"a", "f", "g"}
  Calls <- TreeCalls
  None = None
SPECIFICATION Spec
INVARIANTS RefExact Coherent LinksCovered
CHECK_DEADLOCK FALSE
