CONSTANTS
  Proc <- TwoProcs
  NINODES = 3
  NINODE = 8
  Name = {"x"}
  Calls <- LinkUnlink
  None = None
SPECIFICATION Spec
INVARIANT NoDeadlock
CHECK_DEADLOCK FALSE
