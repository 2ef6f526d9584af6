CONSTANTS
  NPROC = 3
  CPU = {c1, c2}
  Device = {disk}
  Event = {}
  KillArgs = {1, 2, 3, 4}
  MaxPid = 4
  None = None
SPECIFICATION Spec
INVARIANTS OneCpu WaitMissesNothing
