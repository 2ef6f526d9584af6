CONSTANTS
  NPROC = 3
  CPU = {c1}
  Device = {disk}
  Event = {pipe}
  KillArgs = {2}
  MaxPid = 3
  None = None
SPECIFICATION FairSpec
PROPERTIES NoStarvation KilledDies OrphansReaped
