\* One CPU, a table of three slots, kills of both processes that run beside initproc.
CONSTANTS
  c1 = c1
  None = None
  Cpus = {c1}
  NPROC = 3
  MaxPid = 3
  KillPids = {2, 3}
SPECIFICATION FairSpec
PROPERTIES
  OrphansReaped
  KilledDies
