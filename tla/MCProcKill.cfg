\* kill() is also called with a pid no process has.
CONSTANTS
  c1 = c1
  None = None
  Cpus = {c1}
  NPROC = 2
  MaxPid = 3
  KillPids = {0}
SPECIFICATION Spec
INVARIANT KilledOnlyIfAsked
