\* Two CPUs, a table of three slots, kills of the process with pid 3.
CONSTANTS
  c1 = c1
  c2 = c2
  None = None
  Cpus = {c1, c2}
  NPROC = 3
  MaxPid = 4
  KillPids = {3}
SPECIFICATION Spec
SYMMETRY Symmetry
INVARIANTS
  SwitchExact
  MemoryOwned
  NoLostWait
  ParentCanWait
