\* Two processes and the blocks that the log pins exhaust three buffers; two blocks
\* are sound, one fails, and one is beyond the end of the disk.
SPECIFICATION Spec
CONSTANTS
  p1 = p1
  p2 = p2
  b1 = b1
  b2 = b2
  b3 = b3
  k1 = k1
  k2 = k2
  k3 = k3
  k4 = k4
  v0 = v0
  v1 = v1
  None = None
  Procs = {p1, p2}
  Bufs = {b1, b2, b3}
  Blocks = {k1, k2, k3, k4}
  BadBlocks = {k3}
  Beyond = {k4}
  Halted = Halted
  Vals = {v0, v1}
SYMMETRY Symmetry
CHECK_DEADLOCK FALSE
INVARIANTS
  CacheSafe
  PanicOnlyWhenFull
PROPERTIES
  IsBlockStore
