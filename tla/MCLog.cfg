SPECIFICATION Spec
CONSTANTS
  Procs = {p1, p2, p3}
  Blocks = {b1, b2}
  Vals = {v0, v1}
  NoBuf = NoBuf
  MAXOPBLOCKS = 4
  LOGSIZE = 8
  nlog = 8
  OpBlocks = 2
SYMMETRY Symmetry
INVARIANTS
  QuietIsDurable
  NoLostWakeup
PROPERTIES
  Atomicity
