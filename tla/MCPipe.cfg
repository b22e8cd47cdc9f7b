\* Two readers and two writers on a ring of two bytes with two-bit counters.
\* A write of two bytes may block before each of them.
CONSTANTS
  r1 = r1
  r2 = r2
  w1 = w1
  w2 = w2
  a = a
  b = b
  None = None
  Readers = {r1, r2}
  Writers = {w1, w2}
  Bytes = {a, b}
  PIPESIZE = 2
  UINT = 4
  MaxWrite = 2
  Killable = {}
SPECIFICATION Spec
SYMMETRY Symmetry
CHECK_DEADLOCK FALSE
INVARIANTS
  PipeSafe
PROPERTIES
  IsFifo
