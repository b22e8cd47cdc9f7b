\* create() and unlink() of one name wait for each other's locks.
CONSTANTS
  p1 = p1
  p2 = p2
  Nil = Nil
  UProcs = {p1, p2}
  NInum = 2
  MaxLost = 0
  Names = {"a"}
  Calls <- CreateUnlink
SPECIFICATION FsSpec
CHECK_DEADLOCK FALSE
INVARIANTS
  NoFsDeadlock
