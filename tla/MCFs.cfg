\* Two processes, two names, a directory and a path through it; the safety of the inodes.
CONSTANTS
  p1 = p1
  p2 = p2
  Nil = Nil
  UProcs = {p1, p2}
  NInum = 3
  MaxLost = 1
  Names = {"a", "b"}
  Calls <- MakerRemover
SPECIFICATION FsSpec
CHECK_DEADLOCK FALSE
INVARIANTS
  InodeCacheExact
  FreedIsUnused
  LinkCountExact
  OnlyIputDeadlocks
