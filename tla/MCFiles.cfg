\* Two processes with two descriptors each, three files, one inode and one page for pipes:
\* every table can be full.  A file opened O_WRONLY does less than one opened O_RDWR.
CONSTANTS
  p1 = p1
  p2 = p2
  i1 = i1
  q1 = q1
  NoOne = NoOne
  FProcs = {p1, p2}
  NFILE = 3
  NOFILE = 2
  Inodes = {i1}
  Root = i1
  Pipes = {q1}
  OModes = {"O_RDONLY", "O_RDWR"}
  MAXSIZE = 1
  MaxChunks = 2
SPECIFICATION FilesSpec
SYMMETRY Symmetry
CHECK_DEADLOCK FALSE
INVARIANTS
  FilesExact
  OffsetExact
