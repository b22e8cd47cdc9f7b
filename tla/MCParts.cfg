\* Spinlock: two CPUs, two threads that migrate, ptable.lock and one more lock.
\* Boot: three processors and five pages, three of them low.  Console: a ring of two
\* characters and counters of four values on a screen of two cells.  Vm: pages of two bytes,
\* page tables of two entries.  Content and Mkfs: blocks of two cells, one direct and two
\* indirect blocks; the bitmap of the image can be too short.  Malloc: a heap of 12 units of two
\* bytes, and a request whose sum wraps at 64.  Grep: a buffer of four characters.
CONSTANTS
  c1 = c1
  c2 = c2
  t1 = t1
  t2 = t2
  None = None
  Cpus = {c1, c2}
  Threads = {t1, t2}
  NLOCK = 2
  m0 = m0
  m1 = m1
  m2 = m2
  NoCpu = NoCpu
  Processors = {m0, m1, m2}
  BootCpu = m0
  NLow = 3
  NPages = 5
  r1 = r1
  r2 = r2
  Nobody = Nobody
  Readers = {r1, r2}
  Plain = {"a"}
  INPUT_BUF = 2
  CUINT = 4
  COLS = 2
  ROWS = 1
  MaxRead = 2
  Killable = {r1}
  MaxPending = 3
  MaxHeld = 2
  v1 = v1
  v2 = v2
  NoAs = NoAs
  VProcs = {v1, v2}
  VInit = v1
  NFREE = 8
  PGSIZE = 2
  NPTENTRIES = 2
  KTABS = 1
  UKERNBASE = 10
  Programs <- Elf
  Deltas <- Sbrk
  KERNBASE = 4
  WORD = 2
  MaxArg = 1
  BSIZE = 2
  NDIRECT = 1
  NINDIRECT = 2
  CInodes = {1, 2}
  CBlocks = 4
  Data <- TwoOrOne
  Byte <- TaggedByte
  Offsets <- StartOrEnd
  Lengths <- ThreeOrFive
  CReads = {1}
  Letters = {"a", "b"}
  DIRSIZ = 2
  MaxPath = 5
  MemSize = 4
  nmeta = 3
  MkBlocks = 16
  BPB = 14
  MaxFiles = 3
  MaxLen = 7
  HeapEnd = 12
  MinUnits = 4
  HSIZE = 2
  MUINT = 64
  Requests = {1, 3, 8, 63}
  Chars = {"a", " ", "<", ">", "|", "&", ";", "(", ")"}
  MAXARGS = 3
  MaxLine = 5
  Alphabet = {"a", "b"}
  GBUF = 4
  MaxRe = 4
  MaxText = 3
  GrepRes <- AtBegin
  MaxFile = 6
SPECIFICATION PartsSpec
CHECK_DEADLOCK FALSE
INVARIANTS
  LockSafety
  OneUsePerPage
  InputRingSafe
  ModifiersFollowKeys
  MemoryExact
  GrantInside
  FilesIntact
  StringsExact
  ImageExact
  HeapExact
  ParsesLines
  GrepExact
PROPERTIES
  IsTty
