\* Two readers and a writer, with kills; ticks of two bits; three command lines;
\* a log of two calls and two processes.
CONSTANTS
  r1 = r1
  r2 = r2
  w1 = w1
  a = a
  None = None
  Readers = {r1, r2}
  Writers = {w1}
  Bytes = {a}
  PIPESIZE = 1
  UINT = 4
  MaxWrite = 1
  Killable = {r1, w1}
  s1 = s1
  s2 = s2
  NoHolder = NoHolder
  Sleepers = {s1, s2}
  TUINT = 4
  Durations = {2}
  Nothing = Nothing
  ShProcs = {1, 2, 3, 4, 5, 6}
  shell = 1
  NFD = 6
  Lines <- Typed
  p1 = p1
  p2 = p2
  v0 = v0
  NoBuf = NoBuf
  LProcs = {p1, p2}
  LBlocks = {1, 2, 3}
  LVals = {v0}
SPECIFICATION LiveSpec
CHECK_DEADLOCK FALSE
INVARIANTS
  NoPanic
  SleepsExact
  ShellSafe
PROPERTIES
  SleepersWake
  SleepEnds
  PromptReturns
  ReadersSeeClose
