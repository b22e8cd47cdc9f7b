------------------------------- MODULE MCLive -------------------------------
(***************************************************************************)
(* What must eventually happen, in one model: a behaviour is a behaviour   *)
(* of the part that the first state chooses (a pipe, the clock, the shell  *)
(* or the log), under that part's fairness, and the other parts stand      *)
(* still.                                                                  *)
(***************************************************************************)
EXTENDS Pipe, Clock, ShRun

CONSTANTS LProcs, LBlocks, LVals, NoBuf

VARIABLES part,
          home, logd, head, cache, dirty, lh, outstanding, committing,
          lpc, bp, wrote, tail, panicked

logvars == <<home, logd, head, cache, dirty, lh, outstanding, committing, lpc, bp, wrote, tail,
             panicked>>

\* The log has room for two calls that reserve two blocks and write one.
L == INSTANCE Log WITH
  Procs <- LProcs, Blocks <- LBlocks, Vals <- LVals,
  MAXOPBLOCKS <- 2, LOGSIZE <- 4, nlog <- 4, OpBlocks <- 1, pc <- lpc

Parts == {"pipe", "clock", "shell", "log"}

LiveInit == /\ part \in Parts
            /\ Init /\ ClockInit /\ ShRunInit /\ L!Init

LiveNext ==
  /\ UNCHANGED part
  /\ IF part = "pipe" THEN Next ELSE UNCHANGED vars
  /\ IF part = "clock" THEN ClockNext ELSE UNCHANGED clockvars
  /\ IF part = "shell" THEN ShRunNext ELSE UNCHANGED shvars
  /\ IF part = "log" THEN L!Next ELSE UNCHANGED logvars

livevars == <<part, vars, clockvars, shvars, logvars>>

\* The timer ticks, and every process gets the CPU and tickslock again and again.
ClockFairness ==
  LET here == part = "clock" IN
  /\ SF_clockvars(here /\ timer)
  /\ \A p \in Sleepers : SF_clockvars(here /\ sleep_loop(p)) /\ WF_clockvars(here /\ tsleep(p))

\* Every process is scheduled; nobody need type.
ShRunFairness ==
  LET here == part = "shell" IN
  \A q \in ShProcs : WF_shvars(here /\ syscall(q)) /\ WF_shvars(here /\ program(q))

\* A process inside a call on a pipe keeps running.
PipeFairness ==
  LET here == part = "pipe" IN
  /\ \A p \in Writers : WF_vars(here /\ pipewrite(p))
  /\ \A p \in Readers : WF_vars(here /\ (piperead(p) \/ piperead_wait(p)))
  /\ \A p \in Procs : WF_vars(here /\ sleep(p))

\* A process inside the logging code keeps running, and a file system call
\* does finitely many block writes before its end_op().
LogFairness ==
  LET here == part = "log" IN
  \A p \in LProcs : /\ WF_logvars(here /\ (L!log_write(p) \/ L!record(p) \/ L!commit(p)))
                    /\ SF_logvars(here /\ L!end_op(p))

LiveSpec == /\ LiveInit /\ [][LiveNext]_livevars
            /\ PipeFairness /\ ClockFairness /\ ShRunFairness /\ LogFairness

\* Commands of sh.c.
X(s) == [type |-> "EXEC", name |-> s]
R(c, f) == [type |-> "REDIR", cmd |-> c, fd |-> f]
B(c) == [type |-> "BACK", cmd |-> c]
Pi(c, d) == [type |-> "PIPE", left |-> c, right |-> d]
Li(c, d) == [type |-> "LIST", left |-> c, right |-> d]

Cd(s) == [type |-> "CD", dir |-> s]

\* a | b > f | c, (d ; e) | f, g & h | (i ; j), and cd usr.
Typed == {Pi(X("a"), Pi(R(X("b"), 1), X("c"))),
          Pi(Li(X("d"), X("e")), X("f")),
          Li(B(X("g")), Pi(X("h"), Li(X("i"), X("j")))),
          Cd("usr")}

\* log_write() and end_op() never panic: the space that begin_op() reserves is
\* enough, although log_write() looks at log.lh.n without log.lock.
NoPanic == L!NoPanic

\* A process that sleeps in begin_op() goes on in the end, or the machine stops.
SleepersWake == L!SleepersWake
=============================================================================
