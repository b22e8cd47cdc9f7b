------------------------------ MODULE Spinlock ------------------------------
(***************************************************************************)
(* Spin locks and interrupts (src/spinlock.c), with the two places where   *)
(* they meet the scheduler: sched(), which leaves a CPU with ptable.lock   *)
(* held and carries cpu->intena along, and the interrupt gates of trap.c.  *)
(*                                                                         *)
(* Kernel threads run on CPUs.  In a system call a thread has interrupts   *)
(* enabled unless it holds a lock; in an interrupt handler they are off.   *)
(* One action is one access to memory that other CPUs share, with the      *)
(* private ones around it.                                                 *)
(***************************************************************************)
EXTENDS Integers, FiniteSets

CONSTANTS Cpus,     \* the processors; c also names the scheduler thread of c
          Threads,  \* the kernel threads of processes
          NLOCK,    \* locks are numbered in the order in which they may be nested
          None      \* lk->cpu == 0

ASSUME SpinAssumption == /\ NLOCK \in Nat \ {0}
                         /\ None \notin Cpus
                         /\ Cpus \cap Threads = {}

Locks == 1..NLOCK
ptlock == NLOCK     \* ptable.lock: wakeup() takes it under any other lock

VARIABLES locked, lcpu,          \* struct spinlock: locked, cpu
          flag,                  \* FL_IF of each CPU's eflags
          ncli, intena,          \* struct cpu
          on,                    \* the thread each CPU runs, or the CPU for its scheduler
          pc, want,              \* where that thread is in acquire() or release(), of which lock
          hold,                  \* locks each CPU is between acquire() and release() of
          intr,                  \* threads, schedulers included, in an interrupt handler
          saved,                 \* sched(): its local intena
          started,               \* threads that have been through forkret()
          panicked

lockvars == <<locked, lcpu>>
cpuvars == <<flag, ncli, intena>>
vars == <<lockvars, cpuvars, on, pc, want, hold, intr, saved, started, panicked>>

Init == /\ locked = [l \in Locks |-> FALSE]
        /\ lcpu = [l \in Locks |-> None]
        /\ flag = [c \in Cpus |-> FALSE]
        /\ ncli = [c \in Cpus |-> 0]
        /\ intena = [c \in Cpus |-> FALSE]
        /\ on = [c \in Cpus |-> c]
        /\ pc = [c \in Cpus |-> "sti"]
        /\ want = [c \in Cpus |-> ptlock]
        /\ hold = [c \in Cpus |-> {}]
        /\ intr = {}
        /\ saved = [t \in Threads |-> FALSE]
        /\ started = {}
        /\ panicked = FALSE
-----------------------------------------------------------------------------
At(c, where) == ~panicked /\ pc[c] = where

\* CPU c is in scheduler() itself, not in a handler that interrupted it.
Scheduling(c) == on[c] = c /\ c \notin intr

\* CPU c runs a thread, or a handler, that is past forkret().
Kernel(c) == on[c] \in started \cup intr

\* acquire(), pushcli().
pushcli(c, l) ==
  /\ At(c, "run")
  /\ \A h \in hold[c] : h < l
  /\ Kernel(c) \/ (Scheduling(c) /\ l = ptlock)
  /\ flag' = [flag EXCEPT ![c] = FALSE]
  /\ intena' = [intena EXCEPT ![c] = IF ncli[c] = 0 THEN flag[c] ELSE @]
  /\ ncli' = [ncli EXCEPT ![c] = @ + 1]
  /\ want' = [want EXCEPT ![c] = l]
  /\ pc' = [pc EXCEPT ![c] = "holding"]
  /\ UNCHANGED <<lockvars, on, hold, intr, saved, started, panicked>>

\* acquire(), panic if holding(lk).  Its two reads are one step: only c itself
\* ever stores c in lk->cpu, so nothing between them changes the answer.
holding(c, l) == locked[l] /\ lcpu[l] = c

acquire_check(c) ==
  /\ At(c, "holding")
  /\ panicked' = holding(c, want[c])
  /\ pc' = [pc EXCEPT ![c] = "xchg"]
  /\ UNCHANGED <<lockvars, cpuvars, on, want, hold, intr, saved, started>>

\* The turn of the loop in which xchg returns 0.
xchg(c) ==
  /\ At(c, "xchg")
  /\ ~locked[want[c]]
  /\ locked' = [locked EXCEPT ![want[c]] = TRUE]
  /\ pc' = [pc EXCEPT ![c] = "setcpu"]
  /\ UNCHANGED <<lcpu, cpuvars, on, want, hold, intr, saved, started, panicked>>

acquire_done(c) ==
  /\ At(c, "setcpu")
  /\ lcpu' = [lcpu EXCEPT ![want[c]] = c]
  /\ hold' = [hold EXCEPT ![c] = @ \cup {want[c]}]
  /\ pc' = [pc EXCEPT ![c] = "run"]
  /\ UNCHANGED <<locked, cpuvars, on, want, intr, saved, started, panicked>>

\* release(): the check and lk->cpu = 0, ...
release(c, l) ==
  /\ At(c, "run") /\ l \in hold[c]
  /\ panicked' = ~holding(c, l)
  /\ lcpu' = [lcpu EXCEPT ![l] = None]
  /\ hold' = [hold EXCEPT ![c] = @ \ {l}]
  /\ want' = [want EXCEPT ![c] = l]
  /\ pc' = [pc EXCEPT ![c] = "unlock"]
  /\ UNCHANGED <<locked, cpuvars, on, intr, saved, started>>

\* ... lk->locked = 0, ...
release_unlock(c) ==
  /\ At(c, "unlock")
  /\ locked' = [locked EXCEPT ![want[c]] = FALSE]
  /\ pc' = [pc EXCEPT ![c] = "popcli"]
  /\ UNCHANGED <<lcpu, cpuvars, on, want, hold, intr, saved, started, panicked>>

\* ... popcli().  The scheduler goes on to sti(), a new process to trapret.
popcli(c) ==
  /\ At(c, "popcli")
  /\ panicked' = (flag[c] \/ ncli[c] < 1)
  /\ ncli' = [ncli EXCEPT ![c] = @ - 1]
  /\ flag' = [flag EXCEPT ![c] = IF ncli[c] = 1 /\ intena[c] THEN TRUE ELSE @]
  /\ pc' = [pc EXCEPT ![c] = CASE Scheduling(c) -> "sti"
                               [] Kernel(c) -> "run"
                               [] OTHER -> "trapret"]
  /\ UNCHANGED <<lockvars, intena, on, want, hold, intr, saved, started>>
-----------------------------------------------------------------------------
\* scheduler(), the top of its loop.
sti(c) ==
  /\ At(c, "sti")
  /\ flag' = [flag EXCEPT ![c] = TRUE]
  /\ pc' = [pc EXCEPT ![c] = "run"]
  /\ UNCHANGED <<lockvars, ncli, intena, on, want, hold, intr, saved, started, panicked>>

\* Mutant of swtch: sched() does not restore intena.
swtch_lost(c, t) ==
  /\ At(c, "run") /\ Scheduling(c) /\ ptlock \in hold[c]
  /\ \A d \in Cpus : on[d] # t
  /\ on' = [on EXCEPT ![c] = t]
  /\ UNCHANGED <<lockvars, cpuvars, pc, want, hold, intr, saved, started, panicked>>

\* scheduler(): swtch() to t, which returns from its sched() or starts in forkret().
swtch(c, t) ==
  /\ At(c, "run") /\ Scheduling(c) /\ ptlock \in hold[c]
  /\ \A d \in Cpus : on[d] # t
  /\ on' = [on EXCEPT ![c] = t]
  /\ intena' = [intena EXCEPT ![c] = IF t \in started THEN saved[t] ELSE @]
  /\ UNCHANGED <<lockvars, flag, ncli, pc, want, hold, intr, saved, started, panicked>>

\* sched(), called by yield(), sleep() and exit() with ptable.lock alone.
sched(c) ==
  /\ At(c, "run") /\ on[c] \in started /\ hold[c] = {ptlock}
  /\ panicked' = (~holding(c, ptlock) \/ ncli[c] # 1 \/ flag[c])
  /\ saved' = [saved EXCEPT ![on[c]] = intena[c]]
  /\ on' = [on EXCEPT ![c] = c]
  /\ UNCHANGED <<lockvars, cpuvars, pc, want, hold, intr, started>>

\* forkret() is over: trapret loads the eflags of user space.
trapret(c) ==
  /\ At(c, "trapret")
  /\ flag' = [flag EXCEPT ![c] = TRUE]
  /\ started' = started \cup {on[c]}
  /\ pc' = [pc EXCEPT ![c] = "run"]
  /\ UNCHANGED <<lockvars, ncli, intena, on, want, hold, intr, saved, panicked>>

\* An interrupt gate clears FL_IF; the handler's iret restores it.
interrupt(c) ==
  /\ At(c, "run") /\ flag[c]
  /\ intr' = intr \cup {on[c]}
  /\ flag' = [flag EXCEPT ![c] = FALSE]
  /\ UNCHANGED <<lockvars, ncli, intena, on, pc, want, hold, saved, started, panicked>>

iret(c) ==
  /\ At(c, "run") /\ on[c] \in intr /\ hold[c] = {}
  /\ intr' = intr \ {on[c]}
  /\ flag' = [flag EXCEPT ![c] = TRUE]
  /\ UNCHANGED <<lockvars, ncli, intena, on, pc, want, hold, saved, started, panicked>>
-----------------------------------------------------------------------------
acquire(c) == acquire_check(c) \/ xchg(c) \/ acquire_done(c)

Next == \E c \in Cpus : \/ \E l \in Locks : pushcli(c, l) \/ release(c, l)
                        \/ acquire(c) \/ release_unlock(c) \/ popcli(c)
                        \/ sti(c) \/ sched(c) \/ trapret(c)
                        \/ \E t \in Threads : swtch(c, t)
                        \/ interrupt(c) \/ iret(c)

Spec == Init /\ [][Next]_vars
-----------------------------------------------------------------------------
Points == {"run", "holding", "xchg", "setcpu", "unlock", "popcli", "sti", "trapret"}

TypeOK == /\ locked \in [Locks -> BOOLEAN]
          /\ lcpu \in [Locks -> Cpus \cup {None}]
          /\ flag \in [Cpus -> BOOLEAN]
          /\ ncli \in [Cpus -> Nat]
          /\ intena \in [Cpus -> BOOLEAN]
          /\ on \in [Cpus -> Cpus \cup Threads]
          /\ pc \in [Cpus -> Points]
          /\ want \in [Cpus -> Locks]
          /\ hold \in [Cpus -> SUBSET Locks]
          /\ intr \subseteq Cpus \cup Threads
          /\ saved \in [Threads -> BOOLEAN]
          /\ started \subseteq Threads
          /\ panicked \in BOOLEAN

\* The locks a CPU has between the xchg of acquire() and the store of release().
Inside(c) == hold[c] \cup IF pc[c] \in {"setcpu", "unlock"} THEN {want[c]} ELSE {}

\* Two CPUs are never inside the same lock, whatever was interrupted and
\* wherever sched() handed a lock from one thread to another.
Mutex == \A c, d \in Cpus : c # d => Inside(c) \cap Inside(d) = {}

\* No assertion of acquire(), release(), popcli() or sched() fails: lk->cpu is
\* read by other CPUs while it changes, and never shows one of them as the
\* holder, and the nesting counts stay exact.
NoPanic == ~panicked

\* A CPU that has a lock has its interrupts off: no handler can spin on a
\* lock of the code it interrupted.
LockedOff == \A c \in Cpus : Inside(c) # {} => ~flag[c]

\* Once a thread has released its last lock its interrupts are as they were:
\* on in a system call, off in a handler, also when it went through sched()
\* and came back on another CPU (the intena that sched() saves).
InterruptsRestored ==
  \A c \in Cpus : (pc[c] = "run" /\ hold[c] = {} /\ Kernel(c)) => (flag[c] <=> on[c] \notin intr)

\* acquire() and release() exclude, with interrupts off inside and restored outside, and
\* no assertion fails.
LockSafety == TypeOK /\ Mutex /\ NoPanic /\ LockedOff /\ InterruptsRestored
=============================================================================
