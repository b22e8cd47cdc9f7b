-------------------------------- MODULE Proc --------------------------------
(***************************************************************************)
(* The process table of xv6 (src/proc.c) and the traps that drive it       *)
(* (src/trap.c): fork, exit, wait, kill, yield and the per-CPU scheduler.  *)
(* ptable.lock protects the table, and is handed over with the CPU: a      *)
(* process acquires it before sched(), the scheduler keeps it while it     *)
(* picks the next process, and that process releases it.                   *)
(*                                                                         *)
(* One action is a critical section of ptable.lock, or a step between two  *)
(* of them; steps from which swtch() may leave the CPU with the lock held  *)
(* are actions of their own.  fork() and allocproc() write some fields     *)
(* without the lock, and so do their actions.                              *)
(***************************************************************************)
EXTENDS Integers, FiniteSets

CONSTANTS Cpus,      \* the processors
          NPROC,     \* slots of ptable.proc (param.h)
          None,      \* nobody holds ptable.lock
          KillPids,  \* pids that processes pass to kill()
          MaxPid     \* bound on nextpid

ASSUME CpusAssumption == None \notin Cpus /\ 0 \notin Cpus
ASSUME NPROCAssumption == NPROC \in Nat \ {0}
\* kill() of initproc is left out: it ends in panic("init exiting").
ASSUME PidsAssumption == KillPids \subseteq Nat \ {1} /\ MaxPid \in Nat \ {0}

VARIABLES state, pid, parent, chan, killed,  \* fields of struct proc, by slot
          kstack, pgdir,    \* the slot has a kernel stack, a page table
          nextpid,          \* proc.c
          lock,             \* the CPU that holds ptable.lock, or None
          run,              \* the thread each CPU executes: a slot, or 0 for its scheduler
          cproc,            \* struct cpu: proc, as a slot or 0
          cr3,              \* page table each CPU has loaded: a slot's, or 0 for kpgdir
          pos,              \* scheduler(): its p, 0 outside the loop
          pc, ret,          \* where each process is, and where sched() returns to
          np,               \* fork(): its np
          asked             \* pids for which a kill was asked

table == <<state, pid, parent, chan, killed>>
mem == <<kstack, pgdir>>
cpu == <<run, cproc, cr3, pos>>
thread == <<pc, ret, np>>
vars == <<table, mem, nextpid, lock, cpu, thread, asked>>

Slots == 1..NPROC
initproc == 1
States == {"UNUSED", "EMBRYO", "SLEEPING", "RUNNABLE", "RUNNING", "ZOMBIE"}
\* Points where a timer interrupt may call yield(): no lock is held.
Unlocked == {"user", "kalloc", "copyuvm", "setrun", "exit", "wait"}
PcValues == Unlocked \cup {"scan", "sched", "swtched", "forkret", "none"}

\* userinit() has made initproc and every CPU is at the top of scheduler().
Init == /\ state = [i \in Slots |-> IF i = initproc THEN "RUNNABLE" ELSE "UNUSED"]
        /\ pid = [i \in Slots |-> IF i = initproc THEN 1 ELSE 0]
        /\ parent = [i \in Slots |-> 0]
        /\ chan = [i \in Slots |-> 0]
        /\ killed = [i \in Slots |-> FALSE]
        /\ kstack = [i \in Slots |-> i = initproc]
        /\ pgdir = [i \in Slots |-> i = initproc]
        /\ nextpid = 2
        /\ lock = None
        /\ run = [c \in Cpus |-> 0]
        /\ cproc = [c \in Cpus |-> 0]
        /\ cr3 = [c \in Cpus |-> 0]
        /\ pos = [c \in Cpus |-> 0]
        /\ pc = [i \in Slots |-> IF i = initproc THEN "forkret" ELSE "none"]
        /\ ret = [i \in Slots |-> "user"]
        /\ np = [i \in Slots |-> 0]
        /\ asked = {}
-----------------------------------------------------------------------------
\* CPU c executes process i at one of the points S.
At(c, i, S) == run[c] = i /\ pc[i] \in S

\* The first slot of a scan of the table.
First(S) == CHOOSE i \in S : \A j \in S : i <= j

Children(i) == {j \in Slots : parent[j] = i}

\* Mutant of wakeup1: it finds no sleeper.
wakeup1_lost(st, ch) == st

wakeup1(st, ch) == [j \in Slots |-> IF st[j] = "SLEEPING" /\ chan[j] = ch
                                      THEN "RUNNABLE" ELSE st[j]]
-----------------------------------------------------------------------------
\* allocproc(), its critical section.  With no UNUSED slot fork() returns -1.
allocproc(c, i) ==
  LET free == {j \in Slots : state[j] = "UNUSED"}
      j == First(free) IN
  /\ At(c, i, {"user"}) /\ ~killed[i] /\ lock = None
  /\ free # {} /\ nextpid <= MaxPid
  /\ state' = [state EXCEPT ![j] = "EMBRYO"]
  /\ pid' = [pid EXCEPT ![j] = nextpid]
  /\ nextpid' = nextpid + 1
  /\ np' = [np EXCEPT ![i] = j]
  /\ pc' = [pc EXCEPT ![i] = "kalloc"]
  /\ UNCHANGED <<parent, chan, killed, mem, lock, cpu, ret, asked>>

\* allocproc(), the rest: the stack and a context that starts at forkret.
kalloc(c, i) ==
  /\ At(c, i, {"kalloc"})
  /\ \/ /\ kstack' = [kstack EXCEPT ![np[i]] = TRUE]
        /\ pc' = [pc EXCEPT ![i] = "copyuvm", ![np[i]] = "forkret"]
        /\ UNCHANGED state
     \/ /\ state' = [state EXCEPT ![np[i]] = "UNUSED"]
        /\ pc' = [pc EXCEPT ![i] = "user"]
        /\ UNCHANGED kstack
  /\ UNCHANGED <<pid, parent, chan, killed, pgdir, nextpid, lock, cpu, ret, np, asked>>

\* fork(), up to its critical section.
copyuvm(c, i) ==
  /\ At(c, i, {"copyuvm"})
  /\ \/ /\ pgdir' = [pgdir EXCEPT ![np[i]] = TRUE]
        /\ parent' = [parent EXCEPT ![np[i]] = i]
        /\ pc' = [pc EXCEPT ![i] = "setrun"]
        /\ UNCHANGED <<state, kstack>>
     \/ /\ kstack' = [kstack EXCEPT ![np[i]] = FALSE]
        /\ state' = [state EXCEPT ![np[i]] = "UNUSED"]
        /\ pc' = [pc EXCEPT ![i] = "user", ![np[i]] = "none"]
        /\ UNCHANGED <<pgdir, parent>>
  /\ UNCHANGED <<pid, chan, killed, nextpid, lock, cpu, ret, np, asked>>

setrun(c, i) ==
  /\ At(c, i, {"setrun"}) /\ lock = None
  /\ state' = [state EXCEPT ![np[i]] = "RUNNABLE"]
  /\ pc' = [pc EXCEPT ![i] = "user"]
  /\ UNCHANGED <<pid, parent, chan, killed, mem, nextpid, lock, cpu, ret, np, asked>>

\* trap(): exit(), by the system call, or because the process was killed;
\* exit() up to its critical section closes the files.
exit_start(c, i) ==
  /\ At(c, i, {"user"}) /\ i # initproc
  /\ pc' = [pc EXCEPT ![i] = "exit"]
  /\ UNCHANGED <<table, mem, nextpid, lock, cpu, ret, np, asked>>

\* trap(), default: an exception in user space kills the process.
fault(c, i) ==
  /\ At(c, i, {"user"}) /\ i # initproc
  /\ killed' = [killed EXCEPT ![i] = TRUE]
  /\ asked' = asked \cup {pid[i]}
  /\ pc' = [pc EXCEPT ![i] = "exit"]
  /\ UNCHANGED <<state, pid, parent, chan, mem, nextpid, lock, cpu, ret, np>>

\* Mutant of exit()'s loop: children are not passed on.
reparent_not(i) == parent

\* exit(), the critical section up to sched().
reparent(i) == [j \in Slots |-> IF parent[j] = i THEN initproc ELSE parent[j]]
wakeParents(i) ==
  LET woken == wakeup1(state, parent[i]) IN
  IF \E j \in Children(i) : state[j] = "ZOMBIE" THEN wakeup1(woken, initproc) ELSE woken

\* Mutant of exit: the lock is released before the process has left its stack.
exit_release(c, i) ==
  /\ At(c, i, {"exit"}) /\ lock = None
  /\ parent' = reparent(i)
  /\ state' = [wakeParents(i) EXCEPT ![i] = "ZOMBIE"]
  /\ pc' = [pc EXCEPT ![i] = "sched"]
  /\ ret' = [ret EXCEPT ![i] = "none"]
  /\ UNCHANGED <<pid, chan, killed, mem, nextpid, lock, cpu, np, asked>>

exit(c, i) ==
  /\ At(c, i, {"exit"}) /\ lock = None
  /\ lock' = c
  /\ parent' = reparent(i)
  /\ state' = [wakeParents(i) EXCEPT ![i] = "ZOMBIE"]
  /\ pc' = [pc EXCEPT ![i] = "sched"]
  /\ ret' = [ret EXCEPT ![i] = "none"]
  /\ UNCHANGED <<pid, chan, killed, mem, nextpid, cpu, np, asked>>

wait_start(c, i) ==
  /\ At(c, i, {"user"}) /\ ~killed[i]
  /\ pc' = [pc EXCEPT ![i] = "wait"]
  /\ UNCHANGED <<table, mem, nextpid, lock, cpu, ret, np, asked>>

wait_lock(c, i) ==
  /\ At(c, i, {"wait"}) /\ lock = None
  /\ lock' = c
  /\ pc' = [pc EXCEPT ![i] = "scan"]
  /\ UNCHANGED <<table, mem, nextpid, cpu, ret, np, asked>>

\* wait(), one pass over the table: a ZOMBIE child is freed, ...
Zombies(i) == {j \in Children(i) : state[j] = "ZOMBIE"}

wait_reap(c, i) ==
  LET j == First(Zombies(i)) IN
  /\ At(c, i, {"scan"}) /\ Zombies(i) # {}
  /\ kstack' = [kstack EXCEPT ![j] = FALSE]
  /\ pgdir' = [pgdir EXCEPT ![j] = FALSE]
  /\ pid' = [pid EXCEPT ![j] = 0]
  /\ parent' = [parent EXCEPT ![j] = 0]
  /\ killed' = [killed EXCEPT ![j] = FALSE]
  /\ state' = [state EXCEPT ![j] = "UNUSED"]
  /\ lock' = None
  /\ pc' = [pc EXCEPT ![i] = "user", ![j] = "none"]
  /\ UNCHANGED <<chan, nextpid, cpu, ret, np, asked>>

\* ... with nothing to wait for it returns -1, ...
wait_fail(c, i) ==
  /\ At(c, i, {"scan"}) /\ Zombies(i) = {}
  /\ Children(i) = {} \/ killed[i]
  /\ lock' = None
  /\ pc' = [pc EXCEPT ![i] = "user"]
  /\ UNCHANGED <<table, mem, nextpid, cpu, ret, np, asked>>

\* ... otherwise sleep(curproc, &ptable.lock), up to swtch().
wait_sleep(c, i) ==
  /\ At(c, i, {"scan"}) /\ Zombies(i) = {}
  /\ Children(i) # {} /\ ~killed[i]
  /\ chan' = [chan EXCEPT ![i] = i]
  /\ state' = [state EXCEPT ![i] = "SLEEPING"]
  /\ ret' = [ret EXCEPT ![i] = "scan"]
  /\ pc' = [pc EXCEPT ![i] = "sched"]
  /\ UNCHANGED <<pid, parent, killed, mem, nextpid, lock, cpu, np, asked>>

\* Mutant of kill: a sleeping victim is not woken.
kill_asleep(c, i, p) ==
  LET j == First({k \in Slots : pid[k] = p}) IN
  /\ At(c, i, {"user"}) /\ ~killed[i] /\ lock = None
  /\ \E k \in Slots : pid[k] = p
  /\ killed' = [killed EXCEPT ![j] = TRUE]
  /\ asked' = asked \cup {p}
  /\ UNCHANGED <<state, pid, parent, chan, mem, nextpid, lock, cpu, thread>>

kill(c, i, p) ==
  LET found == {j \in Slots : pid[j] = p}
      j == First(found) IN
  /\ At(c, i, {"user"}) /\ ~killed[i] /\ lock = None
  /\ found # {}
  /\ killed' = [killed EXCEPT ![j] = TRUE]
  /\ state' = [state EXCEPT ![j] = IF @ = "SLEEPING" THEN "RUNNABLE" ELSE @]
  /\ asked' = asked \cup {p}
  /\ UNCHANGED <<pid, parent, chan, mem, nextpid, lock, cpu, thread>>

\* trap(), a timer interrupt: yield() up to sched().
yield(c, i) ==
  /\ At(c, i, Unlocked) /\ lock = None
  /\ lock' = c
  /\ state' = [state EXCEPT ![i] = "RUNNABLE"]
  /\ ret' = [ret EXCEPT ![i] = pc[i]]
  /\ pc' = [pc EXCEPT ![i] = "sched"]
  /\ UNCHANGED <<pid, parent, chan, killed, mem, nextpid, cpu, np, asked>>

\* sched(): swtch(&p->context, mycpu()->scheduler).
sched(c, i) ==
  /\ At(c, i, {"sched"})
  /\ run' = [run EXCEPT ![c] = 0]
  /\ pc' = [pc EXCEPT ![i] = "swtched"]
  /\ UNCHANGED <<table, mem, nextpid, lock, cproc, cr3, pos, ret, np, asked>>

\* After sched(): yield() releases the lock; sleep(chan, &ptable.lock) tidies
\* up and keeps it.
sched_return(c, i) ==
  /\ At(c, i, {"swtched"})
  /\ pc' = [pc EXCEPT ![i] = ret[i]]
  /\ chan' = [chan EXCEPT ![i] = IF ret[i] = "scan" THEN 0 ELSE @]
  /\ lock' = IF ret[i] = "scan" THEN lock ELSE None
  /\ UNCHANGED <<state, pid, parent, killed, mem, nextpid, cpu, ret, np, asked>>

\* Mutant of forkret: the scheduler's lock is not released.
forkret_locked(c, i) ==
  /\ At(c, i, {"forkret"})
  /\ pc' = [pc EXCEPT ![i] = "user"]
  /\ UNCHANGED <<table, mem, nextpid, lock, cpu, ret, np, asked>>

forkret(c, i) ==
  /\ At(c, i, {"forkret"})
  /\ lock' = None
  /\ pc' = [pc EXCEPT ![i] = "user"]
  /\ UNCHANGED <<table, mem, nextpid, cpu, ret, np, asked>>
-----------------------------------------------------------------------------
\* scheduler(): acquire, then a scan from the first slot.
scheduler_lock(c) ==
  /\ run[c] = 0 /\ pos[c] = 0 /\ lock = None
  /\ lock' = c
  /\ pos' = [pos EXCEPT ![c] = 1]
  /\ UNCHANGED <<table, mem, nextpid, run, cproc, cr3, thread, asked>>

Runnable(c) == {i \in Slots : pos[c] <= i /\ state[i] = "RUNNABLE"}

\* The next RUNNABLE process of the scan gets the CPU, with the lock.
scheduler_pick(c) ==
  LET i == First(Runnable(c)) IN
  /\ run[c] = 0 /\ pos[c] # 0 /\ cproc[c] = 0 /\ Runnable(c) # {}
  /\ cproc' = [cproc EXCEPT ![c] = i]
  /\ cr3' = [cr3 EXCEPT ![c] = i]
  /\ state' = [state EXCEPT ![i] = "RUNNING"]
  /\ pos' = [pos EXCEPT ![c] = i]
  /\ run' = [run EXCEPT ![c] = i]
  /\ UNCHANGED <<pid, parent, chan, killed, mem, nextpid, lock, thread, asked>>

\* Back from swtch(): switchkvm(), c->proc = 0, and the scan goes on.
scheduler_back(c) ==
  /\ run[c] = 0 /\ cproc[c] # 0
  /\ cr3' = [cr3 EXCEPT ![c] = 0]
  /\ cproc' = [cproc EXCEPT ![c] = 0]
  /\ pos' = [pos EXCEPT ![c] = @ + 1]
  /\ UNCHANGED <<table, mem, nextpid, lock, run, thread, asked>>

scheduler_unlock(c) ==
  /\ run[c] = 0 /\ pos[c] # 0 /\ cproc[c] = 0 /\ Runnable(c) = {}
  /\ lock' = None
  /\ pos' = [pos EXCEPT ![c] = 0]
  /\ UNCHANGED <<table, mem, nextpid, run, cproc, cr3, thread, asked>>
-----------------------------------------------------------------------------
fork(c, i) == allocproc(c, i) \/ kalloc(c, i) \/ copyuvm(c, i) \/ setrun(c, i)
wait(c, i) == wait_lock(c, i) \/ wait_reap(c, i) \/ wait_fail(c, i) \/ wait_sleep(c, i)
scheduler(c) == scheduler_lock(c) \/ scheduler_pick(c) \/ scheduler_back(c) \/ scheduler_unlock(c)

Next == \/ \E c \in Cpus, i \in Slots :
             \/ fork(c, i) \/ exit_start(c, i) \/ fault(c, i) \/ exit(c, i)
             \/ wait_start(c, i) \/ wait(c, i) \/ yield(c, i)
             \/ sched(c, i) \/ sched_return(c, i) \/ forkret(c, i)
             \/ \E p \in KillPids : kill(c, i, p)
        \/ \E c \in Cpus : scheduler(c)

Spec == Init /\ [][Next]_vars
-----------------------------------------------------------------------------
TypeOK == /\ state \in [Slots -> States]
          /\ pid \in [Slots -> 0..MaxPid]
          /\ parent \in [Slots -> 0..NPROC]
          /\ chan \in [Slots -> 0..NPROC]
          /\ killed \in [Slots -> BOOLEAN]
          /\ kstack \in [Slots -> BOOLEAN]
          /\ pgdir \in [Slots -> BOOLEAN]
          /\ nextpid \in 2..MaxPid+1
          /\ lock \in Cpus \cup {None}
          /\ run \in [Cpus -> 0..NPROC]
          /\ cproc \in [Cpus -> 0..NPROC]
          /\ cr3 \in [Cpus -> 0..NPROC]
          /\ pos \in [Cpus -> 0..NPROC+1]
          /\ pc \in [Slots -> PcValues]
          /\ ret \in [Slots -> Unlocked \cup {"scan", "none"}]
          /\ np \in [Slots -> 0..NPROC]
          /\ asked \subseteq Nat

\* The CPUs that are between an acquire and the matching release.
Holding(c) == IF run[c] = 0 THEN pos[c] # 0
                            ELSE pc[run[c]] \in {"scan", "sched", "swtched", "forkret"}

\* ptable.lock is handed from process to scheduler and back through swtch()
\* without ever being lost or released twice: exactly the CPU whose control is
\* between an acquire and its release holds it (the comments before sched()
\* and in scheduler() and forkret()).
LockHandoff == \A c \in Cpus : lock = c <=> Holding(c)

\* A CPU that executes a process has its kernel stack and its page table
\* under it and shares them with no other CPU: exit() leaves both to wait(),
\* which must not free them before the child has switched away for good.
StackExclusive ==
  \A c \in Cpus :
    /\ run[c] # 0 => kstack[run[c]] /\ cproc[c] = run[c]
    /\ cr3[c] # 0 => pgdir[cr3[c]]
    /\ \A d \in Cpus \ {c} : run[c] # 0 => run[d] # run[c]

\* Outside the critical sections a process is RUNNING exactly when some CPU
\* executes it: none is lost by the scheduler and none runs unaccounted for.
RunningOnCpu ==
  lock = None => \A i \in Slots : state[i] = "RUNNING" <=> \E c \in Cpus : run[c] = i

\* No wakeup is lost: a process asleep in wait() has a child, none of its
\* children is a ZOMBIE, and it has not been killed.
NoLostWait ==
  lock = None => \A i \in Slots :
    state[i] = "SLEEPING" => /\ Children(i) # {}
                             /\ Zombies(i) = {}
                             /\ ~killed[i]

\* Whatever the order of exits, a process other than initproc has a parent
\* that can still wait() for it: exit() passes its children to initproc.
ParentCanWait ==
  \A i \in Slots \ {initproc} :
    state[i] \in {"SLEEPING", "RUNNABLE", "RUNNING", "ZOMBIE"} =>
      parent[i] # 0 /\ state[parent[i]] \notin {"UNUSED", "EMBRYO", "ZOMBIE"}

\* Memory is not leaked: a slot that no fork() is filling and that is UNUSED
\* owns neither a stack nor a page table, whichever allocation failed.
UnusedOwnsNothing ==
  \A i \in Slots : state[i] = "UNUSED" => ~kstack[i] /\ ~pgdir[i]

\* Through every swtch() between processes and schedulers, ptable.lock has its one
\* holder and every RUNNING process its one CPU.
SwitchExact == TypeOK /\ LockHandoff /\ RunningOnCpu

\* The stack and the page table of a process are there while a CPU uses them, and are
\* given back: wait() does not free them early and no failed fork() leaks them.
MemoryOwned == StackExclusive /\ UnusedOwnsNothing

\* kill() kills "the process with the given pid" (proc.c) and no other: a
\* process is marked killed only if a kill of its pid was asked for.
KilledOnlyIfAsked ==
  \A i \in Slots : state[i] \notin {"UNUSED", "EMBRYO"} /\ killed[i] => pid[i] \in asked
-----------------------------------------------------------------------------
\* Every CPU keeps executing.  However often the timer interrupts a process,
\* it gets on with its kernel code between two interrupts, and a killed process
\* in user space is caught by the next trap.
Progress(c, i) == \/ kalloc(c, i) \/ copyuvm(c, i) \/ setrun(c, i)
                  \/ exit(c, i) \/ wait(c, i)
                  \/ killed[i] /\ exit_start(c, i)

Switch(c, i) == sched(c, i) \/ sched_return(c, i) \/ forkret(c, i)

\* An orphan does not stay a ZOMBIE: initproc, which inherits it, is woken if
\* it sleeps in wait() and frees it.
OrphansReaped ==
  \A i \in Slots \ {initproc} :
    state[i] = "ZOMBIE" /\ parent[i] = initproc ~> state[i] = "UNUSED"

\* A process that kill() has marked dies: asleep in wait(), looping in user space or
\* waiting for a CPU, it comes to exit().
KilledDies ==
  \A i \in Slots \ {initproc} :
    killed[i] /\ state[i] \in {"SLEEPING", "RUNNABLE", "RUNNING"} ~> state[i] \in {"ZOMBIE", "UNUSED"}
=============================================================================
