---------------------------- MODULE ProcProofs -----------------------------
(***************************************************************************)
(* The process table for any number of CPUs, slots and pids: ProcInv is    *)
(* inductive, and the safety properties of Proc follow from it.            *)
(***************************************************************************)
EXTENDS Proc, WellFoundedInduction, TLAPS

Alive == {"SLEEPING", "RUNNABLE", "RUNNING"}

\* Where process i goes on: behind sched() it is where sched() returns to.
Place(i) == IF pc[i] \in {"sched", "swtched"} THEN ret[i] ELSE pc[i]

Forking(i) == Place(i) \in {"kalloc", "copyuvm", "setrun"}

\* The registers and the struct cpu of a CPU agree with the thread it executes,
\* whose state is given up between the change of p->state and swtch() only.
CpuInv ==
  \A c \in Cpus :
    /\ cr3[c] = cproc[c]
    /\ cproc[c] # 0 => pos[c] = cproc[c] /\ state[cproc[c]] \notin {"UNUSED", "EMBRYO"}
    /\ run[c] # 0 => /\ cproc[c] = run[c]
                     /\ IF pc[run[c]] = "sched" THEN state[run[c]] # "RUNNING"
                                                ELSE state[run[c]] = "RUNNING"

\* No two CPUs have the same process, not even while one is switching away.
OwnCpu == \A c, d \in Cpus : c # d /\ cproc[c] # 0 => cproc[c] # cproc[d]

\* A process that is RUNNING, or on its way into swtch(), is on a CPU.
OnCpu == \A i \in Slots : state[i] = "RUNNING" \/ pc[i] = "sched" => \E c \in Cpus : run[c] = i

\* What p->state tells of the stack, the memory and the place of a process.
SlotOK(i) ==
  /\ state[i] = "UNUSED" => pc[i] = "none" /\ ~kstack[i] /\ ~pgdir[i] /\ parent[i] = 0
  /\ state[i] = "EMBRYO" => pc[i] \in {"none", "forkret"}
  /\ state[i] \notin {"UNUSED", "EMBRYO"} => kstack[i] /\ pgdir[i]
  /\ state[i] = "SLEEPING" => pc[i] \in {"sched", "swtched"} /\ ret[i] = "scan"
  /\ state[i] = "ZOMBIE" => pc[i] \in {"sched", "swtched"} /\ ret[i] = "none"
  /\ state[i] = "RUNNABLE" => pc[i] \in {"sched", "swtched", "forkret"}
  /\ state[i] = "RUNNING" => pc[i] \in Unlocked \cup {"scan", "swtched", "forkret"}
  /\ state[i] \in {"RUNNABLE", "RUNNING"} => Place(i) # "none"

SlotInv == \A i \in Slots : SlotOK(i)

\* fork() fills a slot of its own, which nobody else touches before it is RUNNABLE.
NewOK(i) ==
  /\ np[i] \in Slots /\ state[np[i]] = "EMBRYO"
  /\ Place(i) = "kalloc" => pc[np[i]] = "none" /\ ~kstack[np[i]]
  /\ Place(i) # "kalloc" => pc[np[i]] = "forkret" /\ kstack[np[i]]
  /\ IF Place(i) = "setrun" THEN pgdir[np[i]] /\ parent[np[i]] = i
                            ELSE ~pgdir[np[i]] /\ parent[np[i]] = 0

ForkInv == /\ \A i \in Slots : Forking(i) => NewOK(i)
           /\ \A i, j \in Slots : Forking(i) /\ Forking(j) /\ np[i] = np[j] => i = j

\* Parents are alive, and only initproc and slots not yet in use have none.
ParentInv ==
  /\ \A i \in Slots : parent[i] # 0 => parent[i] # i /\ state[parent[i]] \in Alive
  /\ \A i \in Slots \ {initproc} : state[i] \notin {"UNUSED", "EMBRYO"} => parent[i] # 0
  /\ parent[initproc] = 0 /\ state[initproc] \in Alive /\ Place(initproc) # "exit"

\* A process asleep in wait() has a reason to be, and a wakeup will find it.
WaitInv ==
  \A i \in Slots : state[i] = "SLEEPING" =>
    /\ chan[i] = i /\ ~killed[i]
    /\ \E j \in Slots : parent[j] = i
    /\ \A j \in Slots : parent[j] = i => state[j] # "ZOMBIE"

ProcInv == /\ TypeOK /\ LockHandoff /\ CpuInv /\ OwnCpu /\ OnCpu /\ SlotInv
           /\ ForkInv /\ ParentInv /\ WaitInv
-----------------------------------------------------------------------------
\* The order of the natural numbers, as a relation.
Less == OpToRel(<, Nat)

\* Less relates what < relates.
LEMMA LessIs == \A x, y \in Nat : <<y, x>> \in Less <=> y < x
BY Zenon DEF Less, OpToRel

\* A scan of the table that finds a slot stops at one it looks for.
LEMMA FirstIn ==
  ASSUME NEW S \in SUBSET Slots, S # {}
  PROVE  First(S) \in S
<1>1. S \subseteq Nat
  BY NPROCAssumption DEF Slots
<1>2. IsWellFoundedOn(Less, Nat)
  BY NatLessThanWellFounded, Zenon DEF Less
<1>3. \E x \in S : \A y \in S : ~(<<y, x>> \in Less)
  BY <1>1, <1>2, WFMin, Zenon
<1>4. \E x \in S : \A y \in S : ~(y < x)
  BY <1>1, <1>3, LessIs, Zenon
<1>5. \E x \in S : \A y \in S : x <= y
  BY <1>1, <1>4
<1> QED BY <1>5, Zenon DEF First

\* Fields that hold a slot hold one of the table, or 0.
LEMMA Ranges ==
  ASSUME TypeOK
  PROVE  /\ 0 \notin Slots /\ initproc \in Slots /\ None \notin Cpus
         /\ \A c \in Cpus : (run[c] = 0 \/ run[c] \in Slots) /\ (cproc[c] = 0 \/ cproc[c] \in Slots)
         /\ \A i \in Slots : parent[i] = 0 \/ parent[i] \in Slots
<1>1. 0 \notin Slots /\ initproc \in Slots /\ None \notin Cpus
  BY NPROCAssumption, CpusAssumption DEF Slots, initproc
<1>2. \A x \in 0..NPROC : x = 0 \/ x \in Slots
  BY NPROCAssumption DEF Slots
<1> QED BY <1>1, <1>2, Zenon DEF TypeOK

\* The process a CPU executes: no other CPU has it, and it is RUNNING up to sched().
LEMMA Executing ==
  ASSUME ProcInv, NEW c \in Cpus, NEW i \in Slots, run[c] = i
  PROVE  /\ cproc[c] = i /\ cr3[c] = i /\ pos[c] = i
         /\ pc[i] # "sched" => state[i] = "RUNNING"
         /\ \A d \in Cpus : d # c => run[d] # i /\ cproc[d] # i
         /\ lock = c <=> pc[i] \in {"scan", "sched", "swtched", "forkret"}
<1>1. i # 0
  BY Ranges, Zenon DEF ProcInv
<1>2. cproc[c] = i /\ cr3[c] = i /\ pos[c] = i /\ (pc[i] # "sched" => state[i] = "RUNNING")
  BY <1>1, Zenon DEF ProcInv, CpuInv
<1>3. ASSUME NEW d \in Cpus, d # c PROVE run[d] # i /\ cproc[d] # i
  BY <1>1, <1>2, <1>3 DEF ProcInv, CpuInv, OwnCpu
<1>4. lock = c <=> pc[i] \in {"scan", "sched", "swtched", "forkret"}
  BY <1>1, Zenon DEF ProcInv, LockHandoff, Holding
<1> QED BY <1>2, <1>3, <1>4, Zenon

\* A slot that fork() fills is executed by no CPU.
LEMMA Filling ==
  ASSUME ProcInv, NEW i \in Slots, Forking(i)
  PROVE  /\ np[i] \in Slots /\ np[i] # i /\ np[i] # initproc /\ state[np[i]] = "EMBRYO"
         /\ \A c \in Cpus : run[c] # np[i] /\ cproc[c] # np[i]
<1>1. np[i] \in Slots /\ state[np[i]] = "EMBRYO"
  BY Zenon DEF ProcInv, ForkInv, NewOK
<1>2. np[i] # i
  BY <1>1, Zenon DEF ProcInv, SlotInv, SlotOK, Forking, Place
<1>3. np[i] # initproc
  BY <1>1, Zenon DEF ProcInv, ParentInv, Alive
<1>4. ASSUME NEW c \in Cpus PROVE run[c] # np[i] /\ cproc[c] # np[i]
  BY <1>1, Ranges DEF ProcInv, CpuInv
<1> QED BY <1>1, <1>2, <1>3, <1>4, Zenon

\* What a process does on its own between two points outside fork() and sched(),
\* taking or releasing ptable.lock as the points require.
Move(c, i, q) ==
  /\ run[c] = i /\ pc[i] \in {"user", "wait", "exit", "scan", "forkret"}
  /\ q \in {"user", "wait", "exit", "scan"} /\ (q = "exit" => i # initproc)
  /\ pc' = [pc EXCEPT ![i] = q]
  /\ \/ pc[i] \notin {"scan", "forkret"} /\ q # "scan" /\ lock' = lock
     \/ pc[i] \in {"scan", "forkret"} /\ q # "scan" /\ lock' = None
     \/ pc[i] \notin {"scan", "forkret"} /\ q = "scan" /\ lock = None /\ lock' = c
  /\ killed' \in [Slots -> BOOLEAN] /\ asked' \subseteq Nat
  /\ \A j \in Slots : j # i => killed'[j] = killed[j]
  /\ UNCHANGED <<state, pid, parent, chan, kstack, pgdir, nextpid, run, cproc, cr3, pos, ret, np>>

\* A step in which a process only goes on to another place of its code preserves
\* the invariant.
LEMMA Inv_Move ==
  ASSUME ProcInv, NEW c \in Cpus, NEW i \in Slots, NEW q, Move(c, i, q)
  PROVE  ProcInv'
<1>a. /\ run[c] = i /\ pc[i] \in {"user", "wait", "exit", "scan", "forkret"}
      /\ q \in {"user", "wait", "exit", "scan"} /\ (q = "exit" => i # initproc)
      /\ pc' = [pc EXCEPT ![i] = q]
      /\ UNCHANGED <<state, pid, parent, chan, kstack, pgdir, nextpid, run, cproc, cr3, pos, ret, np>>
  BY Zenon DEF Move
<1>l. \/ pc[i] \notin {"scan", "forkret"} /\ q # "scan" /\ lock' = lock
      \/ pc[i] \in {"scan", "forkret"} /\ q # "scan" /\ lock' = None
      \/ pc[i] \notin {"scan", "forkret"} /\ q = "scan" /\ lock = None /\ lock' = c
  BY Zenon DEF Move
<1>k. /\ killed' \in [Slots -> BOOLEAN] /\ asked' \subseteq Nat
      /\ \A j \in Slots : j # i => killed'[j] = killed[j]
  BY Zenon DEF Move
<1>b. /\ state[i] = "RUNNING"
      /\ \A d \in Cpus : d # c => run[d] # i /\ cproc[d] # i
      /\ lock = c <=> pc[i] \in {"scan", "forkret"}
  BY <1>a, Executing
<1>c. pc'[i] = q /\ \A j \in Slots : j # i => pc'[j] = pc[j]
  BY <1>a, Zenon DEF ProcInv, TypeOK
<1>d. /\ Place(i) = pc[i] /\ Place(i)' = q
      /\ \A j \in Slots : j # i => Place(j)' = Place(j)
  BY <1>a, <1>c, Zenon DEF Place
<1>r. /\ 0 \notin Slots /\ initproc \in Slots /\ None \notin Cpus
      /\ \A d \in Cpus : (run[d] = 0 \/ run[d] \in Slots) /\ (cproc[d] = 0 \/ cproc[d] \in Slots)
      /\ \A j \in Slots : parent[j] = 0 \/ parent[j] \in Slots
  BY Ranges, Zenon DEF ProcInv
<1>1. TypeOK'
  <2>1. pc' \in [Slots -> PcValues] /\ lock' \in Cpus \cup {None}
    BY <1>a, <1>l, Zenon DEF ProcInv, TypeOK, PcValues, Unlocked
  <2> QED BY <1>a, <1>k, <2>1, Zenon DEF ProcInv, TypeOK
<1>2. LockHandoff'
  BY <1>a, <1>b, <1>c, <1>l, <1>r DEF ProcInv, LockHandoff, Holding
<1>3. CpuInv'
  BY <1>a, <1>b, <1>c, <1>r DEF ProcInv, CpuInv
<1>4. OwnCpu'
  BY <1>a, Zenon DEF ProcInv, OwnCpu
<1>5. OnCpu'
  BY <1>a, <1>c, Zenon DEF ProcInv, OnCpu
<1>6. SlotInv'
  BY <1>a, <1>b, <1>c, <1>d DEF ProcInv, SlotInv, SlotOK, Unlocked
<1>7. ForkInv'
  <2>1. \A j \in Slots : Forking(j)' => Forking(j) /\ j # i
    BY <1>a, <1>d, Zenon DEF Forking
  <2>2. \A j \in Slots : Forking(j) => np[j] # i
    BY <1>b, Zenon DEF ProcInv, ForkInv, NewOK
  <2> QED BY <1>a, <1>c, <1>d, <2>1, <2>2 DEF ProcInv, ForkInv, NewOK
<1>8. ParentInv'
  BY <1>a, <1>d, <1>r, Zenon DEF ProcInv, ParentInv
<1>9. WaitInv'
  BY <1>a, <1>b, <1>k, Zenon DEF ProcInv, WaitInv
<1> QED BY <1>1, <1>2, <1>3, <1>4, <1>5, <1>6, <1>7, <1>8, <1>9, Zenon DEF ProcInv

\* The steps that are such moves: the calls and faults of user code, wait() when it
\* takes the lock or gives up, and forkret().
LEMMA Inv_moves ==
  ASSUME ProcInv, NEW c \in Cpus, NEW i \in Slots,
         \/ exit_start(c, i) \/ fault(c, i) \/ wait_start(c, i)
         \/ wait_lock(c, i) \/ wait_fail(c, i) \/ forkret(c, i)
  PROVE  ProcInv'
<1>t. killed \in [Slots -> BOOLEAN] /\ asked \subseteq Nat /\ pid \in [Slots -> 0..MaxPid] /\ MaxPid \in Nat
  BY PidsAssumption, Zenon DEF ProcInv, TypeOK
<1>1. CASE exit_start(c, i)
  <2>1. Move(c, i, "exit")
    BY <1>1, <1>t, Zenon DEF exit_start, Move, At, table, mem, cpu
  <2> QED BY <2>1, Inv_Move, Zenon
<1>2. CASE fault(c, i)
  <2>1. pid[i] \in Nat /\ killed' \in [Slots -> BOOLEAN] /\ \A j \in Slots : j # i => killed'[j] = killed[j]
    BY <1>2, <1>t DEF fault
  <2>2. asked' \subseteq Nat
    BY <1>2, <1>t, <2>1, Zenon DEF fault
  <2>3. Move(c, i, "exit")
    BY <1>2, <2>1, <2>2, Zenon DEF fault, Move, At, mem, cpu
  <2> QED BY <2>3, Inv_Move, Zenon
<1>3. CASE wait_start(c, i)
  <2>1. Move(c, i, "wait")
    BY <1>3, <1>t, Zenon DEF wait_start, Move, At, table, mem, cpu
  <2> QED BY <2>1, Inv_Move, Zenon
<1>4. CASE wait_lock(c, i)
  <2>1. Move(c, i, "scan")
    BY <1>4, <1>t, Zenon DEF wait_lock, Move, At, table, mem, cpu
  <2> QED BY <2>1, Inv_Move, Zenon
<1>5. CASE wait_fail(c, i)
  <2>1. Move(c, i, "user")
    BY <1>5, <1>t, Zenon DEF wait_fail, Move, At, table, mem, cpu
  <2> QED BY <2>1, Inv_Move, Zenon
<1>6. CASE forkret(c, i)
  <2>1. Move(c, i, "user")
    BY <1>6, <1>t, Zenon DEF forkret, Move, At, table, mem, cpu
  <2> QED BY <2>1, Inv_Move, Zenon
<1> QED BY <1>1, <1>2, <1>3, <1>4, <1>5, <1>6, Zenon

\* allocproc() takes a slot that nobody uses.
LEMMA Inv_allocproc ==
  ASSUME ProcInv, NEW c \in Cpus, NEW i \in Slots, allocproc(c, i)
  PROVE  ProcInv'
<1> DEFINE free == {k \in Slots : state[k] = "UNUSED"}
           n == First(free)
<1>a. /\ run[c] = i /\ pc[i] = "user"
      /\ free # {} /\ nextpid <= MaxPid
      /\ state' = [state EXCEPT ![n] = "EMBRYO"] /\ np' = [np EXCEPT ![i] = n]
      /\ pc' = [pc EXCEPT ![i] = "kalloc"]
      /\ pid' = [pid EXCEPT ![n] = nextpid] /\ nextpid' = nextpid + 1
      /\ UNCHANGED <<parent, chan, killed, kstack, pgdir, lock, run, cproc, cr3, pos, ret, asked>>
  BY Zenon DEF allocproc, mem, cpu, At
<1>n. n \in Slots /\ state[n] = "UNUSED"
  <2>1. n \in free
    BY <1>a, FirstIn, Zenon
  <2> QED BY <2>1, Zenon
<1> HIDE DEF n
<1>b. /\ state[i] = "RUNNING" /\ n # i
      /\ \A d \in Cpus : d # c => run[d] # i /\ cproc[d] # i
  BY <1>a, <1>n, Executing
<1>c. /\ pc'[i] = "kalloc" /\ np'[i] = n /\ state'[n] = "EMBRYO"
      /\ \A j \in Slots : j # i => pc'[j] = pc[j] /\ np'[j] = np[j]
      /\ \A j \in Slots : j # n => state'[j] = state[j]
  BY <1>a, <1>n, Zenon DEF ProcInv, TypeOK
<1>d. /\ Place(i)' = "kalloc" /\ Place(i) = "user"
      /\ \A j \in Slots : j # i => Place(j)' = Place(j)
  BY <1>a, <1>c DEF Place
<1>r. /\ 0 \notin Slots /\ initproc \in Slots /\ None \notin Cpus
      /\ \A d \in Cpus : (run[d] = 0 \/ run[d] \in Slots) /\ (cproc[d] = 0 \/ cproc[d] \in Slots)
      /\ \A j \in Slots : parent[j] = 0 \/ parent[j] \in Slots
  BY Ranges, Zenon DEF ProcInv
<1>e. pc[n] = "none" /\ ~kstack[n] /\ ~pgdir[n] /\ parent[n] = 0
  BY <1>n, Zenon DEF ProcInv, SlotInv, SlotOK
<1>f. \A d \in Cpus : run[d] # n /\ cproc[d] # n
  BY <1>n, <1>r DEF ProcInv, CpuInv
<1>1. TypeOK'
  <2>1. nextpid' \in 2..MaxPid+1 /\ nextpid \in 0..MaxPid
    <3>1. nextpid \in 2..MaxPid+1
      BY Zenon DEF ProcInv, TypeOK
    <3> QED BY <1>a, <3>1, PidsAssumption
  <2>2. n \in 0..NPROC
    BY <1>n, NPROCAssumption DEF Slots
  <2>4. pid' \in [Slots -> 0..MaxPid] /\ np' \in [Slots -> 0..NPROC]
    BY <1>a, <2>1, <2>2, Zenon DEF ProcInv, TypeOK
  <2>3. state' \in [Slots -> States] /\ pc' \in [Slots -> PcValues]
    BY <1>a, Zenon DEF ProcInv, TypeOK, States, PcValues, Unlocked
  <2> QED BY <1>a, <2>1, <2>3, <2>4, Zenon DEF ProcInv, TypeOK
<1>2. LockHandoff'
  BY <1>a, <1>b, <1>c, <1>r DEF ProcInv, LockHandoff, Holding
<1>3. CpuInv'
  BY <1>a, <1>b, <1>c, <1>f, <1>r DEF ProcInv, CpuInv
<1>4. OwnCpu'
  BY <1>a, Zenon DEF ProcInv, OwnCpu
<1>5. OnCpu'
  BY <1>a, <1>c DEF ProcInv, OnCpu
<1>6. SlotInv'
  BY <1>a, <1>b, <1>c, <1>d, <1>e DEF ProcInv, SlotInv, SlotOK, Unlocked
<1>7. ForkInv'
  <2>1. \A j \in Slots : j # i => Forking(j)' = Forking(j) /\ Place(j)' = Place(j)
    BY <1>d, Zenon DEF Forking
  <2>2. \A j \in Slots : Forking(j) => np[j] # n /\ np[j] # i
    BY <1>b, <1>n, Zenon DEF ProcInv, ForkInv, NewOK
  <2> QED BY <1>a, <1>b, <1>c, <1>d, <1>e, <1>n, <2>1, <2>2 DEF ProcInv, ForkInv, NewOK
<1>8. ParentInv'
  BY <1>a, <1>c, <1>d, <1>n, <1>r DEF ProcInv, ParentInv, Alive
<1>9. WaitInv'
  BY <1>a, <1>c, <1>n DEF ProcInv, WaitInv
<1> QED BY <1>1, <1>2, <1>3, <1>4, <1>5, <1>6, <1>7, <1>8, <1>9, Zenon DEF ProcInv

\* The steps of fork() between its two critical sections and the last one change the new
\* slot n, which is the caller's alone, and the caller's own place q.
Fill(c, i, n, q, s, ks, pg, pa, np_pc) ==
  /\ run[c] = i /\ np[i] = n /\ pc[i] \in {"kalloc", "copyuvm", "setrun"}
  /\ pc' = [pc EXCEPT ![i] = q, ![n] = np_pc]
  /\ state' = [state EXCEPT ![n] = s]
  /\ kstack' = [kstack EXCEPT ![n] = ks] /\ pgdir' = [pgdir EXCEPT ![n] = pg]
  /\ parent' = [parent EXCEPT ![n] = pa]
  /\ \/ /\ pc[i] = "kalloc" /\ q = "copyuvm" /\ s = "EMBRYO"
        /\ ks = TRUE /\ pg = FALSE /\ pa = 0 /\ np_pc = "forkret"
     \/ /\ pc[i] = "copyuvm" /\ q = "setrun" /\ s = "EMBRYO"
        /\ ks = TRUE /\ pg = TRUE /\ pa = i /\ np_pc = "forkret"
     \/ /\ pc[i] = "setrun" /\ q = "user" /\ s = "RUNNABLE"
        /\ ks = TRUE /\ pg = TRUE /\ pa = i /\ np_pc = "forkret"
     \/ /\ pc[i] \in {"kalloc", "copyuvm"} /\ q = "user" /\ s = "UNUSED"
        /\ ks = FALSE /\ pg = FALSE /\ pa = 0 /\ np_pc = "none"
  /\ UNCHANGED <<pid, chan, killed, nextpid, lock, run, cproc, cr3, pos, ret, np, asked>>

\* A step of fork() after allocproc() on the new slot n, which only the forking
\* process touches, preserves the invariant.
LEMMA Inv_Fill ==
  ASSUME ProcInv, NEW c \in Cpus, NEW i \in Slots,
         NEW n, NEW q, NEW s, NEW ks, NEW pg, NEW pa, NEW np_pc,
         Fill(c, i, n, q, s, ks, pg, pa, np_pc)
  PROVE  ProcInv'
<1>a. /\ run[c] = i /\ np[i] = n /\ pc[i] \in {"kalloc", "copyuvm", "setrun"}
      /\ pc' = [pc EXCEPT ![i] = q, ![n] = np_pc]
      /\ state' = [state EXCEPT ![n] = s]
      /\ kstack' = [kstack EXCEPT ![n] = ks] /\ pgdir' = [pgdir EXCEPT ![n] = pg]
      /\ parent' = [parent EXCEPT ![n] = pa]
      /\ UNCHANGED <<pid, chan, killed, nextpid, lock, run, cproc, cr3, pos, ret, np, asked>>
  BY Zenon DEF Fill
<1>w. \/ /\ pc[i] = "kalloc" /\ q = "copyuvm" /\ s = "EMBRYO"
         /\ ks = TRUE /\ pg = FALSE /\ pa = 0 /\ np_pc = "forkret"
      \/ /\ pc[i] = "copyuvm" /\ q = "setrun" /\ s = "EMBRYO"
         /\ ks = TRUE /\ pg = TRUE /\ pa = i /\ np_pc = "forkret"
      \/ /\ pc[i] = "setrun" /\ q = "user" /\ s = "RUNNABLE"
         /\ ks = TRUE /\ pg = TRUE /\ pa = i /\ np_pc = "forkret"
      \/ /\ pc[i] \in {"kalloc", "copyuvm"} /\ q = "user" /\ s = "UNUSED"
         /\ ks = FALSE /\ pg = FALSE /\ pa = 0 /\ np_pc = "none"
  BY Zenon DEF Fill
<1>x. /\ q \in {"copyuvm", "setrun", "user"} /\ s \in {"EMBRYO", "RUNNABLE", "UNUSED"}
      /\ np_pc \in {"none", "forkret"}
  BY <1>w, Zenon
<1>y. /\ s = "UNUSED" => np_pc = "none" /\ ~ks /\ ~pg /\ pa = 0
      /\ s = "RUNNABLE" => np_pc = "forkret" /\ ks /\ pg
  BY <1>w, Zenon
<1>f. Place(i) = pc[i] /\ Forking(i)
  BY <1>a, Zenon DEF Place, Forking
<1>n. /\ n \in Slots /\ n # i /\ n # initproc /\ state[n] = "EMBRYO"
      /\ \A d \in Cpus : run[d] # n /\ cproc[d] # n
  BY <1>a, <1>f, Filling, Zenon
<1>b. /\ state[i] = "RUNNING" /\ lock # c
      /\ \A d \in Cpus : d # c => run[d] # i /\ cproc[d] # i
  BY <1>a, Executing
<1>g. /\ lock' = lock /\ run' = run /\ cproc' = cproc /\ cr3' = cr3 /\ pos' = pos
      /\ ret' = ret /\ np' = np /\ chan' = chan /\ killed' = killed
  BY <1>a, Zenon
<1>h. /\ pc'[i] = q /\ pc'[n] = np_pc /\ state'[n] = s
      /\ \A j \in Slots : j # i /\ j # n => pc'[j] = pc[j]
      /\ \A j \in Slots : j # n => state'[j] = state[j]
  BY <1>a, <1>n, Zenon DEF ProcInv, TypeOK
<1>c. /\ pc'[i] = q /\ pc'[n] = np_pc /\ state'[n] = s /\ kstack'[n] = ks /\ pgdir'[n] = pg
      /\ parent'[n] = pa
      /\ \A j \in Slots : j # i /\ j # n => pc'[j] = pc[j]
      /\ \A j \in Slots : j # n => /\ state'[j] = state[j] /\ kstack'[j] = kstack[j]
                                   /\ pgdir'[j] = pgdir[j] /\ parent'[j] = parent[j]
  BY <1>a, <1>n, Zenon DEF ProcInv, TypeOK
<1>d. /\ Place(i)' = q /\ Place(n)' = np_pc /\ Place(n) \in {"none", "forkret"}
      /\ \A j \in Slots : j # i /\ j # n => Place(j)' = Place(j)
  <2>1. pc[n] \in {"none", "forkret"}
    BY <1>n, Zenon DEF ProcInv, SlotInv, SlotOK
  <2> QED BY <1>g, <1>h, <1>x, <1>a, <2>1, Zenon DEF Place
<1>r. /\ 0 \notin Slots /\ initproc \in Slots /\ None \notin Cpus
      /\ \A d \in Cpus : (run[d] = 0 \/ run[d] \in Slots) /\ (cproc[d] = 0 \/ cproc[d] \in Slots)
      /\ \A j \in Slots : parent[j] = 0 \/ parent[j] \in Slots
  BY Ranges, Zenon DEF ProcInv
<1>p. parent[n] = IF pc[i] = "setrun" THEN i ELSE 0
  BY <1>a, <1>f, Zenon DEF ProcInv, ForkInv, NewOK
<1>1. TypeOK'
  <2>1. i \in 0..NPROC /\ 0 \in 0..NPROC
    BY NPROCAssumption DEF Slots
  <2>2. parent' \in [Slots -> 0..NPROC]
    BY <1>a, <1>w, <2>1, Zenon DEF ProcInv, TypeOK
  <2>3. state' \in [Slots -> States] /\ pc' \in [Slots -> PcValues]
    BY <1>a, <1>w, Zenon DEF ProcInv, TypeOK, States, PcValues, Unlocked
  <2>4. kstack' \in [Slots -> BOOLEAN] /\ pgdir' \in [Slots -> BOOLEAN]
    BY <1>a, <1>w, Zenon DEF ProcInv, TypeOK
  <2> QED BY <1>a, <2>2, <2>3, <2>4, Zenon DEF ProcInv, TypeOK
<1>2. LockHandoff'
  BY <1>b, <1>g, <1>h, <1>n, <1>r, <1>x, Zenon DEF ProcInv, LockHandoff, Holding
<1>3. CpuInv'
  BY <1>b, <1>g, <1>h, <1>n, <1>r, <1>x DEF ProcInv, CpuInv
<1>4. OwnCpu'
  BY <1>a, Zenon DEF ProcInv, OwnCpu
<1>5. OnCpu'
  BY <1>a, <1>c, <1>n, <1>w DEF ProcInv, OnCpu
<1>6. SlotInv'
  <2>1. SlotOK(n)'
    BY <1>a, <1>c, <1>d, <1>x, <1>y, Zenon DEF SlotOK
  <2>2. SlotOK(i)'
    <3>1. SlotOK(i)
      BY Zenon DEF ProcInv, SlotInv
    <3> QED BY <1>b, <1>c, <1>d, <1>n, <1>x, <3>1, Zenon DEF SlotOK, Unlocked
  <2>3. ASSUME NEW j \in Slots, j # i, j # n PROVE SlotOK(j)'
    <3>1. SlotOK(j)
      BY Zenon DEF ProcInv, SlotInv
    <3> QED BY <1>a, <1>c, <1>d, <2>3, <3>1, Zenon DEF SlotOK
  <2> QED BY <2>1, <2>2, <2>3, Zenon DEF SlotInv
<1>7. ForkInv'
  <2>1. \A j \in Slots : j # i /\ j # n => (Forking(j)' <=> Forking(j)) /\ Place(j)' = Place(j)
    BY <1>d, Zenon DEF Forking
  <2>2. \A j \in Slots : j # i /\ Forking(j) => np[j] # n /\ np[j] # i
    BY <1>a, <1>b, <1>f, Zenon DEF ProcInv, ForkInv, NewOK
  <2>3. ~Forking(n)' /\ ~Forking(n)
    BY <1>d, <1>w, Zenon DEF Forking
  <2>4. Forking(i)' => q \in {"copyuvm", "setrun"}
    BY <1>d, <1>w, Zenon DEF Forking
  <2>5. np' = np /\ np[i] = n
    BY <1>a, Zenon
  <2>6. ASSUME NEW j \in Slots, Forking(j)' PROVE NewOK(j)'
    <3>1. CASE j = i
      BY <1>c, <1>d, <1>n, <1>w, <2>4, <2>5, <2>6, <3>1, Zenon DEF NewOK
    <3>2. CASE j # i
      <4>1. Forking(j) /\ j # n /\ np[j] # n /\ np[j] # i /\ Place(j)' = Place(j) /\ NewOK(j)
        BY <2>1, <2>2, <2>3, <2>6, <3>2, Zenon DEF ProcInv, ForkInv
      <4> QED BY <1>c, <2>5, <4>1, Zenon DEF NewOK
    <3> QED BY <3>1, <3>2, Zenon
  <2>7. ASSUME NEW j \in Slots, NEW k \in Slots, Forking(j)', Forking(k)', np[j] = np[k] PROVE j = k
    <3>1. Forking(j) /\ Forking(k)
      BY <1>f, <2>1, <2>3, <2>7, Zenon
    <3> QED BY <2>7, <3>1, Zenon DEF ProcInv, ForkInv
  <2> QED BY <2>5, <2>6, <2>7, Zenon DEF ForkInv
<1>8. ParentInv'
  BY <1>a, <1>b, <1>c, <1>d, <1>n, <1>p, <1>r, <1>w DEF ProcInv, ParentInv, Alive
<1>9. WaitInv'
  <2>1. \A j \in Slots : j # n => (state'[j] = "ZOMBIE" <=> state[j] = "ZOMBIE") /\ parent'[j] = parent[j]
    BY <1>c, Zenon
  <2>2. state'[n] \notin {"ZOMBIE", "SLEEPING"} /\ state[n] # "SLEEPING"
    BY <1>c, <1>n, <1>x, Zenon
  <2>3. \A j \in Slots : state[j] = "SLEEPING" => parent[n] # j
    <3>1. i = i /\ state[i] # "SLEEPING" /\ 0 \notin Slots
      BY <1>b, <1>r, Zenon
    <3> QED BY <1>p, <3>1, Zenon
  <2>4. \A j \in Slots : state'[j] = "SLEEPING" => state[j] = "SLEEPING"
    BY <1>c, <2>2, Zenon
  <2> QED BY <1>g, <1>h, <2>1, <2>2, <2>3, <2>4 DEF ProcInv, WaitInv
<1> QED BY <1>1, <1>2, <1>3, <1>4, <1>5, <1>6, <1>7, <1>8, <1>9, Zenon DEF ProcInv

\* The outcomes of fork()'s steps are fills of the new slot.
LEMMA Inv_fork ==
  ASSUME ProcInv, NEW c \in Cpus, NEW i \in Slots,
         kalloc(c, i) \/ copyuvm(c, i) \/ setrun(c, i)
  PROVE  ProcInv'
<1>a. run[c] = i /\ pc[i] \in {"kalloc", "copyuvm", "setrun"}
  BY Zenon DEF kalloc, copyuvm, setrun, At
<1>f. Place(i) = pc[i] /\ Forking(i)
  BY <1>a, Zenon DEF Place, Forking
<1>n. PICK n \in Slots : np[i] = n /\ n # i /\ state[n] = "EMBRYO"
  BY <1>f, Filling, Zenon
<1>e. /\ pc[i] = "kalloc" => pc[n] = "none" /\ kstack[n] = FALSE
      /\ pc[i] # "kalloc" => pc[n] = "forkret" /\ kstack[n] = TRUE
      /\ IF pc[i] = "setrun" THEN pgdir[n] = TRUE /\ parent[n] = i ELSE pgdir[n] = FALSE /\ parent[n] = 0
  BY <1>f, <1>n, Zenon DEF ProcInv, ForkInv, NewOK, TypeOK
<1>t. /\ state = [state EXCEPT ![n] = state[n]] /\ kstack = [kstack EXCEPT ![n] = kstack[n]]
      /\ pgdir = [pgdir EXCEPT ![n] = pgdir[n]] /\ parent = [parent EXCEPT ![n] = parent[n]]
  BY <1>n, Zenon DEF ProcInv, TypeOK
<1>u. \A q : [pc EXCEPT ![i] = q] = [pc EXCEPT ![i] = q, ![n] = pc[n]]
  BY <1>n, Zenon DEF ProcInv, TypeOK
<1>1. CASE kalloc(c, i)
  <2>1. \/ Fill(c, i, n, "copyuvm", "EMBRYO", TRUE, FALSE, 0, "forkret")
        \/ Fill(c, i, n, "user", "UNUSED", FALSE, FALSE, 0, "none")
    BY <1>1, <1>a, <1>e, <1>n, <1>t, <1>u DEF kalloc, Fill, At, cpu
  <2> QED BY <2>1, Inv_Fill, Zenon
<1>2. CASE copyuvm(c, i)
  <2>1. \/ Fill(c, i, n, "setrun", "EMBRYO", TRUE, TRUE, i, "forkret")
        \/ Fill(c, i, n, "user", "UNUSED", FALSE, FALSE, 0, "none")
    BY <1>2, <1>a, <1>e, <1>n, <1>t, <1>u DEF copyuvm, Fill, At, cpu
  <2> QED BY <2>1, Inv_Fill, Zenon
<1>3. CASE setrun(c, i)
  <2>1. pc[i] = "setrun"
    BY <1>3, Zenon DEF setrun, At
  <2>2. kstack[n] = TRUE /\ pgdir[n] = TRUE /\ parent[n] = i /\ pc[n] = "forkret"
    BY <2>1, <1>e, Zenon
  <2>3. [pc EXCEPT ![i] = "user"] = [pc EXCEPT ![i] = "user", ![n] = "forkret"]
    BY <1>u, <2>2, Zenon
  <2>4. /\ pc' = [pc EXCEPT ![i] = "user"] /\ state' = [state EXCEPT ![n] = "RUNNABLE"]
        /\ kstack' = kstack /\ pgdir' = pgdir /\ parent' = parent
    BY <1>3, <1>n, Zenon DEF setrun, mem
  <2>5. /\ pc' = [pc EXCEPT ![i] = "user", ![n] = "forkret"]
        /\ state' = [state EXCEPT ![n] = "RUNNABLE"]
        /\ kstack' = [kstack EXCEPT ![n] = TRUE] /\ pgdir' = [pgdir EXCEPT ![n] = TRUE]
        /\ parent' = [parent EXCEPT ![n] = i]
    BY <1>t, <2>2, <2>3, <2>4, Zenon
  <2>6. Fill(c, i, n, "user", "RUNNABLE", TRUE, TRUE, i, "forkret")
    BY <2>1, <2>5, <1>3, <1>a, <1>n, Zenon DEF setrun, Fill, cpu
  <2> QED BY <2>6, Inv_Fill, Zenon
<1> QED BY <1>1, <1>2, <1>3, Zenon

\* A process gives up its CPU: yield() makes it RUNNABLE, sleep() in wait() SLEEPING.
LEMMA Inv_leave ==
  ASSUME ProcInv, NEW c \in Cpus, NEW i \in Slots, yield(c, i) \/ wait_sleep(c, i)
  PROVE  ProcInv'
<1>a. /\ run[c] = i /\ pc[i] \in Unlocked \cup {"scan"} /\ lock' \in {c, lock}
      /\ pc[i] # "scan" => lock = None /\ lock' = c
      /\ pc[i] = "scan" => lock' = lock
      /\ state' = [state EXCEPT ![i] = IF pc[i] = "scan" THEN "SLEEPING" ELSE "RUNNABLE"]
      /\ ret' = [ret EXCEPT ![i] = pc[i]]
      /\ pc' = [pc EXCEPT ![i] = "sched"]
      /\ UNCHANGED <<pid, parent, killed, kstack, pgdir, nextpid, run, cproc, cr3, pos, np, asked>>
  <2>1. CASE yield(c, i)
    BY <2>1, Zenon DEF yield, mem, cpu, At, Unlocked
  <2>2. CASE wait_sleep(c, i)
    BY <2>2, Zenon DEF wait_sleep, mem, cpu, At, Unlocked
  <2> QED BY <2>1, <2>2, Zenon
<1>s. /\ chan' = IF pc[i] = "scan" THEN [chan EXCEPT ![i] = i] ELSE chan
      /\ pc[i] = "scan" => /\ \A j \in Slots : parent[j] = i => state[j] # "ZOMBIE"
                           /\ ~killed[i]
                           /\ \E j \in Slots : parent[j] = i
  <2>1. CASE yield(c, i)
    BY <2>1, Zenon DEF yield, At, Unlocked
  <2>2. CASE wait_sleep(c, i)
    BY <2>2, Zenon DEF wait_sleep, At, Children, Zombies
  <2> QED BY <2>1, <2>2, Zenon
<1>b. /\ state[i] = "RUNNING" /\ (lock = c <=> pc[i] = "scan")
      /\ \A d \in Cpus : d # c => run[d] # i /\ cproc[d] # i
  BY <1>a, Executing DEF Unlocked
<1>l. lock' = c
  BY <1>a, <1>b, Zenon
<1>g. /\ run' = run /\ cproc' = cproc /\ cr3' = cr3 /\ pos' = pos /\ np' = np
      /\ killed' = killed /\ parent' = parent /\ kstack' = kstack /\ pgdir' = pgdir
  BY <1>a, Zenon
<1>h. /\ pc'[i] = "sched" /\ ret'[i] = pc[i] /\ state'[i] \in {"SLEEPING", "RUNNABLE"}
      /\ state'[i] = "SLEEPING" <=> pc[i] = "scan"
      /\ \A j \in Slots : j # i => state'[j] = state[j] /\ pc'[j] = pc[j] /\ ret'[j] = ret[j]
  BY <1>a, Zenon DEF ProcInv, TypeOK
<1>k. /\ pc[i] = "scan" => chan'[i] = i
      /\ \A j \in Slots : j # i => chan'[j] = chan[j]
  BY <1>s, Zenon DEF ProcInv, TypeOK
<1>d. \A j \in Slots : Place(j)' = Place(j)
  BY <1>a, <1>h DEF Place, Unlocked
<1>r. /\ 0 \notin Slots /\ initproc \in Slots /\ None \notin Cpus
      /\ \A d \in Cpus : (run[d] = 0 \/ run[d] \in Slots) /\ (cproc[d] = 0 \/ cproc[d] \in Slots)
      /\ \A j \in Slots : parent[j] = 0 \/ parent[j] \in Slots
  BY Ranges, Zenon DEF ProcInv
<1>1. TypeOK'
  <2>1. i \in 0..NPROC
    BY NPROCAssumption DEF Slots
  <2>2. chan' \in [Slots -> 0..NPROC] /\ lock' \in Cpus \cup {None}
    BY <1>l, <1>s, <2>1, Zenon DEF ProcInv, TypeOK
  <2>3. state' \in [Slots -> States] /\ pc' \in [Slots -> PcValues]
    BY <1>a, Zenon DEF ProcInv, TypeOK, States, PcValues, Unlocked
  <2>4. ret' \in [Slots -> Unlocked \cup {"scan", "none"}]
    BY <1>a, Zenon DEF ProcInv, TypeOK
  <2> QED BY <1>a, <2>2, <2>3, <2>4, Zenon DEF ProcInv, TypeOK
<1>2. LockHandoff'
  BY <1>a, <1>b, <1>g, <1>h, <1>l, <1>r DEF ProcInv, LockHandoff, Holding
<1>3. CpuInv'
  BY <1>b, <1>g, <1>h, <1>r DEF ProcInv, CpuInv
<1>4. OwnCpu'
  BY <1>g, Zenon DEF ProcInv, OwnCpu
<1>5. OnCpu'
  BY <1>a, <1>g, <1>h DEF ProcInv, OnCpu
<1>6. SlotInv'
  BY <1>a, <1>b, <1>d, <1>g, <1>h DEF ProcInv, SlotInv, SlotOK, Unlocked
<1>7. ForkInv'
  <2>1. \A j \in Slots : Forking(j) => np[j] # i
    BY <1>b, Zenon DEF ProcInv, ForkInv, NewOK
  <2> QED BY <1>d, <1>g, <1>h, <2>1 DEF ProcInv, ForkInv, NewOK, Forking
<1>8. ParentInv'
  BY <1>b, <1>d, <1>g, <1>h, <1>r, Zenon DEF ProcInv, ParentInv, Alive
<1>9. WaitInv'
  <2>1. ASSUME NEW j \in Slots, state'[j] = "SLEEPING" PROVE
          /\ chan'[j] = j /\ ~killed[j]
          /\ \E k \in Slots : parent[k] = j
          /\ \A k \in Slots : parent[k] = j => state[k] # "ZOMBIE"
    <3>1. CASE j = i
      BY <1>h, <1>k, <1>s, <2>1, <3>1, Zenon
    <3>2. CASE j # i
      BY <1>h, <1>k, <2>1, <3>2, Zenon DEF ProcInv, WaitInv
    <3> QED BY <3>1, <3>2, Zenon
  <2>2. \A k \in Slots : state'[k] = "ZOMBIE" => state[k] = "ZOMBIE"
    BY <1>h, Zenon
  <2> QED BY <1>g, <2>1, <2>2 DEF WaitInv
<1> QED BY <1>1, <1>2, <1>3, <1>4, <1>5, <1>6, <1>7, <1>8, <1>9, Zenon DEF ProcInv

\* wakeup1() makes sleepers RUNNABLE, and all that sleep on the channel.
LEMMA Wakes ==
  ASSUME NEW st \in [Slots -> States], NEW ch
  PROVE  /\ wakeup1(st, ch) \in [Slots -> States]
         /\ \A j \in Slots : \/ wakeup1(st, ch)[j] = st[j]
                             \/ st[j] = "SLEEPING" /\ wakeup1(st, ch)[j] = "RUNNABLE"
         /\ \A j \in Slots : chan[j] = ch => wakeup1(st, ch)[j] # "SLEEPING"
BY Zenon DEF wakeup1, States

\* exit() wakes the parent and, if it leaves it a zombie, initproc.
LEMMA WakesParents ==
  ASSUME ProcInv, NEW i \in Slots
  PROVE  /\ wakeParents(i) \in [Slots -> States]
         /\ \A j \in Slots : \/ wakeParents(i)[j] = state[j]
                             \/ state[j] = "SLEEPING" /\ wakeParents(i)[j] = "RUNNABLE"
         /\ \A j \in Slots : parent[i] = j => wakeParents(i)[j] # "SLEEPING"
         /\ (\E j \in Slots : parent[j] = i /\ state[j] = "ZOMBIE") => wakeParents(i)[initproc] # "SLEEPING"
<1> DEFINE w == wakeup1(state, parent[i])
           v == wakeup1(w, initproc)
<1>1. state \in [Slots -> States] /\ initproc \in Slots
  BY Ranges, Zenon DEF ProcInv, TypeOK
<1>2. \A j \in Slots : state[j] = "SLEEPING" => chan[j] = j
  BY Zenon DEF ProcInv, WaitInv
<1>3. /\ w \in [Slots -> States]
      /\ \A j \in Slots : w[j] = state[j] \/ (state[j] = "SLEEPING" /\ w[j] = "RUNNABLE")
      /\ \A j \in Slots : chan[j] = parent[i] => w[j] # "SLEEPING"
  BY <1>1, Wakes, Zenon
<1> HIDE DEF w
<1>4. /\ v \in [Slots -> States]
      /\ \A j \in Slots : v[j] = w[j] \/ (w[j] = "SLEEPING" /\ v[j] = "RUNNABLE")
      /\ \A j \in Slots : chan[j] = initproc => v[j] # "SLEEPING"
  BY <1>3, Wakes
<1> HIDE DEF v
<1>5. /\ (\E j \in Slots : parent[j] = i /\ state[j] = "ZOMBIE") => wakeParents(i) = v
      /\ wakeParents(i) \in {v, w}
  BY Zenon DEF wakeParents, Children, v, w
<1>6. \A j \in Slots : parent[i] = j => w[j] # "SLEEPING" /\ v[j] # "SLEEPING"
  BY <1>2, <1>3, <1>4
<1>7. v[initproc] # "SLEEPING"
  BY <1>1, <1>2, <1>3, <1>4, Zenon
<1> QED BY <1>3, <1>4, <1>5, <1>6, <1>7, Zenon

\* exit() leaves a zombie, gives its children to initproc and keeps the lock.
LEMMA Inv_exit ==
  ASSUME ProcInv, NEW c \in Cpus, NEW i \in Slots, exit(c, i)
  PROVE  ProcInv'
<1>a. /\ run[c] = i /\ pc[i] = "exit" /\ lock = None /\ lock' = c
      /\ parent' = reparent(i)
      /\ state' = [wakeParents(i) EXCEPT ![i] = "ZOMBIE"]
      /\ ret' = [ret EXCEPT ![i] = "none"]
      /\ pc' = [pc EXCEPT ![i] = "sched"]
      /\ UNCHANGED <<pid, chan, killed, kstack, pgdir, nextpid, run, cproc, cr3, pos, np, asked>>
  BY Zenon DEF exit, mem, cpu, At
<1>b. /\ state[i] = "RUNNING"
      /\ \A d \in Cpus : d # c => run[d] # i /\ cproc[d] # i
  BY <1>a, Executing
<1>g. /\ run' = run /\ cproc' = cproc /\ cr3' = cr3 /\ pos' = pos /\ np' = np
      /\ killed' = killed /\ chan' = chan /\ kstack' = kstack /\ pgdir' = pgdir
  BY <1>a, Zenon
<1>w. /\ wakeParents(i) \in [Slots -> States]
      /\ \A j \in Slots : \/ wakeParents(i)[j] = state[j]
                          \/ state[j] = "SLEEPING" /\ wakeParents(i)[j] = "RUNNABLE"
      /\ \A j \in Slots : parent[i] = j => wakeParents(i)[j] # "SLEEPING"
      /\ (\E j \in Slots : parent[j] = i /\ state[j] = "ZOMBIE") => wakeParents(i)[initproc] # "SLEEPING"
  BY WakesParents, Zenon
<1>h. /\ pc'[i] = "sched" /\ ret'[i] = "none" /\ state'[i] = "ZOMBIE"
      /\ \A j \in Slots : j # i => /\ pc'[j] = pc[j] /\ ret'[j] = ret[j]
                                   /\ \/ state'[j] = state[j]
                                      \/ state[j] = "SLEEPING" /\ state'[j] = "RUNNABLE"
  BY <1>a, <1>w, Zenon DEF ProcInv, TypeOK
<1>i. /\ i # initproc
      /\ \A j \in Slots : parent[i] = j => state'[j] # "SLEEPING"
      /\ (\E j \in Slots : parent[j] = i /\ state[j] = "ZOMBIE") => state'[initproc] # "SLEEPING"
  <2>1. i # initproc
    BY <1>a, Zenon DEF ProcInv, ParentInv, Place
  <2>2. \A j \in Slots : state'[j] = IF j = i THEN "ZOMBIE" ELSE wakeParents(i)[j]
    BY <1>a, <1>w, Zenon
  <2>3. initproc \in Slots
    BY Ranges, Zenon DEF ProcInv
  <2> QED BY <1>w, <2>1, <2>2, <2>3, Zenon
<1>p. \A j \in Slots : parent'[j] = IF parent[j] = i THEN initproc ELSE parent[j]
  BY <1>a, Zenon DEF reparent
<1>d. /\ Place(i) = "exit" /\ Place(i)' = "none"
      /\ \A j \in Slots : j # i => Place(j)' = Place(j)
  BY <1>a, <1>h DEF Place
<1>r. /\ 0 \notin Slots /\ initproc \in Slots /\ None \notin Cpus
      /\ \A d \in Cpus : (run[d] = 0 \/ run[d] \in Slots) /\ (cproc[d] = 0 \/ cproc[d] \in Slots)
      /\ \A j \in Slots : parent[j] = 0 \/ parent[j] \in Slots
  BY Ranges, Zenon DEF ProcInv
<1>1. TypeOK'
  <2>1. initproc \in 0..NPROC
    BY NPROCAssumption DEF initproc
  <2>2. parent' \in [Slots -> 0..NPROC]
    BY <1>a, <2>1, Zenon DEF ProcInv, TypeOK, reparent
  <2>3. state' \in [Slots -> States] /\ pc' \in [Slots -> PcValues]
    BY <1>a, <1>w, Zenon DEF ProcInv, TypeOK, States, PcValues, Unlocked
  <2>4. ret' \in [Slots -> Unlocked \cup {"scan", "none"}] /\ lock' \in Cpus \cup {None}
    BY <1>a, Zenon DEF ProcInv, TypeOK
  <2> QED BY <1>a, <2>2, <2>3, <2>4, Zenon DEF ProcInv, TypeOK
<1>2. LockHandoff'
  BY <1>a, <1>b, <1>g, <1>h, <1>r DEF ProcInv, LockHandoff, Holding
<1>3. CpuInv'
  <2>1. \A j \in Slots : /\ j # i => (state'[j] = "RUNNING" <=> state[j] = "RUNNING")
                         /\ state'[j] \in {"UNUSED", "EMBRYO"} => state[j] \in {"UNUSED", "EMBRYO"}
    BY <1>h, Zenon
  <2> QED BY <1>b, <1>g, <1>h, <1>r, <2>1 DEF ProcInv, CpuInv
<1>4. OwnCpu'
  BY <1>g, Zenon DEF ProcInv, OwnCpu
<1>5. OnCpu'
  BY <1>a, <1>g, <1>h DEF ProcInv, OnCpu
<1>6. SlotInv'
  <2>1. SlotOK(i)'
    <3>1. kstack[i] /\ pgdir[i]
      BY <1>b, Zenon DEF ProcInv, SlotInv, SlotOK
    <3> QED BY <1>g, <1>h, <3>1, Zenon DEF SlotOK
  <2>2. ASSUME NEW j \in Slots, j # i PROVE SlotOK(j)'
    <3>1. SlotOK(j)
      BY Zenon DEF ProcInv, SlotInv
    <3>2. state[j] = "UNUSED" => parent'[j] = 0
      BY <1>p, <1>r, <3>1, Zenon DEF SlotOK
    <3>3. CASE state'[j] = state[j]
      BY <1>d, <1>g, <1>h, <2>2, <3>1, <3>2, <3>3, Zenon DEF SlotOK
    <3>4. CASE state[j] = "SLEEPING" /\ state'[j] = "RUNNABLE"
      BY <1>d, <1>g, <1>h, <2>2, <3>1, <3>4, Zenon DEF SlotOK, Place
    <3> QED BY <1>h, <2>2, <3>3, <3>4, Zenon
  <2> QED BY <2>1, <2>2, Zenon DEF SlotInv
<1>7. ForkInv'
  <2>1. \A j \in Slots : Forking(j)' => Forking(j) /\ j # i /\ Place(j)' = Place(j)
    BY <1>d, Zenon DEF Forking
  <2>2. ASSUME NEW j \in Slots, Forking(j), j # i, Place(j)' = Place(j) PROVE NewOK(j)'
    <3>0. NewOK(j)
      BY <2>2, Zenon DEF ProcInv, ForkInv
    <3>1. NewOK(j) /\ np[j] # i /\ np[j] \in Slots /\ parent[np[j]] # i
      BY <1>b, <1>r, <2>2, <3>0, Zenon DEF NewOK
    <3>2. parent'[np[j]] = parent[np[j]] /\ state'[np[j]] = state[np[j]] /\ pc'[np[j]] = pc[np[j]]
      BY <1>h, <1>p, <3>1, Zenon DEF NewOK
    <3> QED BY <1>g, <2>2, <3>1, <3>2, Zenon DEF NewOK
  <2> QED BY <1>g, <2>1, <2>2, Zenon DEF ProcInv, ForkInv
<1>8. ParentInv'
  <2>1. \A j \in Slots : j # i /\ state[j] \in Alive => state'[j] \in Alive
    BY <1>h, Zenon DEF Alive
  <2>2. \A j \in Slots : state'[j] \notin {"UNUSED", "EMBRYO"} => state[j] \notin {"UNUSED", "EMBRYO"}
    BY <1>b, <1>h, Zenon
  <2>3. parent[initproc] = 0 /\ state[initproc] \in Alive
    BY Zenon DEF ProcInv, ParentInv
  <2>4. ASSUME NEW j \in Slots, parent'[j] # 0 PROVE parent'[j] # j /\ state'[parent'[j]] \in Alive
    <3>1. CASE parent[j] = i
      BY <1>i, <1>p, <1>r, <2>1, <2>3, <3>1, Zenon
    <3>2. CASE parent[j] # i
      BY <1>p, <1>r, <2>1, <2>4, <3>2, Zenon DEF ProcInv, ParentInv
    <3> QED BY <3>1, <3>2, Zenon
  <2>5. ASSUME NEW j \in Slots \ {initproc}, state'[j] \notin {"UNUSED", "EMBRYO"} PROVE parent'[j] # 0
    BY <1>p, <1>r, <2>2, <2>5, Zenon DEF ProcInv, ParentInv
  <2>6. parent'[initproc] = 0 /\ state'[initproc] \in Alive /\ Place(initproc)' # "exit"
    BY <1>d, <1>i, <1>p, <1>r, <2>1, <2>3, Zenon DEF ProcInv, ParentInv
  <2> QED BY <2>4, <2>5, <2>6, Zenon DEF ParentInv, initproc
<1>9. WaitInv'
  <2>1. \A j \in Slots : state'[j] = "SLEEPING" => state[j] = "SLEEPING" /\ parent[i] # j
    BY <1>h, <1>i, Zenon
  <2>2. \A j \in Slots : parent[j] # j
    BY <1>r, Zenon DEF ProcInv, ParentInv
  <2>3. ASSUME NEW j \in Slots, state'[j] = "SLEEPING" PROVE
          /\ chan[j] = j /\ ~killed[j]
          /\ \E k \in Slots : parent'[k] = j
          /\ \A k \in Slots : parent'[k] = j => state'[k] # "ZOMBIE"
    <3>1. /\ chan[j] = j /\ ~killed[j] /\ j # i
          /\ \E k \in Slots : parent[k] = j
          /\ \A k \in Slots : parent[k] = j => state[k] # "ZOMBIE"
      BY <1>b, <2>1, <2>3, Zenon DEF ProcInv, WaitInv
    <3>2. \E k \in Slots : parent'[k] = j
      BY <1>p, <3>1, Zenon
    <3>3. ASSUME NEW k \in Slots, parent'[k] = j PROVE state'[k] # "ZOMBIE"
      <4>1. k # i
        BY <1>p, <2>1, <2>2, <2>3, <3>3, Zenon
      <4>2. state[k] # "ZOMBIE"
        BY <1>i, <1>p, <2>3, <3>1, <3>3, Zenon
      <4> QED BY <1>h, <4>1, <4>2, Zenon
    <3> QED BY <3>1, <3>2, <3>3, Zenon
  <2> QED BY <1>g, <2>3, Zenon DEF WaitInv
<1> QED BY <1>1, <1>2, <1>3, <1>4, <1>5, <1>6, <1>7, <1>8, <1>9, Zenon DEF ProcInv

\* wait() frees a zombie child: no CPU has it any more, so its stack and memory are unused.
LEMMA Inv_wait_reap ==
  ASSUME ProcInv, NEW c \in Cpus, NEW i \in Slots, wait_reap(c, i)
  PROVE  ProcInv'
<1>0. PICK n \in Slots : n = First(Zombies(i)) /\ state[n] = "ZOMBIE" /\ parent[n] = i
  <2>1. Zombies(i) \in SUBSET Slots /\ Zombies(i) # {}
    BY Zenon DEF wait_reap, Zombies, Children
  <2>2. First(Zombies(i)) \in Zombies(i)
    BY <2>1, FirstIn, Zenon
  <2> QED BY <2>2, Zenon DEF Zombies, Children
<1>a. /\ run[c] = i /\ pc[i] = "scan" /\ lock' = None
      /\ kstack' = [kstack EXCEPT ![n] = FALSE] /\ pgdir' = [pgdir EXCEPT ![n] = FALSE]
      /\ pid' = [pid EXCEPT ![n] = 0] /\ parent' = [parent EXCEPT ![n] = 0]
      /\ killed' = [killed EXCEPT ![n] = FALSE] /\ state' = [state EXCEPT ![n] = "UNUSED"]
      /\ pc' = [pc EXCEPT ![i] = "user", ![n] = "none"]
      /\ UNCHANGED <<chan, nextpid, run, cproc, cr3, pos, ret, np, asked>>
  BY <1>0, Zenon DEF wait_reap, cpu, At
<1>b. /\ state[i] = "RUNNING" /\ lock = c /\ n # i
      /\ \A d \in Cpus : d # c => run[d] # i /\ cproc[d] # i
      /\ cproc[c] = i
  BY <1>0, <1>a, Executing, Zenon
<1>g. /\ run' = run /\ cproc' = cproc /\ cr3' = cr3 /\ pos' = pos /\ np' = np /\ ret' = ret /\ chan' = chan
      /\ lock' = None /\ run[c] = i
  BY <1>a, Zenon
<1>r. /\ 0 \notin Slots /\ initproc \in Slots /\ None \notin Cpus
      /\ \A d \in Cpus : (run[d] = 0 \/ run[d] \in Slots) /\ (cproc[d] = 0 \/ cproc[d] \in Slots)
      /\ \A j \in Slots : parent[j] = 0 \/ parent[j] \in Slots
  BY Ranges, Zenon DEF ProcInv
<1>n. \A d \in Cpus : run[d] # n /\ cproc[d] # n
  <2>1. ASSUME NEW d \in Cpus, cproc[d] = n PROVE FALSE
    <3>1. d # c /\ n # 0 /\ pos[d] # 0
      BY <1>b, <1>r, <2>1, Zenon DEF ProcInv, CpuInv
    <3>2. ~Holding(d)
      BY <1>b, <3>1, Zenon DEF ProcInv, LockHandoff
    <3>3. run[d] # 0 /\ run[d] = n
      BY <2>1, <3>1, <3>2, Zenon DEF Holding, ProcInv, CpuInv
    <3>4. pc[n] \notin {"scan", "sched", "swtched", "forkret"}
      BY <3>2, <3>3, Zenon DEF Holding
    <3> QED BY <1>0, <3>4, Zenon DEF ProcInv, SlotInv, SlotOK
  <2>2. ASSUME NEW d \in Cpus, run[d] = n PROVE FALSE
    BY <1>r, <2>1, <2>2, Zenon DEF ProcInv, CpuInv
  <2> QED BY <2>1, <2>2, Zenon
<1>h. /\ pc'[i] = "user" /\ pc'[n] = "none" /\ state'[n] = "UNUSED" /\ parent'[n] = 0
      /\ \A j \in Slots : j # i /\ j # n => pc'[j] = pc[j]
      /\ \A j \in Slots : j # n => state'[j] = state[j] /\ parent'[j] = parent[j]
  BY <1>a, <1>b, Zenon DEF ProcInv, TypeOK
<1>k. /\ ~kstack'[n] /\ ~pgdir'[n]
      /\ \A j \in Slots : j # n => kstack'[j] = kstack[j] /\ pgdir'[j] = pgdir[j] /\ killed'[j] = killed[j]
  BY <1>a, Zenon DEF ProcInv, TypeOK
<1>d. /\ Place(i)' = "user" /\ Place(i) = "scan" /\ Place(n)' = "none" /\ Place(n) = "none"
      /\ \A j \in Slots : j # i /\ j # n => Place(j)' = Place(j)
  <2>1. pc[n] \in {"sched", "swtched"} /\ ret[n] = "none"
    BY <1>0, Zenon DEF ProcInv, SlotInv, SlotOK
  <2> QED BY <1>a, <1>g, <1>h, <2>1, Zenon DEF Place
<1>e. n # initproc /\ \A j \in Slots : parent[j] # n
  BY <1>0, <1>r, Zenon DEF ProcInv, ParentInv, Alive
<1>1. TypeOK'
  <2>1. 0 \in 0..NPROC /\ 0 \in 0..MaxPid
    BY NPROCAssumption, PidsAssumption
  <2>2. parent' \in [Slots -> 0..NPROC] /\ pid' \in [Slots -> 0..MaxPid]
    BY <1>a, <2>1, Zenon DEF ProcInv, TypeOK
  <2>3. state' \in [Slots -> States] /\ pc' \in [Slots -> PcValues]
    BY <1>a, Zenon DEF ProcInv, TypeOK, States, PcValues, Unlocked
  <2>4. kstack' \in [Slots -> BOOLEAN] /\ pgdir' \in [Slots -> BOOLEAN] /\ killed' \in [Slots -> BOOLEAN]
    BY <1>a, Zenon DEF ProcInv, TypeOK
  <2> QED BY <1>a, <2>2, <2>3, <2>4, Zenon DEF ProcInv, TypeOK
<1>2. LockHandoff'
  BY <1>b, <1>g, <1>h, <1>n, <1>r DEF ProcInv, LockHandoff, Holding
<1>3. CpuInv'
  BY <1>b, <1>g, <1>h, <1>n, <1>r DEF ProcInv, CpuInv
<1>4. OwnCpu'
  BY <1>g, Zenon DEF ProcInv, OwnCpu
<1>5. OnCpu'
  BY <1>a, <1>g, <1>h DEF ProcInv, OnCpu
<1>6. SlotInv'
  <2>1. SlotOK(n)'
    BY <1>h, <1>k, Zenon DEF SlotOK
  <2>2. SlotOK(i)'
    <3>1. SlotOK(i)
      BY Zenon DEF ProcInv, SlotInv
    <3> QED BY <1>b, <1>d, <1>h, <1>k, <3>1, Zenon DEF SlotOK, Unlocked
  <2>3. ASSUME NEW j \in Slots, j # i, j # n PROVE SlotOK(j)'
    <3>1. SlotOK(j)
      BY Zenon DEF ProcInv, SlotInv
    <3> QED BY <1>d, <1>g, <1>h, <1>k, <2>3, <3>1, Zenon DEF SlotOK
  <2> QED BY <2>1, <2>2, <2>3, Zenon DEF SlotInv
<1>7. ForkInv'
  <2>1. \A j \in Slots : Forking(j)' => Forking(j) /\ j # i /\ j # n /\ Place(j)' = Place(j)
    BY <1>d, Zenon DEF Forking
  <2>2. ASSUME NEW j \in Slots, Forking(j), j # i, j # n, Place(j)' = Place(j) PROVE NewOK(j)'
    <3>1. NewOK(j) /\ np[j] # i /\ np[j] # n /\ np[j] \in Slots
      BY <1>0, <1>b, <2>2, Zenon DEF ProcInv, ForkInv, NewOK
    <3> QED BY <1>g, <1>h, <1>k, <2>2, <3>1, Zenon DEF NewOK
  <2> QED BY <1>g, <2>1, <2>2, Zenon DEF ProcInv, ForkInv
<1>8. ParentInv'
  BY <1>d, <1>e, <1>h, <1>r DEF ProcInv, ParentInv
<1>9. WaitInv'
  <2>1. ASSUME NEW j \in Slots, state'[j] = "SLEEPING" PROVE
          /\ chan[j] = j /\ ~killed'[j]
          /\ \E k \in Slots : parent'[k] = j
          /\ \A k \in Slots : parent'[k] = j => state'[k] # "ZOMBIE"
    <3>1. /\ chan[j] = j /\ ~killed[j] /\ j # n /\ j # i
          /\ \E k \in Slots : parent[k] = j
          /\ \A k \in Slots : parent[k] = j => state[k] # "ZOMBIE"
      BY <1>b, <1>h, <2>1, Zenon DEF ProcInv, WaitInv
    <3>2. \A k \in Slots : parent'[k] = j <=> parent[k] = j
      BY <1>0, <1>h, <1>r, <3>1
    <3> QED BY <1>h, <1>k, <3>1, <3>2, Zenon
  <2> QED BY <1>g, <2>1, Zenon DEF WaitInv
<1> QED BY <1>1, <1>2, <1>3, <1>4, <1>5, <1>6, <1>7, <1>8, <1>9, Zenon DEF ProcInv

\* kill() marks its victim and, if it sleeps, makes it RUNNABLE.
LEMMA Inv_kill ==
  ASSUME ProcInv, NEW c \in Cpus, NEW i \in Slots, NEW p \in KillPids, kill(c, i, p)
  PROVE  ProcInv'
<1> DEFINE found == {j \in Slots : pid[j] = p}
<1>0. PICK n \in Slots : n = First(found)
  <2>1. found \in SUBSET Slots /\ found # {}
    BY Zenon DEF kill
  <2>2. First(found) \in found
    BY <2>1, FirstIn, Zenon
  <2> QED BY <2>2, Zenon
<1>a. /\ killed' = [killed EXCEPT ![n] = TRUE] /\ asked' = asked \cup {p} /\ lock' = lock
      /\ state' = [state EXCEPT ![n] = IF @ = "SLEEPING" THEN "RUNNABLE" ELSE @]
      /\ UNCHANGED <<pid, parent, chan, kstack, pgdir, nextpid, run, cproc, cr3, pos, pc, ret, np>>
  BY <1>0, Zenon DEF kill, mem, cpu, thread
<1>g. /\ run' = run /\ cproc' = cproc /\ cr3' = cr3 /\ pos' = pos /\ np' = np /\ ret' = ret /\ chan' = chan
      /\ pc' = pc /\ lock' = lock /\ parent' = parent /\ kstack' = kstack /\ pgdir' = pgdir
  BY <1>a, Zenon
<1>h. /\ \A j \in Slots : \/ state'[j] = state[j] /\ (j = n => state[j] # "SLEEPING")
                          \/ state[j] = "SLEEPING" /\ state'[j] = "RUNNABLE"
      /\ \A j \in Slots : j # n => killed'[j] = killed[j]
  BY <1>a, Zenon DEF ProcInv, TypeOK
<1>d. \A j \in Slots : Place(j)' = Place(j)
  BY <1>g, Zenon DEF Place
<1>r. /\ 0 \notin Slots /\ initproc \in Slots /\ None \notin Cpus
      /\ \A d \in Cpus : (run[d] = 0 \/ run[d] \in Slots) /\ (cproc[d] = 0 \/ cproc[d] \in Slots)
      /\ \A j \in Slots : parent[j] = 0 \/ parent[j] \in Slots
  BY Ranges, Zenon DEF ProcInv
<1>1. TypeOK'
  <2>1. asked' \subseteq Nat
    BY <1>a, PidsAssumption, Zenon DEF ProcInv, TypeOK
  <2>2. state' \in [Slots -> States]
    BY <1>a, Zenon DEF ProcInv, TypeOK, States
  <2>3. killed' \in [Slots -> BOOLEAN]
    BY <1>a, Zenon DEF ProcInv, TypeOK
  <2> QED BY <1>a, <2>1, <2>2, <2>3, Zenon DEF ProcInv, TypeOK
<1>2. LockHandoff'
  BY <1>g, Zenon DEF ProcInv, LockHandoff, Holding
<1>3. CpuInv'
  BY <1>g, <1>h, <1>r DEF ProcInv, CpuInv
<1>4. OwnCpu'
  BY <1>g, Zenon DEF ProcInv, OwnCpu
<1>5. OnCpu'
  BY <1>g, <1>h, Zenon DEF ProcInv, OnCpu
<1>6. SlotInv'
  <2>1. ASSUME NEW j \in Slots PROVE SlotOK(j)'
    <3>1. SlotOK(j)
      BY Zenon DEF ProcInv, SlotInv
    <3>2. CASE state'[j] = state[j]
      BY <1>d, <1>g, <3>1, <3>2, Zenon DEF SlotOK
    <3>3. CASE state[j] = "SLEEPING" /\ state'[j] = "RUNNABLE"
      BY <1>d, <1>g, <3>1, <3>3, Zenon DEF SlotOK, Place
    <3> QED BY <1>h, <3>2, <3>3, Zenon
  <2> QED BY <2>1, Zenon DEF SlotInv
<1>7. ForkInv'
  <2>1. ASSUME NEW j \in Slots, Forking(j) PROVE NewOK(j)'
    <3>1. NewOK(j)
      BY <2>1, Zenon DEF ProcInv, ForkInv
    <3> QED BY <1>d, <1>g, <1>h, <3>1, Zenon DEF NewOK
  <2>2. \A j \in Slots : Forking(j)' => Forking(j)
    BY <1>d, Zenon DEF Forking
  <2> QED BY <1>g, <2>1, <2>2, Zenon DEF ProcInv, ForkInv
<1>8. ParentInv'
  BY <1>d, <1>g, <1>h, <1>r, Zenon DEF ProcInv, ParentInv, Alive
<1>9. WaitInv'
  BY <1>g, <1>h DEF ProcInv, WaitInv
<1> QED BY <1>1, <1>2, <1>3, <1>4, <1>5, <1>6, <1>7, <1>8, <1>9, Zenon DEF ProcInv

\* swtch() to the scheduler, and the way back into the process.
LEMMA Inv_sched ==
  ASSUME ProcInv, NEW c \in Cpus, NEW i \in Slots, sched(c, i)
  PROVE  ProcInv'
<1>a. /\ run[c] = i /\ pc[i] = "sched"
      /\ run' = [run EXCEPT ![c] = 0] /\ pc' = [pc EXCEPT ![i] = "swtched"]
      /\ UNCHANGED <<state, pid, parent, chan, killed, kstack, pgdir, nextpid, lock, cproc, cr3, pos, ret, np, asked>>
  BY Zenon DEF sched, table, mem, At
<1>b. /\ lock = c /\ cproc[c] = i /\ pos[c] = i
      /\ \A d \in Cpus : d # c => run[d] # i /\ cproc[d] # i
  BY <1>a, Executing
<1>g. /\ state' = state /\ cproc' = cproc /\ cr3' = cr3 /\ pos' = pos /\ np' = np /\ ret' = ret /\ lock' = lock
      /\ kstack' = kstack /\ pgdir' = pgdir /\ parent' = parent /\ chan' = chan /\ killed' = killed
  BY <1>a, Zenon
<1>h. /\ pc'[i] = "swtched" /\ run'[c] = 0
      /\ \A j \in Slots : j # i => pc'[j] = pc[j]
      /\ \A d \in Cpus : d # c => run'[d] = run[d]
  BY <1>a, Zenon DEF ProcInv, TypeOK
<1>d. \A j \in Slots : Place(j)' = Place(j)
  BY <1>a, <1>g, <1>h, Zenon DEF Place
<1>r. /\ 0 \notin Slots /\ initproc \in Slots /\ None \notin Cpus
      /\ \A d \in Cpus : (run[d] = 0 \/ run[d] \in Slots) /\ (cproc[d] = 0 \/ cproc[d] \in Slots)
      /\ \A j \in Slots : parent[j] = 0 \/ parent[j] \in Slots
  BY Ranges, Zenon DEF ProcInv
<1>s. state[i] # "RUNNING"
  BY <1>a, <1>r, Zenon DEF ProcInv, CpuInv
<1>1. TypeOK'
  <2>1. 0 \in 0..NPROC
    BY NPROCAssumption
  <2>2. run' \in [Cpus -> 0..NPROC] /\ pc' \in [Slots -> PcValues]
    BY <1>a, <2>1, Zenon DEF ProcInv, TypeOK, PcValues
  <2> QED BY <1>a, <2>2, Zenon DEF ProcInv, TypeOK
<1>2. LockHandoff'
  <2>1. Holding(c)'
    BY <1>b, <1>g, <1>h, <1>r, Zenon DEF Holding
  <2>2. ASSUME NEW d \in Cpus, d # c PROVE Holding(d)' <=> Holding(d)
    <3>1. run'[d] = run[d] /\ pos'[d] = pos[d] /\ (run[d] = 0 \/ pc'[run[d]] = pc[run[d]])
      BY <1>b, <1>g, <1>h, <1>r, <2>2, Zenon
    <3> QED BY <3>1, Zenon DEF Holding
  <2> QED BY <1>b, <1>g, <2>1, <2>2, Zenon DEF ProcInv, LockHandoff
<1>3. CpuInv'
  BY <1>b, <1>g, <1>h, <1>r DEF ProcInv, CpuInv
<1>4. OwnCpu'
  BY <1>g, Zenon DEF ProcInv, OwnCpu
<1>5. OnCpu'
  <2>1. ASSUME NEW j \in Slots, state[j] = "RUNNING" \/ pc'[j] = "sched" PROVE \E d \in Cpus : run'[d] = j
    <3>1. j # i
      BY <1>h, <1>s, <2>1, Zenon
    <3>2. PICK d \in Cpus : run[d] = j
      BY <1>h, <2>1, <3>1, Zenon DEF ProcInv, OnCpu
    <3> QED BY <1>a, <1>h, <3>1, <3>2, Zenon
  <2> QED BY <1>g, <2>1, Zenon DEF OnCpu
<1>6. SlotInv'
  <2>1. ASSUME NEW j \in Slots PROVE SlotOK(j)'
    <3>1. SlotOK(j)
      BY Zenon DEF ProcInv, SlotInv
    <3> QED BY <1>a, <1>d, <1>g, <1>h, <1>s, <3>1, Zenon DEF SlotOK, Unlocked
  <2> QED BY <2>1, Zenon DEF SlotInv
<1>7. ForkInv'
  <2>1. ASSUME NEW j \in Slots, Forking(j) PROVE NewOK(j)'
    <3>1. NewOK(j)
      BY <2>1, Zenon DEF ProcInv, ForkInv
    <3> QED BY <1>a, <1>d, <1>g, <1>h, <3>1 DEF NewOK
  <2>2. \A j \in Slots : Forking(j)' => Forking(j)
    BY <1>d, Zenon DEF Forking
  <2> QED BY <1>g, <2>1, <2>2, Zenon DEF ProcInv, ForkInv
<1>8. ParentInv'
  BY <1>d, <1>g, <1>r, Zenon DEF ProcInv, ParentInv
<1>9. WaitInv'
  BY <1>g, Zenon DEF ProcInv, WaitInv
<1> QED BY <1>1, <1>2, <1>3, <1>4, <1>5, <1>6, <1>7, <1>8, <1>9, Zenon DEF ProcInv

\* swtch() has come back to sched(): the process goes on behind it, in wait()
\* with the lock still held.
LEMMA Inv_sched_return ==
  ASSUME ProcInv, NEW c \in Cpus, NEW i \in Slots, sched_return(c, i)
  PROVE  ProcInv'
<1>a. /\ run[c] = i /\ pc[i] = "swtched" /\ pc' = [pc EXCEPT ![i] = ret[i]]
      /\ chan' = [chan EXCEPT ![i] = IF ret[i] = "scan" THEN 0 ELSE @]
      /\ lock' = IF ret[i] = "scan" THEN lock ELSE None
      /\ UNCHANGED <<state, pid, parent, killed, kstack, pgdir, nextpid, run, cproc, cr3, pos, ret, np, asked>>
  BY Zenon DEF sched_return, mem, cpu, At
<1>b. /\ lock = c /\ state[i] = "RUNNING"
      /\ \A d \in Cpus : d # c => run[d] # i /\ cproc[d] # i
  BY <1>a, Executing
<1>g. /\ state' = state /\ cproc' = cproc /\ cr3' = cr3 /\ pos' = pos /\ np' = np /\ ret' = ret /\ run' = run
      /\ kstack' = kstack /\ pgdir' = pgdir /\ parent' = parent /\ killed' = killed
  BY <1>a, Zenon
<1>h. /\ pc'[i] = ret[i]
      /\ \A j \in Slots : j # i => pc'[j] = pc[j] /\ chan'[j] = chan[j]
  BY <1>a, Zenon DEF ProcInv, TypeOK
<1>e. ret[i] \in Unlocked \cup {"scan"}
  <2>1. ret[i] # "none"
    BY <1>a, <1>b, Zenon DEF ProcInv, SlotInv, SlotOK, Place
  <2> QED BY <2>1, Zenon DEF ProcInv, TypeOK
<1>d. \A j \in Slots : Place(j)' = Place(j)
  BY <1>a, <1>e, <1>g, <1>h, Zenon DEF Place, Unlocked
<1>r. /\ 0 \notin Slots /\ initproc \in Slots /\ None \notin Cpus
      /\ \A d \in Cpus : (run[d] = 0 \/ run[d] \in Slots) /\ (cproc[d] = 0 \/ cproc[d] \in Slots)
      /\ \A j \in Slots : parent[j] = 0 \/ parent[j] \in Slots
  BY Ranges, Zenon DEF ProcInv
<1>1. TypeOK'
  <2>1. 0 \in 0..NPROC
    BY NPROCAssumption
  <2>2. chan' \in [Slots -> 0..NPROC]
    BY <1>a, <2>1, Zenon DEF ProcInv, TypeOK
  <2>3. pc' \in [Slots -> PcValues] /\ lock' \in Cpus \cup {None}
    BY <1>a, <1>e, Zenon DEF ProcInv, TypeOK, PcValues, Unlocked
  <2> QED BY <1>a, <2>2, <2>3, Zenon DEF ProcInv, TypeOK
<1>2. LockHandoff'
  BY <1>a, <1>b, <1>e, <1>g, <1>h, <1>r DEF ProcInv, LockHandoff, Holding, Unlocked
<1>3. CpuInv'
  BY <1>b, <1>e, <1>g, <1>h, <1>r DEF ProcInv, CpuInv, Unlocked
<1>4. OwnCpu'
  BY <1>g, Zenon DEF ProcInv, OwnCpu
<1>5. OnCpu'
  BY <1>a, <1>g, <1>h DEF ProcInv, OnCpu
<1>6. SlotInv'
  <2>1. ASSUME NEW j \in Slots PROVE SlotOK(j)'
    <3>1. SlotOK(j)
      BY Zenon DEF ProcInv, SlotInv
    <3> QED BY <1>a, <1>b, <1>d, <1>e, <1>g, <1>h, <3>1, Zenon DEF SlotOK
  <2> QED BY <2>1, Zenon DEF SlotInv
<1>7. ForkInv'
  <2>1. ASSUME NEW j \in Slots, Forking(j) PROVE NewOK(j)'
    <3>1. NewOK(j) /\ np[j] # i
      BY <1>b, <2>1, Zenon DEF ProcInv, ForkInv, NewOK
    <3> QED BY <1>d, <1>g, <1>h, <3>1, Zenon DEF NewOK
  <2>2. \A j \in Slots : Forking(j)' => Forking(j)
    BY <1>d, Zenon DEF Forking
  <2> QED BY <1>g, <2>1, <2>2, Zenon DEF ProcInv, ForkInv
<1>8. ParentInv'
  BY <1>d, <1>g, <1>r, Zenon DEF ProcInv, ParentInv
<1>9. WaitInv'
  BY <1>b, <1>g, <1>h, Zenon DEF ProcInv, WaitInv
<1> QED BY <1>1, <1>2, <1>3, <1>4, <1>5, <1>6, <1>7, <1>8, <1>9, Zenon DEF ProcInv

\* The scheduler's own steps with no process: the table does not change.
LEMMA Inv_scheduler ==
  ASSUME ProcInv, NEW c \in Cpus, scheduler_lock(c) \/ scheduler_back(c) \/ scheduler_unlock(c)
  PROVE  ProcInv'
<1>g. /\ state' = state /\ np' = np /\ ret' = ret /\ run' = run /\ pc' = pc
      /\ kstack' = kstack /\ pgdir' = pgdir /\ parent' = parent /\ chan' = chan /\ killed' = killed
      /\ pid' = pid /\ nextpid' = nextpid /\ asked' = asked
  BY Zenon DEF scheduler_lock, scheduler_back, scheduler_unlock, table, mem, thread
<1>r. /\ 0 \notin Slots /\ initproc \in Slots /\ None \notin Cpus
      /\ \A d \in Cpus : (run[d] = 0 \/ run[d] \in Slots) /\ (cproc[d] = 0 \/ cproc[d] \in Slots)
  BY Ranges, Zenon DEF ProcInv
<1>h. /\ run[c] = 0 /\ cr3'[c] = 0 /\ cproc'[c] = 0
      /\ \A d \in Cpus : d # c => cproc'[d] = cproc[d] /\ cr3'[d] = cr3[d] /\ pos'[d] = pos[d]
      /\ lock' = c <=> pos'[c] # 0
      /\ lock' \in {c, None} /\ lock \in {c, None}
      /\ cproc' \in [Cpus -> 0..NPROC] /\ cr3' \in [Cpus -> 0..NPROC] /\ pos' \in [Cpus -> 0..NPROC+1]
  <2>t. /\ cproc \in [Cpus -> 0..NPROC] /\ cr3 \in [Cpus -> 0..NPROC] /\ pos \in [Cpus -> 0..NPROC+1]
        /\ 0 \in 0..NPROC /\ 0 \in 0..NPROC+1 /\ 1 \in 0..NPROC+1
    BY NPROCAssumption DEF ProcInv, TypeOK
  <2>c. cr3[c] = cproc[c] /\ (cproc[c] # 0 => pos[c] = cproc[c])
    BY Zenon DEF ProcInv, CpuInv
  <2>1. CASE scheduler_lock(c)
    <3>1. /\ run[c] = 0 /\ pos[c] = 0 /\ lock = None /\ lock' = c /\ pos' = [pos EXCEPT ![c] = 1]
          /\ cproc' = cproc /\ cr3' = cr3
      BY <2>1, Zenon DEF scheduler_lock
    <3>2. cproc[c] = 0
      BY <1>r, <2>c, <3>1, Zenon
    <3> QED BY <2>c, <2>t, <3>1, <3>2
  <2>2. CASE scheduler_back(c)
    <3>1. /\ run[c] = 0 /\ cproc[c] # 0 /\ pos' = [pos EXCEPT ![c] = pos[c] + 1] /\ lock' = lock
          /\ cproc' = [cproc EXCEPT ![c] = 0] /\ cr3' = [cr3 EXCEPT ![c] = 0]
      BY <2>2, Zenon DEF scheduler_back
    <3>2. pos[c] \in Slots
      BY <1>r, <2>c, <3>1, Zenon
    <3>3. pos[c] + 1 # 0 /\ pos[c] # 0 /\ pos[c] + 1 \in 0..NPROC+1
      BY <3>2, NPROCAssumption DEF Slots
    <3>4. lock = c
      BY <3>1, <3>3, Zenon DEF ProcInv, LockHandoff, Holding
    <3> QED BY <2>t, <3>1, <3>3, <3>4, Zenon
  <2>3. CASE scheduler_unlock(c)
    <3>1. /\ run[c] = 0 /\ pos[c] # 0 /\ cproc[c] = 0 /\ lock' = None /\ pos' = [pos EXCEPT ![c] = 0]
          /\ cproc' = cproc /\ cr3' = cr3
      BY <2>3, Zenon DEF scheduler_unlock
    <3>2. lock = c
      BY <3>1, Zenon DEF ProcInv, LockHandoff, Holding
    <3> QED BY <1>r, <2>c, <2>t, <3>1, <3>2, Zenon
  <2> QED BY <2>1, <2>2, <2>3, Zenon
<1>d. \A j \in Slots : Place(j)' = Place(j)
  BY <1>g, Zenon DEF Place
<1>1. TypeOK'
  BY <1>g, <1>h, Zenon DEF ProcInv, TypeOK
<1>2. LockHandoff'
  BY <1>g, <1>h, <1>r DEF ProcInv, LockHandoff, Holding
<1>3. CpuInv'
  BY <1>g, <1>h, <1>r, Zenon DEF ProcInv, CpuInv
<1>4. OwnCpu'
  BY <1>h, Zenon DEF ProcInv, OwnCpu
<1>5. OnCpu' /\ WaitInv'
  BY <1>g, Zenon DEF ProcInv, OnCpu, WaitInv
<1>6. SlotInv' /\ ParentInv'
  BY <1>d, <1>g, <1>r, Zenon DEF ProcInv, SlotInv, SlotOK, ParentInv
<1>7. ForkInv'
  BY <1>d, <1>g DEF ProcInv, ForkInv, NewOK, Forking
<1> QED BY <1>1, <1>2, <1>3, <1>4, <1>5, <1>6, <1>7, Zenon DEF ProcInv

\* The scheduler gives its CPU to a RUNNABLE process: with ptable.lock in its hands, nobody
\* is still leaving that process.
LEMMA Inv_scheduler_pick ==
  ASSUME ProcInv, NEW c \in Cpus, scheduler_pick(c)
  PROVE  ProcInv'
<1>0. PICK i \in Slots : i = First(Runnable(c)) /\ state[i] = "RUNNABLE"
  <2>1. Runnable(c) \in SUBSET Slots /\ Runnable(c) # {}
    BY Zenon DEF scheduler_pick, Runnable
  <2>2. First(Runnable(c)) \in Runnable(c)
    BY <2>1, FirstIn, Zenon
  <2> QED BY <2>2, Zenon DEF Runnable
<1>a. /\ run[c] = 0 /\ pos[c] # 0 /\ cproc[c] = 0
      /\ cproc' = [cproc EXCEPT ![c] = i] /\ cr3' = [cr3 EXCEPT ![c] = i]
      /\ state' = [state EXCEPT ![i] = "RUNNING"]
      /\ pos' = [pos EXCEPT ![c] = i] /\ run' = [run EXCEPT ![c] = i]
      /\ UNCHANGED <<pid, parent, chan, killed, kstack, pgdir, nextpid, lock, pc, ret, np, asked>>
  BY <1>0, Zenon DEF scheduler_pick, mem, thread
<1>g. /\ np' = np /\ ret' = ret /\ pc' = pc /\ lock' = lock
      /\ kstack' = kstack /\ pgdir' = pgdir /\ parent' = parent /\ chan' = chan /\ killed' = killed
  BY <1>a, Zenon
<1>h. /\ cproc'[c] = i /\ cr3'[c] = i /\ pos'[c] = i /\ run'[c] = i /\ state'[i] = "RUNNING"
      /\ \A d \in Cpus : d # c => /\ cproc'[d] = cproc[d] /\ cr3'[d] = cr3[d]
                                  /\ pos'[d] = pos[d] /\ run'[d] = run[d]
      /\ \A j \in Slots : j # i => state'[j] = state[j]
  BY <1>a, Zenon DEF ProcInv, TypeOK
<1>l. lock = c /\ \A d \in Cpus : d # c => ~Holding(d)
  BY <1>a, Zenon DEF ProcInv, LockHandoff, Holding
<1>r. /\ 0 \notin Slots /\ initproc \in Slots /\ None \notin Cpus
      /\ \A d \in Cpus : (run[d] = 0 \/ run[d] \in Slots) /\ (cproc[d] = 0 \/ cproc[d] \in Slots)
      /\ \A j \in Slots : parent[j] = 0 \/ parent[j] \in Slots
  BY Ranges, Zenon DEF ProcInv
<1>e. pc[i] \in {"swtched", "forkret"}
  <2>1. pc[i] # "sched"
    <3> SUFFICES ASSUME pc[i] = "sched" PROVE FALSE
      BY Zenon
    <3>1. PICK d \in Cpus : run[d] = i
      BY Zenon DEF ProcInv, OnCpu
    <3> QED BY <1>a, <1>l, <1>r, <3>1, Zenon DEF Holding
  <2> QED BY <1>0, <2>1, Zenon DEF ProcInv, SlotInv, SlotOK
<1>f. \A d \in Cpus : cproc[d] # i /\ run[d] # i
  <2>1. ASSUME NEW d \in Cpus, run[d] = i PROVE FALSE
    BY <1>0, <1>e, <1>r, <2>1, Zenon DEF ProcInv, CpuInv
  <2>2. ASSUME NEW d \in Cpus, cproc[d] = i PROVE FALSE
    <3>1. d # c /\ pos[d] # 0 /\ run[d] = 0
      BY <1>a, <1>r, <2>1, <2>2, Zenon DEF ProcInv, CpuInv
    <3> QED BY <1>l, <3>1, Zenon DEF Holding
  <2> QED BY <2>1, <2>2, Zenon
<1>d. \A j \in Slots : Place(j)' = Place(j)
  BY <1>g, Zenon DEF Place
<1>1. TypeOK'
  <2>1. i \in 0..NPROC /\ i \in 0..NPROC+1
    BY NPROCAssumption DEF Slots
  <2>2. state' \in [Slots -> States]
    BY <1>a, Zenon DEF ProcInv, TypeOK, States
  <2>3. /\ run' \in [Cpus -> 0..NPROC] /\ cproc' \in [Cpus -> 0..NPROC]
        /\ cr3' \in [Cpus -> 0..NPROC] /\ pos' \in [Cpus -> 0..NPROC+1]
    BY <1>a, <2>1, Zenon DEF ProcInv, TypeOK
  <2> QED BY <1>a, <2>2, <2>3, Zenon DEF ProcInv, TypeOK
<1>2. LockHandoff'
  BY <1>e, <1>g, <1>h, <1>l, <1>r DEF LockHandoff, Holding
<1>3. CpuInv'
  BY <1>e, <1>f, <1>g, <1>h, <1>r DEF ProcInv, CpuInv
<1>4. OwnCpu'
  BY <1>f, <1>h DEF ProcInv, OwnCpu
<1>5. OnCpu'
  <2>1. ASSUME NEW j \in Slots, j # i, \E d \in Cpus : run[d] = j PROVE \E d \in Cpus : run'[d] = j
    BY <1>a, <1>h, <1>r, <2>1, Zenon
  <2> QED BY <1>g, <1>h, <2>1, Zenon DEF ProcInv, OnCpu
<1>6. SlotInv'
  <2>1. ASSUME NEW j \in Slots PROVE SlotOK(j)'
    <3>1. SlotOK(j)
      BY Zenon DEF ProcInv, SlotInv
    <3> QED BY <1>0, <1>d, <1>e, <1>g, <1>h, <3>1, Zenon DEF SlotOK
  <2> QED BY <2>1, Zenon DEF SlotInv
<1>7. ForkInv'
  <2>1. ASSUME NEW j \in Slots, Forking(j) PROVE NewOK(j)'
    <3>1. NewOK(j) /\ np[j] # i
      BY <1>0, <2>1, Zenon DEF ProcInv, ForkInv, NewOK
    <3> QED BY <1>d, <1>g, <1>h, <3>1, Zenon DEF NewOK
  <2>2. \A j \in Slots : Forking(j)' => Forking(j)
    BY <1>d, Zenon DEF Forking
  <2> QED BY <1>g, <2>1, <2>2, Zenon DEF ProcInv, ForkInv
<1>8. ParentInv'
  BY <1>0, <1>d, <1>g, <1>h, <1>r, Zenon DEF ProcInv, ParentInv, Alive
<1>9. WaitInv'
  BY <1>0, <1>g, <1>h, Zenon DEF ProcInv, WaitInv
<1> QED BY <1>1, <1>2, <1>3, <1>4, <1>5, <1>6, <1>7, <1>8, <1>9, Zenon DEF ProcInv

-----------------------------------------------------------------------------
\* userinit() has made one process and no CPU runs one.
LEMMA Inv_Init == Init => ProcInv
<1> SUFFICES ASSUME Init PROVE ProcInv
  BY Zenon
<1>1. initproc \in Slots /\ 0 \notin Slots /\ None \notin Cpus
  BY NPROCAssumption, CpusAssumption DEF Slots, initproc
<1>2. TypeOK
  <2>1. /\ pid \in [Slots -> 0..MaxPid] /\ nextpid \in 2..MaxPid+1
        /\ parent \in [Slots -> 0..NPROC] /\ chan \in [Slots -> 0..NPROC] /\ np \in [Slots -> 0..NPROC]
    BY NPROCAssumption, PidsAssumption DEF Init
  <2>2. /\ run \in [Cpus -> 0..NPROC] /\ cproc \in [Cpus -> 0..NPROC]
        /\ cr3 \in [Cpus -> 0..NPROC] /\ pos \in [Cpus -> 0..NPROC+1]
    BY NPROCAssumption DEF Init
  <2>3. killed \in [Slots -> BOOLEAN] /\ kstack \in [Slots -> BOOLEAN] /\ pgdir \in [Slots -> BOOLEAN]
    BY Zenon DEF Init
  <2>4. /\ state \in [Slots -> States] /\ pc \in [Slots -> PcValues]
        /\ ret \in [Slots -> Unlocked \cup {"scan", "none"}] /\ asked \subseteq Nat /\ lock \in Cpus \cup {None}
    BY Zenon DEF Init, States, PcValues, Unlocked
  <2> QED BY <2>1, <2>2, <2>3, <2>4, Zenon DEF TypeOK
<1>3. LockHandoff /\ CpuInv /\ OwnCpu
  BY <1>1, Zenon DEF Init, LockHandoff, Holding, CpuInv, OwnCpu
<1>4. OnCpu /\ SlotInv /\ WaitInv
  BY <1>1, Zenon DEF Init, OnCpu, SlotInv, SlotOK, Place, WaitInv
<1>5. ForkInv /\ ParentInv
  BY <1>1, Zenon DEF Init, ForkInv, Forking, Place, ParentInv, Alive
<1> QED BY <1>2, <1>3, <1>4, <1>5, Zenon DEF ProcInv

\* Every step of every CPU preserves the invariant.
LEMMA Inv_Next == ProcInv /\ [Next]_vars => ProcInv'
<1> SUFFICES ASSUME ProcInv, [Next]_vars PROVE ProcInv'
  BY Zenon
<1>1. ASSUME NEW c \in Cpus, NEW i \in Slots, fork(c, i) PROVE ProcInv'
  BY <1>1, Inv_allocproc, Inv_fork, Zenon DEF fork
<1>2. ASSUME NEW c \in Cpus, NEW i \in Slots,
             exit_start(c, i) \/ fault(c, i) \/ wait_start(c, i) \/ forkret(c, i)
      PROVE  ProcInv'
  BY <1>2, Inv_moves, Zenon
<1>3. ASSUME NEW c \in Cpus, NEW i \in Slots, wait(c, i) PROVE ProcInv'
  BY <1>3, Inv_moves, Inv_wait_reap, Inv_leave, Zenon DEF wait
<1>4. ASSUME NEW c \in Cpus, NEW i \in Slots,
             exit(c, i) \/ yield(c, i) \/ sched(c, i) \/ sched_return(c, i)
      PROVE  ProcInv'
  BY <1>4, Inv_exit, Inv_leave, Inv_sched, Inv_sched_return, Zenon
<1>5. ASSUME NEW c \in Cpus, NEW i \in Slots, NEW p \in KillPids, kill(c, i, p) PROVE ProcInv'
  BY <1>5, Inv_kill, Zenon
<1>6. ASSUME NEW c \in Cpus, scheduler(c) PROVE ProcInv'
  BY <1>6, Inv_scheduler, Inv_scheduler_pick, Zenon DEF scheduler
<1>7. CASE UNCHANGED vars
  <2>1. /\ state' = state /\ pid' = pid /\ parent' = parent /\ chan' = chan /\ killed' = killed
        /\ kstack' = kstack /\ pgdir' = pgdir /\ nextpid' = nextpid /\ lock' = lock /\ run' = run
        /\ cproc' = cproc /\ cr3' = cr3 /\ pos' = pos /\ pc' = pc /\ ret' = ret /\ np' = np /\ asked' = asked
    BY <1>7, Zenon DEF vars, table, mem, cpu, thread
  <2>2. TypeOK' /\ LockHandoff'
    BY <2>1, Zenon DEF ProcInv, TypeOK, LockHandoff, Holding
  <2>3. CpuInv' /\ OwnCpu' /\ OnCpu'
    BY <2>1, Zenon DEF ProcInv, CpuInv, OwnCpu, OnCpu
  <2>4. WaitInv'
    BY <2>1 DEF ProcInv, WaitInv
  <2>5. ParentInv'
    BY <2>1 DEF ProcInv, ParentInv, Alive, Place
  <2>6. SlotInv'
    BY <2>1, Zenon DEF ProcInv, SlotInv, SlotOK, Place
  <2>7. ForkInv'
    BY <2>1 DEF ProcInv, ForkInv, NewOK, Forking, Place
  <2> QED BY <2>2, <2>3, <2>4, <2>5, <2>6, <2>7, Zenon DEF ProcInv
<1> QED BY <1>1, <1>2, <1>3, <1>4, <1>5, <1>6, <1>7, Zenon DEF Next

\* The inductive invariant of the process table holds in every state.
THEOREM ProcInvariant == Spec => []ProcInv
BY Inv_Init, Inv_Next, PTL DEF Spec

\* ptable.lock passes through swtch() from process to scheduler and back without being
\* lost or released twice, and a process is RUNNING exactly when a CPU executes it.
THEOREM LockPassesOn == Spec => []SwitchExact
<1>1. ProcInv => SwitchExact
  <2> SUFFICES ASSUME ProcInv PROVE RunningOnCpu
    BY Zenon DEF ProcInv, SwitchExact
  <2> SUFFICES ASSUME lock = None, NEW i \in Slots
               PROVE  state[i] = "RUNNING" <=> \E c \in Cpus : run[c] = i
    BY Zenon DEF RunningOnCpu
  <2>1. state[i] = "RUNNING" => \E c \in Cpus : run[c] = i
    BY Zenon DEF ProcInv, OnCpu
  <2>2. ASSUME NEW c \in Cpus, run[c] = i PROVE state[i] = "RUNNING"
    <3>1. pc[i] # "sched"
      BY <2>2, Executing, Ranges DEF ProcInv
    <3> QED BY <2>2, <3>1, Executing, Zenon
  <2> QED BY <2>1, <2>2, Zenon
<1> QED BY <1>1, ProcInvariant, PTL

\* wait() never frees the stack or the page table a CPU still uses, no two CPUs share a
\* stack, and a slot given back by wait() or by a failed fork() owns nothing.
THEOREM StacksAreSafe == Spec => []MemoryOwned
<1>1. ProcInv => MemoryOwned
  <2> SUFFICES ASSUME ProcInv PROVE StackExclusive /\ UnusedOwnsNothing
    BY Zenon DEF MemoryOwned
  <2>1. UnusedOwnsNothing
    BY Zenon DEF ProcInv, SlotInv, SlotOK, UnusedOwnsNothing
  <2>2. ASSUME NEW c \in Cpus
        PROVE  /\ run[c] # 0 => kstack[run[c]] /\ cproc[c] = run[c]
               /\ cr3[c] # 0 => pgdir[cr3[c]]
               /\ \A d \in Cpus \ {c} : run[c] # 0 => run[d] # run[c]
    <3>1. run[c] # 0 => run[c] \in Slots /\ cproc[c] = run[c]
      BY Ranges, Zenon DEF ProcInv, CpuInv
    <3>2. cproc[c] # 0 => cproc[c] \in Slots /\ kstack[cproc[c]] /\ pgdir[cproc[c]]
      BY Ranges, Zenon DEF ProcInv, CpuInv, SlotInv, SlotOK
    <3>3. cr3[c] = cproc[c]
      BY Zenon DEF ProcInv, CpuInv
    <3>4. \A d \in Cpus \ {c} : run[c] # 0 => run[d] # run[c]
      BY <3>1, Executing, Zenon
    <3> QED BY <3>1, <3>2, <3>3, <3>4, Zenon
  <2> QED BY <2>1, <2>2, Zenon DEF StackExclusive
<1> QED BY <1>1, ProcInvariant, PTL

\* A process asleep in wait() has a child, none of them a ZOMBIE, and was not killed:
\* no exit() and no kill() slips between its look at the table and its sleep.
THEOREM WaitersAreWoken == Spec => []NoLostWait
<1>1. ProcInv => NoLostWait
  BY Zenon DEF ProcInv, WaitInv, NoLostWait, Children, Zombies
<1> QED BY <1>1, ProcInvariant, PTL

\* Every process but initproc has a parent that can still wait() for it.
THEOREM SomebodyWaits == Spec => []ParentCanWait
<1>1. ProcInv => ParentCanWait
  BY Ranges, Zenon DEF ProcInv, ParentInv, ParentCanWait, Alive
<1> QED BY <1>1, ProcInvariant, PTL
=============================================================================
