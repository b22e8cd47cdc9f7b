--------------------------- MODULE SpinlockProofs ---------------------------
(***************************************************************************)
(* Mutual exclusion, the absence of panics and the interrupt discipline of *)
(* spinlock.c, for any number of CPUs, threads and locks.  SpinInv is the  *)
(* inductive invariant.                                                    *)
(***************************************************************************)
EXTENDS Spinlock, FiniteSetTheorems, TLAPS

\* A thread is on at most one CPU; only c runs the scheduler of c; a handler
\* that interrupted a scheduler stays on its CPU.
OnInv == /\ \A c \in Cpus : on[c] = c \/ on[c] \in Threads
         /\ \A c, d \in Cpus : on[c] = on[d] => c = d
         /\ \A c \in Cpus : c \in intr => on[c] = c
         /\ \A t \in Threads : t \in intr => t \in started

\* The words of a lock say who is inside it.
LockInv == /\ Mutex
           /\ \A c \in Cpus, l \in Locks : l \in Inside(c) => locked[l]
           /\ \A l \in Locks : locked[l] => \E c \in Cpus : l \in Inside(c)
           /\ \A c \in Cpus, l \in Locks : l \in hold[c] <=> lcpu[l] = c
           /\ \A c \in Cpus : pc[c] \in {"holding", "xchg", "setcpu", "unlock"} =>
                want[c] \notin hold[c]

\* cpu->ncli counts the locks held and the one being acquired or released.
Busy(c) == IF pc[c] \in {"holding", "xchg", "setcpu", "unlock", "popcli"} THEN 1 ELSE 0

CountInv == \A c \in Cpus : /\ ncli[c] = Cardinality(hold[c]) + Busy(c)
                            /\ ncli[c] # 0 => ~flag[c]

\* The scheduler and a new process touch no lock but ptable.lock.
Plain(c) == Scheduling(c) \/ on[c] \notin started \cup intr

ModeInv ==
  \A c \in Cpus :
    /\ Plain(c) => /\ hold[c] \subseteq {ptlock}
                   /\ Busy(c) = 1 => want[c] = ptlock /\ hold[c] = {}
    /\ pc[c] = "sti" => Scheduling(c) /\ hold[c] = {}
    /\ on[c] \in Threads \ started =>
         /\ pc[c] \in {"run", "unlock", "popcli", "trapret"}
         /\ pc[c] = "run" => hold[c] = {ptlock}
    /\ pc[c] = "trapret" => on[c] \in Threads \ started /\ hold[c] = {}

\* While a thread has a lock intena remembers its interrupts; while it is off
\* the CPUs, the local variable of sched() does.
IntenaInv ==
  /\ \A c \in Cpus : Kernel(c) =>
       /\ ncli[c] # 0 => (intena[c] <=> on[c] \notin intr)
       /\ ncli[c] = 0 => (flag[c] <=> on[c] \notin intr)
  /\ \A t \in started : (\A c \in Cpus : on[c] # t) => (saved[t] <=> t \notin intr)

SpinInv == TypeOK /\ OnInv /\ LockInv /\ CountInv /\ ModeInv /\ IntenaInv /\ NoPanic
-----------------------------------------------------------------------------
USE DEF lockvars, cpuvars, At

\* ptable.lock is one of the locks.
LEMMA PtIsLock == ptlock \in Locks
  BY SpinAssumption DEF ptlock, Locks

\* A step that touches no lock leaves the lock words right.
LEMMA LockStutter ==
  ASSUME LockInv, UNCHANGED <<locked, lcpu, hold>>,
         \A d \in Cpus : Inside(d)' = Inside(d),
         \A d \in Cpus : pc'[d] \in {"holding", "xchg", "setcpu", "unlock"} =>
           want'[d] \notin hold[d]
  PROVE  LockInv'
  BY DEF LockInv, Mutex

\* Counting the locks of one CPU.
LEMMA HoldCard ==
  ASSUME NEW S, S \subseteq Locks, NEW l \in Locks
  PROVE  /\ Cardinality(S) \in Nat
         /\ Cardinality(S) = 0 <=> S = {}
         /\ l \notin S => Cardinality(S \cup {l}) = Cardinality(S) + 1
         /\ l \in S => Cardinality(S \ {l}) = Cardinality(S) - 1
<1>1. IsFiniteSet(S)
  <2>1. IsFiniteSet(1..NLOCK)
    BY SpinAssumption, FS_Interval
  <2> QED BY <2>1, FS_Subset, Zenon DEF Locks
<1>2. Cardinality(S) \in Nat /\ (Cardinality(S) = 0 <=> S = {})
  BY <1>1, FS_CardinalityType, FS_EmptySet, Zenon
<1>3. l \notin S => Cardinality(S \cup {l}) = Cardinality(S) + 1
  BY <1>1, FS_AddElement, Zenon
<1>4. l \in S => Cardinality(S \ {l}) = Cardinality(S) - 1
  BY <1>1, FS_RemoveElement, Zenon
<1> QED BY <1>2, <1>3, <1>4, Zenon

LEMMA HoldCount ==
  ASSUME TypeOK, NEW c \in Cpus
  PROVE  Cardinality(hold[c]) \in Nat /\ (Cardinality(hold[c]) = 0 <=> hold[c] = {})
<1>1. hold[c] \subseteq Locks
  BY Zenon DEF TypeOK
<1> QED BY <1>1, HoldCard, PtIsLock, Zenon

\* Before the first step.
LEMMA Inv_Init == Init => SpinInv
<1> SUFFICES ASSUME Init PROVE SpinInv
  BY Zenon
<1>1. TypeOK
  BY PtIsLock, SpinAssumption, Zenon DEF Init, TypeOK, Points
<1>2. OnInv
  BY Zenon DEF Init, OnInv
<1>3. LockInv
  BY SpinAssumption, Zenon DEF Init, LockInv, Mutex, Inside
<1>4. CountInv
  BY FS_EmptySet DEF Init, CountInv, Busy
<1>5. ModeInv
  BY SpinAssumption, Zenon DEF Init, ModeInv, Busy, Scheduling, Plain
<1>6. IntenaInv
  BY Zenon DEF Init, IntenaInv, Kernel
<1>7. NoPanic
  BY Zenon DEF Init, NoPanic
<1> QED BY <1>1, <1>2, <1>3, <1>4, <1>5, <1>6, <1>7, Zenon DEF SpinInv

\* acquire() turns interrupts off and counts itself.
LEMMA Inv_pushcli ==
  ASSUME SpinInv, NEW c \in Cpus, NEW l \in Locks, pushcli(c, l)
  PROVE  SpinInv'
<1> USE DEF SpinInv
<1>1. TypeOK'
  BY DEF pushcli, TypeOK, Points
<1>2. OnInv'
  BY DEF pushcli, TypeOK, OnInv, Kernel, Scheduling, ModeInv
<1>3. LockInv'
  <2>1. /\ UNCHANGED <<locked, lcpu, hold>>
        /\ \A d \in Cpus : Inside(d)' = Inside(d)
    BY Zenon DEF pushcli, TypeOK, Inside
  <2>2. \A d \in Cpus : pc'[d] \in {"holding", "xchg", "setcpu", "unlock"} => want'[d] \notin hold[d]
    <3>1. l \notin hold[c]
      BY DEF pushcli, Locks
    <3> QED BY <3>1 DEF pushcli, TypeOK, LockInv
  <2> QED BY <2>1, <2>2, LockStutter, Zenon
<1>4. CountInv'
  <2> SUFFICES ASSUME NEW d \in Cpus
               PROVE  ncli'[d] = Cardinality(hold'[d]) + Busy(d)' /\ (ncli'[d] # 0 => ~flag'[d])
    BY Zenon DEF CountInv
  <2>1. Cardinality(hold[d]) \in Nat /\ (Cardinality(hold[d]) = 0 <=> hold[d] = {})
    BY HoldCount, Zenon
  <2> QED BY <2>1 DEF pushcli, TypeOK, CountInv, Busy
<1>5. ModeInv'
  <2>1. Plain(c) => l = ptlock /\ hold[c] = {}
    <3> SUFFICES ASSUME Plain(c) PROVE l = ptlock /\ hold[c] = {}
      BY Zenon
    <3>0. ~Kernel(c)
      BY SpinAssumption DEF Plain, Kernel, Scheduling, TypeOK
    <3>1. l = ptlock /\ ptlock \notin hold[c]
      BY <3>0, PtIsLock DEF pushcli, Locks
    <3> QED BY <3>1, Zenon DEF ModeInv
  <2>a. /\ UNCHANGED <<hold, on, started, intr>>
        /\ \A d \in Cpus : Plain(d)' = Plain(d) /\ Scheduling(d)' = Scheduling(d)
    BY Zenon DEF pushcli, Plain, Scheduling
  <2> SUFFICES ASSUME NEW d \in Cpus
               PROVE  /\ Plain(d)' => /\ hold'[d] \subseteq {ptlock}
                                      /\ Busy(d)' = 1 => want'[d] = ptlock /\ hold'[d] = {}
                      /\ pc'[d] = "sti" => Scheduling(d)' /\ hold'[d] = {}
                      /\ on'[d] \in Threads \ started' =>
                           /\ pc'[d] \in {"run", "unlock", "popcli", "trapret"}
                           /\ pc'[d] = "run" => hold'[d] = {ptlock}
                      /\ pc'[d] = "trapret" => on'[d] \in Threads \ started' /\ hold'[d] = {}
    BY Zenon DEF ModeInv
  <2>2. CASE d # c
    <3>1. pc'[d] = pc[d] /\ want'[d] = want[d] /\ Busy(d)' = Busy(d)
      BY <2>2, Zenon DEF pushcli, TypeOK, Busy
    <3> QED BY <2>a, <3>1, Zenon DEF ModeInv
  <2>3. CASE d = c
    <3>1. pc'[c] = "holding" /\ want'[c] = l
      BY Zenon DEF pushcli, TypeOK
    <3>2. on[c] \notin Threads \ started
      BY SpinAssumption, Zenon DEF pushcli, Kernel, Scheduling, OnInv
    <3> QED BY <2>a, <2>1, <2>3, <3>1, <3>2, Zenon
  <2> QED BY <2>2, <2>3, Zenon
<1>6. IntenaInv'
  BY DEF pushcli, TypeOK, OnInv, IntenaInv, Kernel, CountInv, Scheduling
<1>7. NoPanic'
  BY Zenon DEF pushcli, NoPanic
<1> QED BY <1>1, <1>2, <1>3, <1>4, <1>5, <1>6, <1>7, Zenon

\* The check that the lock is not held already.
LEMMA Inv_acquire_check ==
  ASSUME SpinInv, NEW c \in Cpus, acquire_check(c)
  PROVE  SpinInv'
<1> USE DEF SpinInv
<1>1. TypeOK'
  <2>1. panicked' \in BOOLEAN
    BY Zenon DEF acquire_check, holding
  <2> QED BY <2>1, Zenon DEF acquire_check, TypeOK, Points
<1>2. OnInv'
  BY DEF acquire_check, TypeOK, OnInv, Kernel, Scheduling, ModeInv
<1>3. LockInv'
  <2>1. /\ UNCHANGED <<locked, lcpu, hold>>
        /\ \A d \in Cpus : Inside(d)' = Inside(d)
    BY Zenon DEF acquire_check, TypeOK, Inside
  <2>2. \A d \in Cpus : pc'[d] \in {"holding", "xchg", "setcpu", "unlock"} => want'[d] \notin hold[d]
    BY DEF acquire_check, TypeOK, LockInv
  <2> QED BY <2>1, <2>2, LockStutter, Zenon
<1>4. CountInv'
  <2> SUFFICES ASSUME NEW d \in Cpus
               PROVE  ncli'[d] = Cardinality(hold'[d]) + Busy(d)' /\ (ncli'[d] # 0 => ~flag'[d])
    BY Zenon DEF CountInv
  <2>1. Cardinality(hold[d]) \in Nat /\ (Cardinality(hold[d]) = 0 <=> hold[d] = {})
    BY HoldCount, Zenon
  <2> QED BY <2>1, Zenon DEF acquire_check, TypeOK, CountInv, Busy
<1>5. ModeInv'
  BY DEF acquire_check, TypeOK, OnInv, ModeInv, Busy, Scheduling, Plain, Kernel
<1>6. IntenaInv'
  BY Zenon DEF acquire_check, TypeOK, OnInv, IntenaInv, Kernel, CountInv, Scheduling
<1>7. NoPanic'
  BY Zenon DEF acquire_check, NoPanic, holding, LockInv, TypeOK
<1> QED BY <1>1, <1>2, <1>3, <1>4, <1>5, <1>6, <1>7, Zenon

\* The lock word is taken.
LEMMA Inv_xchg ==
  ASSUME SpinInv, NEW c \in Cpus, xchg(c)
  PROVE  SpinInv'
<1> USE DEF SpinInv
<1>1. TypeOK'
  BY Zenon DEF xchg, TypeOK, Points
<1>2. OnInv'
  BY DEF xchg, TypeOK, OnInv, Kernel, Scheduling, ModeInv
<1>3. LockInv'
  BY DEF xchg, TypeOK, LockInv, Mutex, Inside
<1>4. CountInv'
  <2> SUFFICES ASSUME NEW d \in Cpus
               PROVE  ncli'[d] = Cardinality(hold'[d]) + Busy(d)' /\ (ncli'[d] # 0 => ~flag'[d])
    BY Zenon DEF CountInv
  <2>1. Cardinality(hold[d]) \in Nat /\ (Cardinality(hold[d]) = 0 <=> hold[d] = {})
    BY HoldCount, Zenon
  <2> QED BY <2>1, Zenon DEF xchg, TypeOK, CountInv, Busy
<1>5. ModeInv'
  BY DEF xchg, TypeOK, OnInv, ModeInv, Busy, Scheduling, Plain, Kernel
<1>6. IntenaInv'
  BY Zenon DEF xchg, TypeOK, OnInv, IntenaInv, Kernel, CountInv, Scheduling
<1>7. NoPanic'
  BY Zenon DEF xchg, NoPanic
<1> QED BY <1>1, <1>2, <1>3, <1>4, <1>5, <1>6, <1>7, Zenon

\* The holder is recorded.
LEMMA Inv_acquire_done ==
  ASSUME SpinInv, NEW c \in Cpus, acquire_done(c)
  PROVE  SpinInv'
<1> USE DEF SpinInv
<1>1. TypeOK'
  BY DEF acquire_done, TypeOK, Points
<1>2. OnInv'
  BY Zenon DEF acquire_done, TypeOK, OnInv, Kernel, Scheduling, ModeInv
<1>3. LockInv'
  BY DEF acquire_done, TypeOK, LockInv, Mutex, Inside
<1>4. CountInv'
  <2> SUFFICES ASSUME NEW d \in Cpus
               PROVE  ncli'[d] = Cardinality(hold'[d]) + Busy(d)' /\ (ncli'[d] # 0 => ~flag'[d])
    BY Zenon DEF CountInv
  <2>1. Cardinality(hold[d]) \in Nat /\ (Cardinality(hold[d]) = 0 <=> hold[d] = {})
    BY HoldCount, Zenon
  <2>2. d = c => Cardinality(hold'[d]) = Cardinality(hold[d]) + 1
    <3>1. want[c] \in Locks /\ hold[c] \subseteq Locks /\ want[c] \notin hold[c]
      BY DEF acquire_done, TypeOK, LockInv
    <3>2. hold'[c] = hold[c] \cup {want[c]}
      BY Zenon DEF acquire_done, TypeOK
    <3> QED BY <3>1, <3>2, HoldCard
  <2>3. d # c => hold'[d] = hold[d]
    BY Zenon DEF acquire_done, TypeOK
  <2>4. /\ ncli'[d] = ncli[d] /\ flag'[d] = flag[d]
        /\ Busy(c) = 1 /\ Busy(c)' = 0 /\ (d # c => Busy(d)' = Busy(d))
    BY Zenon DEF acquire_done, TypeOK, Busy
  <2>5. ncli[d] = Cardinality(hold[d]) + Busy(d) /\ (ncli[d] # 0 => ~flag[d])
    BY Zenon DEF CountInv
  <2> QED BY <2>1, <2>2, <2>3, <2>4, <2>5
<1>5. ModeInv'
  BY DEF acquire_done, TypeOK, OnInv, ModeInv, Busy, Scheduling, Plain, Kernel
<1>6. IntenaInv'
  BY Zenon DEF acquire_done, TypeOK, OnInv, IntenaInv, Kernel, CountInv, Scheduling
<1>7. NoPanic'
  BY Zenon DEF acquire_done, NoPanic
<1> QED BY <1>1, <1>2, <1>3, <1>4, <1>5, <1>6, <1>7, Zenon

\* release() forgets the holder.
LEMMA Inv_release ==
  ASSUME SpinInv, NEW c \in Cpus, NEW l \in Locks, release(c, l)
  PROVE  SpinInv'
<1> USE DEF SpinInv
<1>1. TypeOK'
  BY Zenon DEF release, TypeOK, Points
<1>2. OnInv'
  BY Zenon DEF release, TypeOK, OnInv, Kernel, Scheduling, ModeInv
<1>3. LockInv'
  <2>1. /\ locked' = locked
        /\ lcpu' = [lcpu EXCEPT ![l] = None]
        /\ hold' = [hold EXCEPT ![c] = @ \ {l}]
        /\ l \in hold[c]
    BY Zenon DEF release
  <2>2. \A d \in Cpus : Inside(d)' = Inside(d)
    BY Zenon DEF release, TypeOK, Inside
  <2>3. \A d \in Cpus, k \in Locks : k \in hold'[d] <=> lcpu'[k] = d
    <3> SUFFICES ASSUME NEW d \in Cpus, NEW k \in Locks
                 PROVE  k \in hold'[d] <=> lcpu'[k] = d
      BY Zenon
    <3>1. (k \in hold[d] <=> lcpu[k] = d) /\ lcpu[l] = c
      BY <2>1, Zenon DEF LockInv
    <3> QED BY <2>1, <3>1, SpinAssumption, Zenon DEF TypeOK
  <2>4. \A d \in Cpus : pc'[d] \in {"holding", "xchg", "setcpu", "unlock"} => want'[d] \notin hold'[d]
    BY DEF release, TypeOK, LockInv
  <2> QED BY <2>1, <2>2, <2>3, <2>4 DEF LockInv, Mutex
<1>4. CountInv'
  <2> SUFFICES ASSUME NEW d \in Cpus
               PROVE  ncli'[d] = Cardinality(hold'[d]) + Busy(d)' /\ (ncli'[d] # 0 => ~flag'[d])
    BY Zenon DEF CountInv
  <2>1. Cardinality(hold[d]) \in Nat /\ (Cardinality(hold[d]) = 0 <=> hold[d] = {})
    BY HoldCount, Zenon
  <2>2. d = c => Cardinality(hold'[d]) = Cardinality(hold[d]) - 1
    <3>1. hold[c] \subseteq Locks /\ l \in hold[c] /\ hold'[c] = hold[c] \ {l}
      BY Zenon DEF release, TypeOK
    <3> QED BY <3>1, HoldCard
  <2>3. d # c => hold'[d] = hold[d]
    BY Zenon DEF release, TypeOK
  <2>4. /\ ncli'[d] = ncli[d] /\ flag'[d] = flag[d]
        /\ Busy(c) = 0 /\ Busy(c)' = 1 /\ (d # c => Busy(d)' = Busy(d))
    BY Zenon DEF release, TypeOK, Busy
  <2>5. ncli[d] = Cardinality(hold[d]) + Busy(d) /\ (ncli[d] # 0 => ~flag[d])
    BY Zenon DEF CountInv
  <2> QED BY <2>1, <2>2, <2>3, <2>4, <2>5
<1>5. ModeInv'
  BY DEF release, TypeOK, OnInv, ModeInv, Busy, Scheduling, Plain, Kernel
<1>6. IntenaInv'
  BY Zenon DEF release, TypeOK, OnInv, IntenaInv, Kernel, CountInv, Scheduling
<1>7. NoPanic'
  <2>1. locked[l] /\ lcpu[l] = c
    BY Zenon DEF release, LockInv, Inside
  <2> QED BY <2>1, Zenon DEF release, NoPanic, holding
<1> QED BY <1>1, <1>2, <1>3, <1>4, <1>5, <1>6, <1>7, Zenon

\* The lock word is freed.
LEMMA Inv_release_unlock ==
  ASSUME SpinInv, NEW c \in Cpus, release_unlock(c)
  PROVE  SpinInv'
<1> USE DEF SpinInv
<1>1. TypeOK'
  BY Zenon DEF release_unlock, TypeOK, Points
<1>2. OnInv'
  BY Zenon DEF release_unlock, TypeOK, OnInv, Kernel, Scheduling, ModeInv
<1>3. LockInv'
  BY DEF release_unlock, TypeOK, LockInv, Mutex, Inside
<1>4. CountInv'
  <2> SUFFICES ASSUME NEW d \in Cpus
               PROVE  ncli'[d] = Cardinality(hold'[d]) + Busy(d)' /\ (ncli'[d] # 0 => ~flag'[d])
    BY Zenon DEF CountInv
  <2>1. Cardinality(hold[d]) \in Nat /\ (Cardinality(hold[d]) = 0 <=> hold[d] = {})
    BY HoldCount, Zenon
  <2> QED BY <2>1, Zenon DEF release_unlock, TypeOK, CountInv, Busy
<1>5. ModeInv'
  BY DEF release_unlock, TypeOK, OnInv, ModeInv, Busy, Scheduling, Plain, Kernel
<1>6. IntenaInv'
  BY Zenon DEF release_unlock, TypeOK, OnInv, IntenaInv, Kernel, CountInv, Scheduling
<1>7. NoPanic'
  BY Zenon DEF release_unlock, NoPanic
<1> QED BY <1>1, <1>2, <1>3, <1>4, <1>5, <1>6, <1>7, Zenon

\* The last popcli() restores the interrupts.
LEMMA Inv_popcli ==
  ASSUME SpinInv, NEW c \in Cpus, popcli(c)
  PROVE  SpinInv'
<1> USE DEF SpinInv
<1>0. Cardinality(hold[c]) \in Nat /\ (Cardinality(hold[c]) = 0 <=> hold[c] = {})
  BY HoldCount, Zenon
<1>a. ncli[c] = Cardinality(hold[c]) + 1 /\ ~flag[c]
  BY <1>0 DEF popcli, CountInv, Busy
<1>b. panicked' = FALSE
  <2>1. ~(ncli[c] < 1)
    BY <1>0, <1>a
  <2> QED BY <2>1, <1>a, Zenon DEF popcli
<1>1. TypeOK'
  <2>1. pc' \in [Cpus -> Points]
    BY Zenon DEF popcli, TypeOK, Points
  <2>2. flag' \in [Cpus -> BOOLEAN]
    BY Zenon DEF popcli, TypeOK
  <2>3. ncli' \in [Cpus -> Nat]
    BY <1>0, <1>a DEF popcli, TypeOK
  <2> QED BY <1>b, <2>1, <2>2, <2>3, Zenon DEF popcli, TypeOK
<1>2. OnInv'
  BY Zenon DEF popcli, TypeOK, OnInv, Kernel, Scheduling, ModeInv
<1>3. LockInv'
  <2>1. /\ UNCHANGED <<locked, lcpu, hold>>
        /\ \A d \in Cpus : Inside(d)' = Inside(d)
    BY Zenon DEF popcli, TypeOK, Inside
  <2>2. \A d \in Cpus : pc'[d] \in {"holding", "xchg", "setcpu", "unlock"} => want'[d] \notin hold[d]
    BY DEF popcli, TypeOK, LockInv
  <2> QED BY <2>1, <2>2, LockStutter, Zenon
<1>4. CountInv'
  <2> SUFFICES ASSUME NEW d \in Cpus
               PROVE  ncli'[d] = Cardinality(hold'[d]) + Busy(d)' /\ (ncli'[d] # 0 => ~flag'[d])
    BY Zenon DEF CountInv
  <2>1. Cardinality(hold[d]) \in Nat /\ (Cardinality(hold[d]) = 0 <=> hold[d] = {})
    BY HoldCount, Zenon
  <2> QED BY <2>1 DEF popcli, TypeOK, CountInv, Busy
<1>5. ModeInv'
  <2> SUFFICES ASSUME NEW d \in Cpus
               PROVE  /\ Plain(d)' => /\ hold'[d] \subseteq {ptlock}
                                      /\ Busy(d)' = 1 => want'[d] = ptlock /\ hold'[d] = {}
                      /\ pc'[d] = "sti" => Scheduling(d)' /\ hold'[d] = {}
                      /\ on'[d] \in Threads \ started' =>
                           /\ pc'[d] \in {"run", "unlock", "popcli", "trapret"}
                           /\ pc'[d] = "run" => hold'[d] = {ptlock}
                      /\ pc'[d] = "trapret" => on'[d] \in Threads \ started' /\ hold'[d] = {}
    BY Zenon DEF ModeInv
  <2>1. /\ UNCHANGED <<hold, want, on, started, intr>>
        /\ Plain(d)' = Plain(d) /\ Scheduling(d)' = Scheduling(d)
    BY Zenon DEF popcli, Plain, Scheduling
  <2>2. CASE d # c
    <3>1. pc'[d] = pc[d] /\ Busy(d)' = Busy(d)
      BY <2>2, Zenon DEF popcli, TypeOK, Busy
    <3> QED BY <2>1, <3>1, Zenon DEF ModeInv
  <2>3. CASE d = c
    <3>1. /\ Scheduling(c) => pc'[c] = "sti"
          /\ ~Scheduling(c) /\ Kernel(c) => pc'[c] = "run"
          /\ ~Scheduling(c) /\ ~Kernel(c) => pc'[c] = "trapret"
      <4>1. Scheduling(c) => pc'[c] = "sti"
        <5>1. Scheduling(c) => ~Kernel(c)
          BY SpinAssumption DEF Scheduling, Kernel, TypeOK
        <5> QED BY <5>1, Zenon DEF popcli, TypeOK
      <4> QED BY <4>1, Zenon DEF popcli, TypeOK
    <3>2. Busy(c)' = 0 /\ Busy(c) = 1
      BY <3>1, Zenon DEF popcli, Busy
    <3>3. on[c] \in Threads \ started => ~Scheduling(c) /\ ~Kernel(c)
      BY SpinAssumption, Zenon DEF Scheduling, Kernel, OnInv
    <3>4. ~Scheduling(c) /\ ~Kernel(c) => on[c] \in Threads \ started /\ Plain(c)
      BY Zenon DEF Scheduling, Kernel, OnInv, Plain
    <3>5. Scheduling(c) => Plain(c)
      BY Zenon DEF Plain
    <3> QED BY <2>1, <2>3, <3>1, <3>2, <3>3, <3>4, <3>5, Zenon DEF ModeInv
  <2> QED BY <2>2, <2>3, Zenon
<1>6. IntenaInv'
  <2>1. UNCHANGED <<intena, on, intr, started, saved>> /\ \A d \in Cpus : Kernel(d)' = Kernel(d)
    BY Zenon DEF popcli, Kernel
  <2>2. ncli'[c] = ncli[c] - 1 /\ (ncli[c] = 1 /\ intena[c] => flag'[c]) /\ (~intena[c] => ~flag'[c])
    BY <1>a, Zenon DEF popcli, TypeOK
  <2>3. \A d \in Cpus \ {c} : ncli'[d] = ncli[d] /\ flag'[d] = flag[d]
    BY Zenon DEF popcli, TypeOK
  <2>4. ncli[c] \in Nat /\ ncli[c] # 0 /\ (ncli'[c] = 0 <=> ncli[c] = 1)
    BY <1>0, <1>a, <2>2
  <2> QED BY <1>a, <2>1, <2>2, <2>3, <2>4 DEF IntenaInv, TypeOK
<1>7. NoPanic'
  BY <1>b, Zenon DEF NoPanic
<1> QED BY <1>1, <1>2, <1>3, <1>4, <1>5, <1>6, <1>7, Zenon

\* The top of the scheduler's loop.
LEMMA Inv_sti ==
  ASSUME SpinInv, NEW c \in Cpus, sti(c)
  PROVE  SpinInv'
<1> USE DEF SpinInv
<1>0. Scheduling(c) /\ ~Kernel(c) /\ hold[c] = {} /\ ncli[c] = 0
  <2>1. Scheduling(c) /\ hold[c] = {}
    BY Zenon DEF sti, ModeInv
  <2>2. ~Kernel(c)
    BY <2>1, SpinAssumption DEF Scheduling, Kernel, TypeOK
  <2>3. ncli[c] = 0
    <3>1. Cardinality(hold[c]) = 0
      BY <2>1, HoldCount, Zenon
    <3> QED BY <3>1 DEF CountInv, Busy, sti
  <2> QED BY <2>1, <2>2, <2>3, Zenon
<1>1. TypeOK'
  BY Zenon DEF sti, TypeOK, Points
<1>2. OnInv'
  BY Zenon DEF sti, TypeOK, OnInv, Kernel, Scheduling, ModeInv
<1>3. LockInv'
  <2>1. /\ UNCHANGED <<locked, lcpu, hold>>
        /\ \A d \in Cpus : Inside(d)' = Inside(d)
    BY Zenon DEF sti, TypeOK, Inside
  <2>2. \A d \in Cpus : pc'[d] \in {"holding", "xchg", "setcpu", "unlock"} => want'[d] \notin hold[d]
    BY DEF sti, TypeOK, LockInv
  <2> QED BY <2>1, <2>2, LockStutter, Zenon
<1>4. CountInv'
  <2> SUFFICES ASSUME NEW d \in Cpus
               PROVE  ncli'[d] = Cardinality(hold'[d]) + Busy(d)' /\ (ncli'[d] # 0 => ~flag'[d])
    BY Zenon DEF CountInv
  <2>1. Cardinality(hold[d]) \in Nat /\ (Cardinality(hold[d]) = 0 <=> hold[d] = {})
    BY HoldCount, Zenon
  <2> QED BY <1>0, <2>1, Zenon DEF sti, TypeOK, CountInv, Busy
<1>5. ModeInv'
  BY DEF sti, TypeOK, OnInv, ModeInv, Busy, Scheduling, Plain, Kernel
<1>6. IntenaInv'
  <2>1. UNCHANGED <<ncli, intena, on, intr, started, saved>> /\ \A d \in Cpus : Kernel(d)' = Kernel(d)
    BY Zenon DEF sti, Kernel
  <2>2. \A d \in Cpus \ {c} : flag'[d] = flag[d]
    BY Zenon DEF sti, TypeOK
  <2> QED BY <1>0, <2>1, <2>2, Zenon DEF IntenaInv
<1>7. NoPanic'
  BY Zenon DEF sti, NoPanic
<1> QED BY <1>1, <1>2, <1>3, <1>4, <1>5, <1>6, <1>7, Zenon

\* The scheduler hands the CPU and ptable.lock to a thread.
LEMMA Inv_swtch ==
  ASSUME SpinInv, NEW c \in Cpus, NEW t \in Threads, swtch(c, t)
  PROVE  SpinInv'
<1> USE DEF SpinInv
<1>1. TypeOK'
  BY Zenon DEF swtch, TypeOK
<1>2. OnInv'
  BY DEF swtch, TypeOK, OnInv, Kernel, Scheduling, ModeInv
<1>3. LockInv'
  <2>1. /\ UNCHANGED <<locked, lcpu, hold>>
        /\ \A d \in Cpus : Inside(d)' = Inside(d)
    BY Zenon DEF swtch, TypeOK, Inside
  <2>2. \A d \in Cpus : pc'[d] \in {"holding", "xchg", "setcpu", "unlock"} => want'[d] \notin hold[d]
    BY Zenon DEF swtch, TypeOK, LockInv
  <2> QED BY <2>1, <2>2, LockStutter, Zenon
<1>4. CountInv'
  <2> SUFFICES ASSUME NEW d \in Cpus
               PROVE  ncli'[d] = Cardinality(hold'[d]) + Busy(d)' /\ (ncli'[d] # 0 => ~flag'[d])
    BY Zenon DEF CountInv
  <2>1. Cardinality(hold[d]) \in Nat /\ (Cardinality(hold[d]) = 0 <=> hold[d] = {})
    BY HoldCount, Zenon
  <2> QED BY <2>1, Zenon DEF swtch, TypeOK, CountInv, Busy
<1>5. ModeInv'
  BY DEF swtch, TypeOK, OnInv, ModeInv, Busy, Scheduling, Plain, Kernel
<1>6. IntenaInv'
  <2>0. ncli[c] # 0
    <3>1. Cardinality(hold[c]) \in Nat /\ Cardinality(hold[c]) # 0
      BY HoldCount, Zenon DEF swtch
    <3> QED BY <3>1 DEF CountInv, Busy
  <2>1. UNCHANGED <<ncli, flag, intr, started, saved>>
    BY Zenon DEF swtch
  <2>2. \A d \in Cpus \ {c} : on'[d] = on[d] /\ intena'[d] = intena[d]
    BY Zenon DEF swtch, TypeOK
  <2>3. on'[c] = t /\ (t \in started => intena'[c] = saved[t])
    BY Zenon DEF swtch, TypeOK
  <2>4. \A d \in Cpus : on[d] # t
    BY Zenon DEF swtch
  <2>5. \A u \in started : (\A d \in Cpus : on'[d] # u) => \A d \in Cpus : on[d] # u
    BY <2>2, SpinAssumption DEF swtch, Scheduling, TypeOK
  <2>6. t \in started \cup intr => t \in started
    BY Zenon DEF OnInv
  <2>7. \A d \in Cpus : Kernel(d)' =>
          /\ ncli'[d] # 0 => (intena'[d] <=> on'[d] \notin intr')
          /\ ncli'[d] = 0 => (flag'[d] <=> on'[d] \notin intr')
    BY <2>0, <2>1, <2>2, <2>3, <2>4, <2>6 DEF IntenaInv, Kernel
  <2>8. \A u \in started' : (\A d \in Cpus : on'[d] # u) => (saved'[u] <=> u \notin intr')
    BY <2>1, <2>5, Zenon DEF IntenaInv
  <2> QED BY <2>7, <2>8, Zenon DEF IntenaInv
<1>7. NoPanic'
  BY Zenon DEF swtch, NoPanic
<1> QED BY <1>1, <1>2, <1>3, <1>4, <1>5, <1>6, <1>7, Zenon

\* A thread hands the CPU and ptable.lock to the scheduler.
LEMMA Inv_sched ==
  ASSUME SpinInv, NEW c \in Cpus, sched(c)
  PROVE  SpinInv'
<1> USE DEF SpinInv
<1>1. TypeOK'
  BY Zenon DEF sched, TypeOK
<1>2. OnInv'
  <2>1. UNCHANGED <<intr, started>> /\ on[c] \in Threads /\ on'[c] = c
    BY Zenon DEF sched, TypeOK
  <2>2. \A d \in Cpus \ {c} : on'[d] = on[d] /\ on[d] # c
    BY SpinAssumption DEF sched, TypeOK, OnInv
  <2> QED BY <2>1, <2>2, Zenon DEF OnInv
<1>3. LockInv'
  <2>1. /\ UNCHANGED <<locked, lcpu, hold>>
        /\ \A d \in Cpus : Inside(d)' = Inside(d)
    BY Zenon DEF sched, TypeOK, Inside
  <2>2. \A d \in Cpus : pc'[d] \in {"holding", "xchg", "setcpu", "unlock"} => want'[d] \notin hold[d]
    BY Zenon DEF sched, TypeOK, LockInv
  <2> QED BY <2>1, <2>2, LockStutter, Zenon
<1>4. CountInv'
  <2> SUFFICES ASSUME NEW d \in Cpus
               PROVE  ncli'[d] = Cardinality(hold'[d]) + Busy(d)' /\ (ncli'[d] # 0 => ~flag'[d])
    BY Zenon DEF CountInv
  <2>1. Cardinality(hold[d]) \in Nat /\ (Cardinality(hold[d]) = 0 <=> hold[d] = {})
    BY HoldCount, Zenon
  <2> QED BY <2>1, Zenon DEF sched, TypeOK, CountInv, Busy
<1>5. ModeInv'
  BY DEF sched, TypeOK, OnInv, ModeInv, Busy, Scheduling, Plain, Kernel
<1>6. IntenaInv'
  <2>0. ncli[c] # 0 /\ on[c] \in started /\ on[c] \in Threads
    <3>1. Cardinality(hold[c]) \in Nat /\ Cardinality(hold[c]) # 0
      BY HoldCount, Zenon DEF sched
    <3>2. ncli[c] # 0
      BY <3>1 DEF CountInv, Busy
    <3> QED BY <3>2, Zenon DEF sched, TypeOK
  <2>1. UNCHANGED <<ncli, flag, intena, intr, started>>
    BY Zenon DEF sched
  <2>2. \A d \in Cpus \ {c} : on'[d] = on[d]
    BY Zenon DEF sched, TypeOK
  <2>3. on'[c] = c /\ ~Kernel(c)'
    BY <2>0, <2>1, SpinAssumption DEF sched, TypeOK, Kernel, OnInv
  <2>4. saved'[on[c]] = intena[c] /\ \A u \in Threads \ {on[c]} : saved'[u] = saved[u]
    BY <2>0, Zenon DEF sched, TypeOK
  <2>5. intena[c] <=> on[c] \notin intr
    BY <2>0, Zenon DEF IntenaInv, Kernel
  <2>7. \A d \in Cpus : Kernel(d)' =>
          /\ ncli'[d] # 0 => (intena'[d] <=> on'[d] \notin intr')
          /\ ncli'[d] = 0 => (flag'[d] <=> on'[d] \notin intr')
    BY <2>1, <2>2, <2>3, Zenon DEF IntenaInv, Kernel
  <2>8. \A u \in started' : (\A d \in Cpus : on'[d] # u) => (saved'[u] <=> u \notin intr')
    <3> SUFFICES ASSUME NEW u \in started, \A d \in Cpus : on'[d] # u
                 PROVE  saved'[u] <=> u \notin intr
      BY <2>1, Zenon
    <3>1. u \in Threads
      BY Zenon DEF TypeOK
    <3>2. CASE u = on[c]
      BY <2>4, <2>5, <3>2, Zenon
    <3>3. CASE u # on[c]
      BY <2>2, <2>4, <3>1, <3>3 DEF IntenaInv
    <3> QED BY <3>2, <3>3, Zenon
  <2> QED BY <2>7, <2>8, Zenon DEF IntenaInv
<1>7. NoPanic'
  <2>1. holding(c, ptlock)
    BY PtIsLock, Zenon DEF sched, holding, LockInv, Inside
  <2>2. ncli[c] = 1
    <3>1. Cardinality({ptlock}) = 1
      BY FS_Singleton, Zenon
    <3>2. hold[c] = {ptlock} /\ pc[c] = "run"
      BY Zenon DEF sched, At
    <3>3. Busy(c) = 0
      BY <3>2, Zenon DEF Busy
    <3>4. ncli[c] = Cardinality(hold[c]) + Busy(c)
      BY Zenon DEF CountInv
    <3> QED BY <3>1, <3>2, <3>3, <3>4
  <2>3. ~flag[c]
    BY <2>2 DEF CountInv
  <2> QED BY <2>1, <2>2, <2>3, Zenon DEF sched, NoPanic
<1> QED BY <1>1, <1>2, <1>3, <1>4, <1>5, <1>6, <1>7, Zenon

\* A new process leaves the kernel.
LEMMA Inv_trapret ==
  ASSUME SpinInv, NEW c \in Cpus, trapret(c)
  PROVE  SpinInv'
<1> USE DEF SpinInv
<1>0. on[c] \in Threads \ started /\ hold[c] = {} /\ ncli[c] = 0
  <2>1. on[c] \in Threads \ started /\ hold[c] = {}
    BY Zenon DEF trapret, ModeInv
  <2>2. ncli[c] = 0
    <3>1. Cardinality(hold[c]) = 0
      BY <2>1, HoldCount, Zenon
    <3> QED BY <3>1 DEF CountInv, Busy, trapret
  <2> QED BY <2>1, <2>2, Zenon
<1>1. TypeOK'
  BY <1>0, Zenon DEF trapret, TypeOK, Points
<1>2. OnInv'
  BY Zenon DEF trapret, TypeOK, OnInv, Kernel, Scheduling, ModeInv
<1>3. LockInv'
  <2>1. /\ UNCHANGED <<locked, lcpu, hold>>
        /\ \A d \in Cpus : Inside(d)' = Inside(d)
    BY Zenon DEF trapret, TypeOK, Inside
  <2>2. \A d \in Cpus : pc'[d] \in {"holding", "xchg", "setcpu", "unlock"} => want'[d] \notin hold[d]
    BY DEF trapret, TypeOK, LockInv
  <2> QED BY <2>1, <2>2, LockStutter, Zenon
<1>4. CountInv'
  <2> SUFFICES ASSUME NEW d \in Cpus
               PROVE  ncli'[d] = Cardinality(hold'[d]) + Busy(d)' /\ (ncli'[d] # 0 => ~flag'[d])
    BY Zenon DEF CountInv
  <2>1. Cardinality(hold[d]) \in Nat /\ (Cardinality(hold[d]) = 0 <=> hold[d] = {})
    BY HoldCount, Zenon
  <2> QED BY <1>0, <2>1, Zenon DEF trapret, TypeOK, CountInv, Busy
<1>5. ModeInv'
  BY DEF trapret, TypeOK, OnInv, ModeInv, Busy, Scheduling, Plain, Kernel
<1>6. IntenaInv'
  <2>1. UNCHANGED <<ncli, intena, on, intr, saved>> /\ started' = started \cup {on[c]}
    BY Zenon DEF trapret
  <2>2. flag'[c] /\ \A d \in Cpus \ {c} : flag'[d] = flag[d]
    BY Zenon DEF trapret, TypeOK
  <2>3. on[c] \notin intr /\ \A d \in Cpus \ {c} : on[d] # on[c]
    BY <1>0, Zenon DEF OnInv
  <2>7. \A d \in Cpus : Kernel(d)' =>
          /\ ncli'[d] # 0 => (intena'[d] <=> on'[d] \notin intr')
          /\ ncli'[d] = 0 => (flag'[d] <=> on'[d] \notin intr')
    BY <1>0, <2>1, <2>2, <2>3, Zenon DEF IntenaInv, Kernel
  <2>8. \A u \in started' : (\A d \in Cpus : on'[d] # u) => (saved'[u] <=> u \notin intr')
    BY <2>1, Zenon DEF IntenaInv
  <2> QED BY <2>7, <2>8, Zenon DEF IntenaInv
<1>7. NoPanic'
  BY Zenon DEF trapret, NoPanic
<1> QED BY <1>1, <1>2, <1>3, <1>4, <1>5, <1>6, <1>7, Zenon

\* A handler starts.
LEMMA Inv_interrupt ==
  ASSUME SpinInv, NEW c \in Cpus, interrupt(c)
  PROVE  SpinInv'
<1> USE DEF SpinInv
<1>0. ncli[c] = 0 /\ hold[c] = {} /\ on[c] \notin Threads \ started
  <2>1. ncli[c] = 0
    BY Zenon DEF interrupt, CountInv
  <2>2. Cardinality(hold[c]) \in Nat /\ (Cardinality(hold[c]) = 0 <=> hold[c] = {})
    BY HoldCount, Zenon
  <2>3. hold[c] = {}
    BY <2>1, <2>2 DEF CountInv, Busy
  <2> QED BY <2>1, <2>3, Zenon DEF ModeInv, interrupt
<1>1. TypeOK'
  BY DEF interrupt, TypeOK
<1>2. OnInv'
  <2>1. on' = on /\ started' = started /\ intr' = intr \cup {on[c]}
    BY Zenon DEF interrupt
  <2>2. on[c] \in Cpus => on[c] = c
    BY SpinAssumption, Zenon DEF OnInv
  <2>3. on[c] \in Threads => on[c] \in started
    BY <1>0, Zenon
  <2> QED BY <2>1, <2>2, <2>3, Zenon DEF OnInv
<1>3. LockInv'
  <2>1. /\ UNCHANGED <<locked, lcpu, hold>>
        /\ \A d \in Cpus : Inside(d)' = Inside(d)
    BY Zenon DEF interrupt, TypeOK, Inside
  <2>2. \A d \in Cpus : pc'[d] \in {"holding", "xchg", "setcpu", "unlock"} => want'[d] \notin hold[d]
    BY Zenon DEF interrupt, TypeOK, LockInv
  <2> QED BY <2>1, <2>2, LockStutter, Zenon
<1>4. CountInv'
  <2> SUFFICES ASSUME NEW d \in Cpus
               PROVE  ncli'[d] = Cardinality(hold'[d]) + Busy(d)' /\ (ncli'[d] # 0 => ~flag'[d])
    BY Zenon DEF CountInv
  <2>1. Cardinality(hold[d]) \in Nat /\ (Cardinality(hold[d]) = 0 <=> hold[d] = {})
    BY HoldCount, Zenon
  <2> QED BY <2>1, Zenon DEF interrupt, TypeOK, CountInv, Busy
<1>5. ModeInv'
  BY DEF interrupt, TypeOK, OnInv, ModeInv, Busy, Scheduling, Plain, Kernel
<1>6. IntenaInv'
  BY DEF interrupt, TypeOK, OnInv, IntenaInv, Kernel, CountInv, Scheduling
<1>7. NoPanic'
  BY Zenon DEF interrupt, NoPanic
<1> QED BY <1>1, <1>2, <1>3, <1>4, <1>5, <1>6, <1>7, Zenon

\* A handler returns.
LEMMA Inv_iret ==
  ASSUME SpinInv, NEW c \in Cpus, iret(c)
  PROVE  SpinInv'
<1> USE DEF SpinInv
<1>1. TypeOK'
  BY Zenon DEF iret, TypeOK
<1>2. OnInv'
  BY Zenon DEF iret, TypeOK, OnInv, Kernel, Scheduling, ModeInv
<1>3. LockInv'
  <2>1. /\ UNCHANGED <<locked, lcpu, hold>>
        /\ \A d \in Cpus : Inside(d)' = Inside(d)
    BY Zenon DEF iret, TypeOK, Inside
  <2>2. \A d \in Cpus : pc'[d] \in {"holding", "xchg", "setcpu", "unlock"} => want'[d] \notin hold[d]
    BY Zenon DEF iret, TypeOK, LockInv
  <2> QED BY <2>1, <2>2, LockStutter, Zenon
<1>4. CountInv'
  <2> SUFFICES ASSUME NEW d \in Cpus
               PROVE  ncli'[d] = Cardinality(hold'[d]) + Busy(d)' /\ (ncli'[d] # 0 => ~flag'[d])
    BY Zenon DEF CountInv
  <2>1. Cardinality(hold[d]) \in Nat /\ (Cardinality(hold[d]) = 0 <=> hold[d] = {})
    BY HoldCount, Zenon
  <2> QED BY <2>1 DEF iret, TypeOK, CountInv, Busy
<1>5. ModeInv'
  BY DEF iret, TypeOK, OnInv, ModeInv, Busy, Scheduling, Plain, Kernel
<1>6. IntenaInv'
  <2>0. ncli[c] = 0
    <3>1. Cardinality(hold[c]) = 0
      BY HoldCount, Zenon DEF iret
    <3>2. Busy(c) = 0
      BY Zenon DEF Busy, iret
    <3> QED BY <3>1, <3>2 DEF CountInv
  <2>1. UNCHANGED <<ncli, intena, on, started, saved>> /\ intr' = intr \ {on[c]}
    BY Zenon DEF iret
  <2>2. flag'[c] /\ \A d \in Cpus \ {c} : flag'[d] = flag[d]
    BY Zenon DEF iret, TypeOK
  <2>3. \A d \in Cpus \ {c} : on[d] # on[c]
    BY Zenon DEF OnInv
  <2>7. \A d \in Cpus : Kernel(d)' =>
          /\ ncli'[d] # 0 => (intena'[d] <=> on'[d] \notin intr')
          /\ ncli'[d] = 0 => (flag'[d] <=> on'[d] \notin intr')
    BY <2>0, <2>1, <2>2, <2>3, Zenon DEF IntenaInv, Kernel
  <2>8. \A u \in started' : (\A d \in Cpus : on'[d] # u) => (saved'[u] <=> u \notin intr')
    BY <2>1, Zenon DEF IntenaInv
  <2> QED BY <2>7, <2>8, Zenon DEF IntenaInv
<1>7. NoPanic'
  BY Zenon DEF iret, NoPanic
<1> QED BY <1>1, <1>2, <1>3, <1>4, <1>5, <1>6, <1>7, Zenon

\* Every step preserves the invariant.
LEMMA Inv_Next == SpinInv /\ [Next]_vars => SpinInv'
<1> SUFFICES ASSUME SpinInv, [Next]_vars PROVE SpinInv'
  BY Zenon
<1>1. CASE UNCHANGED vars
  <2>1. UNCHANGED <<locked, lcpu, flag, ncli, intena, on, pc, want, hold, intr, saved, started,
                    panicked>>
    BY <1>1, Zenon DEF vars, lockvars, cpuvars
  <2>2. TypeOK' /\ OnInv' /\ NoPanic'
    BY <2>1, Zenon DEF SpinInv, TypeOK, OnInv, NoPanic
  <2>3. LockInv'
    BY <2>1, Zenon DEF SpinInv, LockInv, Mutex, Inside
  <2>4. CountInv' /\ ModeInv'
    BY <2>1, Zenon DEF SpinInv, CountInv, ModeInv, Busy, Scheduling, Plain, Kernel
  <2>5. IntenaInv'
    BY <2>1, Zenon DEF SpinInv, IntenaInv, Scheduling, Plain, Kernel
  <2> QED BY <2>2, <2>3, <2>4, <2>5, Zenon DEF SpinInv
<1>2. CASE Next
  BY <1>2, Inv_pushcli, Inv_acquire_check, Inv_xchg, Inv_acquire_done, Inv_release,
     Inv_release_unlock, Inv_popcli, Inv_sti, Inv_swtch, Inv_sched, Inv_trapret,
     Inv_interrupt, Inv_iret DEF Next, acquire
<1> QED BY <1>1, <1>2, Zenon

\* The inductive invariant of the spin locks.
THEOREM SpinInvariant == Spec => []SpinInv
<1> QED BY Inv_Init, Inv_Next, PTL DEF Spec

\* Two CPUs are never inside the same lock, for any number of CPUs, threads
\* and locks, with interrupts and with sched()'s hand-over of ptable.lock.
THEOREM MutualExclusion == Spec => []Mutex
<1>1. SpinInv => Mutex
  BY Zenon DEF SpinInv, LockInv
<1> QED BY <1>1, SpinInvariant, PTL

\* No assertion of acquire(), release(), popcli() or sched() can fail.
THEOREM SpinNeverPanics == Spec => []NoPanic
<1>1. SpinInv => NoPanic
  BY Zenon DEF SpinInv
<1> QED BY <1>1, SpinInvariant, PTL

\* Interrupts are off on a CPU that has a lock.
THEOREM LocksDisableInterrupts == Spec => []LockedOff
<1>1. SpinInv => LockedOff
  <2> SUFFICES ASSUME SpinInv, NEW c \in Cpus, Inside(c) # {} PROVE ~flag[c]
    BY Zenon DEF LockedOff
  <2>1. Cardinality(hold[c]) \in Nat /\ (Cardinality(hold[c]) = 0 <=> hold[c] = {})
    BY HoldCount, Zenon DEF SpinInv
  <2> QED BY <2>1 DEF SpinInv, TypeOK, CountInv, Busy, Inside
<1> QED BY <1>1, SpinInvariant, PTL

\* After its last release() a thread has its interrupts as before, on whatever CPU.
THEOREM InterruptsComeBack == Spec => []InterruptsRestored
<1>1. SpinInv => InterruptsRestored
  <2> SUFFICES ASSUME SpinInv, NEW c \in Cpus, pc[c] = "run", hold[c] = {}, Kernel(c)
               PROVE  flag[c] <=> on[c] \notin intr
    BY Zenon DEF InterruptsRestored
  <2>1. ncli[c] = 0
    BY FS_EmptySet DEF SpinInv, CountInv, Busy
  <2> QED BY <2>1, Zenon DEF SpinInv, IntenaInv
<1> QED BY <1>1, SpinInvariant, PTL

\* All the promises of acquire() and release() at once.
THEOREM LocksAreSafe == Spec => []LockSafety
<1>1. SpinInv => TypeOK
  BY Zenon DEF SpinInv
<1> QED BY <1>1, SpinInvariant, MutualExclusion, SpinNeverPanics, LocksDisableInterrupts,
           InterruptsComeBack, PTL DEF LockSafety
=============================================================================
