---------------------------- MODULE ClockProofs ----------------------------
(***************************************************************************)
(* Proofs about sys_sleep() for any number of processes, any width of      *)
(* ticks and any arguments: sleep() waits long enough when ticks wraps,    *)
(* and no kill is missed for longer than a tick.                           *)
(***************************************************************************)
EXTENDS Clock, TLAPS

Places == {"user", "slept", "loop", "tested", "sleep", "woken"}

ClockType == /\ ticks \in 0..TUINT-1
             /\ tat \in [Sleepers -> Places]
             /\ ticks0 \in [Sleepers -> 0..TUINT-1]
             /\ tn \in [Sleepers -> Int]
             /\ slept \in [Sleepers -> Nat]

\* tickslock is held from the loop to sleep().
HoldsLock == \A p \in Sleepers : tat[p] \in {"loop", "tested"} => tlock = p

\* Whoever has tested killed, or sleeps after that, has seen every kill before the last tick.
KillSeen == /\ late \subseteq tdead
            /\ \A p \in Sleepers : tat[p] \in {"tested", "sleep"} => p \notin late

\* The wrapping difference is the number of ticks since the call.
CountsTicks == \A p \in Sleepers : InCall(p) => tu(ticks - ticks0[p]) = slept[p]

ClockInv == ClockType /\ HoldsLock /\ KillSeen /\ CountsTicks /\ SleepsLongEnough

-----------------------------------------------------------------------------
LEMMA Difference ==
  ASSUME NEW a \in 0..TUINT-1, NEW b \in 0..TUINT-1
  PROVE  /\ tu(b - a) \in 0..TUINT-1
         /\ b >= a => tu(b - a) = b - a
         /\ b < a => tu(b - a) = b - a + TUINT
<1>1. TUINT \in Nat \ {0}
  BY ClockAssumption, Zenon
<1>2. CASE b >= a
  <2>1. b - a \in 0..TUINT-1
    BY <1>1, <1>2
  <2> QED BY <1>1, <1>2, <2>1 DEF tu
<1>3. CASE b < a
  <2>1. b - a \in 1-TUINT..-1
    BY <1>1, <1>3
  <2> QED BY <1>1, <1>3, <2>1 DEF tu
<1> QED BY <1>1, <1>2, <1>3

LEMMA NextTick ==
  ASSUME NEW b \in 0..TUINT-1
  PROVE  /\ tu(b + 1) \in 0..TUINT-1
         /\ tu(b + 1) = IF b = TUINT - 1 THEN 0 ELSE b + 1
<1>1. TUINT \in Nat \ {0}
  BY ClockAssumption, Zenon
<1>2. CASE b = TUINT - 1
  <2>1. b + 1 = TUINT
    BY <1>1, <1>2
  <2>2. TUINT % TUINT = 0
    BY <1>1
  <2> QED BY <1>1, <1>2, <2>1, <2>2 DEF tu
<1>3. CASE b # TUINT - 1
  <2>1. b + 1 \in 0..TUINT-1
    BY <1>1, <1>3
  <2> QED BY <1>1, <1>3, <2>1 DEF tu
<1> QED BY <1>2, <1>3, Zenon

\* One tick is one more in the difference, as long as it has not gone all around.
LEMMA TickCounts ==
  ASSUME NEW a \in 0..TUINT-1, NEW b \in 0..TUINT-1, tu(b - a) < TUINT - 1
  PROVE  tu(tu(b + 1) - a) = tu(b - a) + 1
<1>1. TUINT \in Nat \ {0}
  BY ClockAssumption, Zenon
<1> DEFINE c == tu(b + 1)
           u == tu(b - a)
           v == tu(c - a)
<1>2. c \in 0..TUINT-1 /\ c = IF b = TUINT - 1 THEN 0 ELSE b + 1
  BY NextTick, Zenon
<1> HIDE DEF c
<1>3. (c >= a => v = c - a) /\ (c < a => v = c - a + TUINT)
  BY <1>2, Difference, Zenon
<1>4. u \in 0..TUINT-1 /\ (b >= a => u = b - a) /\ (b < a => u = b - a + TUINT) /\ u < TUINT - 1
  BY Difference, Zenon
<1> HIDE DEF u, v
<1>5. v = u + 1
  BY <1>1, <1>2, <1>3, <1>4
<1> QED BY <1>5, Zenon DEF c, u, v

-----------------------------------------------------------------------------
LEMMA ClockInitInv == ClockInit => ClockInv
<1> SUFFICES ASSUME ClockInit PROVE ClockInv
  BY Zenon
<1>1. ClockType
  BY ClockAssumption DEF ClockInit, ClockType, Places
<1>2. HoldsLock /\ KillSeen /\ CountsTicks /\ SleepsLongEnough
  BY Zenon DEF ClockInit, HoldsLock, KillSeen, CountsTicks, SleepsLongEnough, InCall
<1> QED BY <1>1, <1>2, Zenon DEF ClockInv

LEMMA SysSleepStep ==
  ASSUME ClockInv, NEW p \in Sleepers, NEW k \in Durations, sys_sleep(p, k)
  PROVE  ClockInv'
<1>1. ClockType /\ HoldsLock /\ KillSeen /\ CountsTicks /\ SleepsLongEnough
  BY Zenon DEF ClockInv
<1>2. tlock = NoHolder /\ tlock' = p /\ ticks' = ticks /\ tdead' = tdead /\ late' = late
  BY Zenon DEF sys_sleep
<1>3. /\ ticks0' = [ticks0 EXCEPT ![p] = ticks] /\ tn' = [tn EXCEPT ![p] = k]
      /\ slept' = [slept EXCEPT ![p] = 0] /\ tat' = [tat EXCEPT ![p] = "loop"]
  BY Zenon DEF sys_sleep
<1>4. ClockType'
  BY <1>1, <1>2, <1>3, ClockAssumption, Zenon DEF ClockType, Places
<1>5. tat'[p] = "loop" /\ ticks0'[p] = ticks /\ slept'[p] = 0
  BY <1>1, <1>3, Zenon DEF ClockType
<1>6. \A r \in Sleepers : r # p => /\ tat'[r] = tat[r] /\ ticks0'[r] = ticks0[r]
                                   /\ tn'[r] = tn[r] /\ slept'[r] = slept[r]
  BY <1>1, <1>3, Zenon DEF ClockType
<1>7. HoldsLock'
  <2>1. \A r \in Sleepers : tat[r] \notin {"loop", "tested"}
    BY <1>1, <1>2, ClockAssumption, Zenon DEF HoldsLock
  <2> QED BY <1>2, <1>6, <2>1, Zenon DEF HoldsLock
<1>8. KillSeen'
  BY <1>1, <1>2, <1>5, <1>6, Zenon DEF KillSeen
<1>9. CountsTicks'
  <2>1. tu(ticks - ticks) = 0
    BY <1>1, Difference DEF ClockType
  <2> QED BY <1>1, <1>2, <1>5, <1>6, <2>1, Zenon DEF CountsTicks, InCall
<1>10. SleepsLongEnough'
  BY <1>1, <1>5, <1>6, Zenon DEF SleepsLongEnough
<1> QED BY <1>4, <1>7, <1>8, <1>9, <1>10, Zenon DEF ClockInv

LEMMA LoopStep ==
  ASSUME ClockInv, NEW p \in Sleepers, sleep_loop(p)
  PROVE  ClockInv'
<1>1. ClockType /\ HoldsLock /\ KillSeen /\ CountsTicks /\ SleepsLongEnough
  BY Zenon DEF ClockInv
<1>2. /\ ticks' = ticks /\ ticks0' = ticks0 /\ tn' = tn /\ tdead' = tdead
      /\ slept' = slept /\ late' = late
  BY Zenon DEF sleep_loop
<1>3. tat[p] = "loop" \/ (tat[p] = "woken" /\ tlock = NoHolder)
  BY Zenon DEF sleep_loop
<1>4. \/ elapsed(p) /\ tat' = [tat EXCEPT ![p] = "slept"]
      \/ tat' = [tat EXCEPT ![p] = "user"]
      \/ p \notin tdead /\ tat' = [tat EXCEPT ![p] = "tested"] /\ tlock' = p
  BY Zenon DEF sleep_loop
<1>5. \A r \in Sleepers : r # p => tat'[r] = tat[r] /\ tat[r] \notin {"loop", "tested"}
  <2>1. \A r \in Sleepers : r # p => tat[r] \notin {"loop", "tested"}
    BY <1>1, <1>3, ClockAssumption, Zenon DEF HoldsLock
  <2> QED BY <1>1, <1>4, <2>1, Zenon DEF ClockType
<1>6. \/ elapsed(p) /\ tat'[p] = "slept"
      \/ tat'[p] = "user"
      \/ p \notin tdead /\ tat'[p] = "tested" /\ tlock' = p
  BY <1>1, <1>4, Zenon DEF ClockType
<1>7. ClockType'
  BY <1>1, <1>2, <1>4, Zenon DEF ClockType, Places
<1>8. HoldsLock'
  BY <1>5, <1>6, Zenon DEF HoldsLock
<1>9. KillSeen'
  BY <1>1, <1>2, <1>5, <1>6, Zenon DEF KillSeen
<1>10. CountsTicks'
  BY <1>1, <1>2, <1>3, <1>5, Zenon DEF CountsTicks, InCall
<1>11. elapsed(p) => slept[p] >= tu(tn[p])
  BY <1>1, <1>3, Zenon DEF CountsTicks, InCall, elapsed
<1>12. SleepsLongEnough'
  BY <1>1, <1>2, <1>5, <1>6, <1>11, Zenon DEF SleepsLongEnough
<1> QED BY <1>7, <1>8, <1>9, <1>10, <1>12, Zenon DEF ClockInv

LEMMA TsleepStep ==
  ASSUME ClockInv, NEW p \in Sleepers, tsleep(p)
  PROVE  ClockInv'
<1>1. ClockType /\ HoldsLock /\ KillSeen /\ CountsTicks /\ SleepsLongEnough
  BY Zenon DEF ClockInv
<1>2. /\ ticks' = ticks /\ ticks0' = ticks0 /\ tn' = tn /\ tdead' = tdead
      /\ slept' = slept /\ late' = late
  BY Zenon DEF tsleep
<1>3. tat[p] = "tested" /\ tat' = [tat EXCEPT ![p] = "sleep"]
  BY Zenon DEF tsleep
<1>4. tat'[p] = "sleep" /\ \A r \in Sleepers : r # p => tat'[r] = tat[r]
  BY <1>1, <1>3, Zenon DEF ClockType
<1>5. \A r \in Sleepers : r # p => tat[r] \notin {"loop", "tested"}
  BY <1>1, <1>3, Zenon DEF HoldsLock
<1>6. ClockType'
  BY <1>1, <1>2, <1>3, Zenon DEF ClockType, Places
<1>7. HoldsLock' /\ KillSeen'
  BY <1>1, <1>2, <1>3, <1>4, <1>5, Zenon DEF HoldsLock, KillSeen
<1>8. CountsTicks' /\ SleepsLongEnough'
  BY <1>1, <1>2, <1>3, <1>4, Zenon DEF CountsTicks, InCall, SleepsLongEnough
<1> QED BY <1>6, <1>7, <1>8, Zenon DEF ClockInv

LEMMA TkillStep ==
  ASSUME ClockInv, NEW p \in Sleepers, tkill(p)
  PROVE  ClockInv'
<1>1. ClockType /\ HoldsLock /\ KillSeen /\ CountsTicks /\ SleepsLongEnough
  BY Zenon DEF ClockInv
<1>2. /\ ticks' = ticks /\ ticks0' = ticks0 /\ tn' = tn /\ tdead' = tdead \cup {p}
      /\ slept' = slept /\ late' = late /\ tlock' = tlock
  BY Zenon DEF tkill
<1>3. tat' = [tat EXCEPT ![p] = IF tat[p] = "sleep" THEN "woken" ELSE tat[p]]
  BY Zenon DEF tkill
<1>4. \A r \in Sleepers : tat'[r] = tat[r] \/ (tat[r] = "sleep" /\ tat'[r] = "woken")
  BY <1>1, <1>3, Zenon DEF ClockType
<1>5. ClockType'
  BY <1>1, <1>2, <1>3, Zenon DEF ClockType, Places
<1>6. HoldsLock' /\ KillSeen'
  BY <1>1, <1>2, <1>4, Zenon DEF HoldsLock, KillSeen
<1>7. CountsTicks' /\ SleepsLongEnough'
  BY <1>1, <1>2, <1>4, Zenon DEF CountsTicks, InCall, SleepsLongEnough
<1> QED BY <1>5, <1>6, <1>7, Zenon DEF ClockInv

LEMMA TimerStep ==
  ASSUME ClockInv, timer
  PROVE  ClockInv'
<1>1. ClockType /\ HoldsLock /\ KillSeen /\ CountsTicks /\ SleepsLongEnough
  BY Zenon DEF ClockInv
<1>2. /\ tlock = NoHolder /\ tlock' = tlock /\ ticks' = tu(ticks + 1) /\ late' = tdead
      /\ ticks0' = ticks0 /\ tn' = tn /\ tdead' = tdead
  BY Zenon DEF timer
<1>3. tat' = [p \in Sleepers |-> IF tat[p] = "sleep" THEN "woken" ELSE tat[p]]
  BY Zenon DEF timer, twakeup
<1>4. slept' = [p \in Sleepers |-> IF InCall(p) THEN slept[p] + 1 ELSE slept[p]]
  BY Zenon DEF timer
<1>5. ticks \in 0..TUINT-1 /\ ticks' \in 0..TUINT-1
  BY <1>1, <1>2, NextTick, Zenon DEF ClockType
<1>6. tat' \in [Sleepers -> Places]
  BY <1>1, <1>3, Zenon DEF ClockType, Places
<1>7. slept' \in [Sleepers -> Nat]
  BY <1>1, <1>4 DEF ClockType
<1>8. ClockType'
  BY <1>1, <1>2, <1>5, <1>6, <1>7, Zenon DEF ClockType
<1>9. \A p \in Sleepers : tat[p] \notin {"loop", "tested"}
  BY <1>1, <1>2, ClockAssumption, Zenon DEF HoldsLock
<1>10. \A p \in Sleepers : /\ tat'[p] \notin {"loop", "tested", "sleep"}
                           /\ tat'[p] = "slept" <=> tat[p] = "slept"
  BY <1>3, <1>9, Zenon
<1>11. HoldsLock' /\ KillSeen'
  BY <1>2, <1>10, Zenon DEF HoldsLock, KillSeen
<1>12. CountsTicks'
  <2> SUFFICES ASSUME NEW p \in Sleepers, InCall(p)' PROVE tu(ticks' - ticks0'[p]) = slept'[p]
    BY Zenon DEF CountsTicks
  <2>1. InCall(p)
    BY <1>3, Zenon DEF InCall
  <2>2. tu(ticks - ticks0[p]) = slept[p] /\ slept[p] < TUINT - 1 /\ ticks0[p] \in 0..TUINT-1
    BY <1>1, <2>1, Zenon DEF CountsTicks, timer, ClockType
  <2>3. tu(tu(ticks + 1) - ticks0[p]) = tu(ticks - ticks0[p]) + 1
    BY <1>5, <2>2, TickCounts, Zenon
  <2>4. slept'[p] = slept[p] + 1
    BY <1>4, <2>1, Zenon
  <2> QED BY <1>2, <2>2, <2>3, <2>4, Zenon
<1>13. SleepsLongEnough'
  <2> SUFFICES ASSUME NEW p \in Sleepers, tat'[p] = "slept" PROVE slept'[p] >= tu(tn'[p])
    BY Zenon DEF SleepsLongEnough
  <2>1. tat[p] = "slept" /\ ~InCall(p)
    BY <1>10, Zenon DEF InCall
  <2>2. slept'[p] = slept[p]
    BY <1>4, <2>1, Zenon
  <2> QED BY <1>1, <1>2, <2>1, <2>2, Zenon DEF SleepsLongEnough
<1> QED BY <1>8, <1>11, <1>12, <1>13, Zenon DEF ClockInv

\* sys_sleep() returns 0 no earlier than asked when ticks wraps around, and a kill
\* between its test and sleep() is found at the next tick, for any number of
\* processes and any width of ticks.
THEOREM SleepIsExact == ClockSpec => []SleepsExact
<1>1. ClockInv /\ [ClockNext]_clockvars => ClockInv'
  <2> SUFFICES ASSUME ClockInv, [ClockNext]_clockvars PROVE ClockInv'
    BY Zenon
  <2>1. CASE UNCHANGED clockvars
    <3>1. UNCHANGED <<ticks, tlock, tat, ticks0, tn, tdead, slept, late>>
      BY <2>1, Zenon DEF clockvars
    <3> QED BY <3>1, Zenon DEF ClockInv, ClockType, HoldsLock, KillSeen, CountsTicks, SleepsLongEnough, InCall
  <2>2. CASE timer
    BY <2>2, TimerStep, Zenon
  <2>3. ASSUME NEW p \in Sleepers, NEW k \in Durations, sys_sleep(p, k) PROVE ClockInv'
    BY <2>3, SysSleepStep, Zenon
  <2>4. ASSUME NEW p \in Sleepers, sleep_loop(p) PROVE ClockInv'
    BY <2>4, LoopStep, Zenon
  <2>5. ASSUME NEW p \in Sleepers, tsleep(p) PROVE ClockInv'
    BY <2>5, TsleepStep, Zenon
  <2>6. ASSUME NEW p \in Sleepers, tkill(p) PROVE ClockInv'
    BY <2>6, TkillStep, Zenon
  <2> QED BY <2>1, <2>2, <2>3, <2>4, <2>5, <2>6, Zenon DEF ClockNext
<1>2. ClockInv => SleepsExact
  BY Zenon DEF ClockInv, KillSeen, SleepsExact, KilledWakesAtTick
<1> QED BY <1>1, <1>2, ClockInitInv, PTL DEF ClockSpec
=============================================================================
