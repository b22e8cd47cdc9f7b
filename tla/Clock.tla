------------------------------- MODULE Clock -------------------------------
(***************************************************************************)
(* The clock: trap() counts the timer interrupts of CPU 0 in ticks and     *)
(* wakes the processes in sys_sleep() (src/sysproc.c).  ticks is a uint    *)
(* that wraps.  One action is a stretch of code under tickslock; kill()    *)
(* does not take it, so a stretch ends between the test of killed and      *)
(* sleep().                                                                *)
(***************************************************************************)
EXTENDS Integers

CONSTANTS Sleepers,
          TUINT,      \* number of values of a uint
          Durations,  \* arguments of sleep()
          NoHolder    \* nobody has tickslock

ASSUME ClockAssumption == TUINT \in Nat \ {0} /\ Durations \subseteq Int /\ NoHolder \notin Sleepers

VARIABLES ticks, tlock,
          tat,           \* where each process is
          ticks0, tn,    \* of its sys_sleep()
          tdead,         \* killed
          slept,         \* ticks since its call began
          late           \* ticks have passed since it was killed

clockvars == <<ticks, tlock, tat, ticks0, tn, tdead, slept, late>>

ClockInit == /\ ticks = 0 /\ tlock = NoHolder
             /\ tat = [p \in Sleepers |-> "user"]
             /\ ticks0 = [p \in Sleepers |-> 0]
             /\ tn = [p \in Sleepers |-> 0]
             /\ slept = [p \in Sleepers |-> 0]
             /\ tdead = {} /\ late = {}

InCall(p) == tat[p] \in {"loop", "tested", "sleep", "woken"}

tu(x) == x % TUINT

\* sys_sleep(): ticks0 = ticks.
sys_sleep(p, k) ==
  /\ tat[p] \in {"user", "slept"} /\ p \notin tdead /\ tlock = NoHolder
  /\ tlock' = p
  /\ ticks0' = [ticks0 EXCEPT ![p] = ticks]
  /\ tn' = [tn EXCEPT ![p] = k]
  /\ slept' = [slept EXCEPT ![p] = 0]
  /\ tat' = [tat EXCEPT ![p] = "loop"]
  /\ UNCHANGED <<ticks, tdead, late>>

\* Mutants of elapsed: it ends with the tick before; the end is computed first.
elapsed_early(p) == tu(ticks - ticks0[p]) + 1 >= tu(tn[p])
elapsed_end(p) == ticks >= ticks0[p] + tu(tn[p])

elapsed(p) == tu(ticks - ticks0[p]) >= tu(tn[p])

\* A turn of the loop: return 0, return -1, or go on to sleep().
sleep_loop(p) ==
  /\ tat[p] = "loop" \/ (tat[p] = "woken" /\ tlock = NoHolder)
  /\ IF elapsed(p) \/ p \in tdead
     THEN /\ tat' = [tat EXCEPT ![p] = IF elapsed(p) THEN "slept" ELSE "user"]
          /\ tlock' = NoHolder
     ELSE tat' = [tat EXCEPT ![p] = "tested"] /\ tlock' = p
  /\ UNCHANGED <<ticks, ticks0, tn, tdead, slept, late>>

\* sleep(&ticks, &tickslock).
tsleep(p) ==
  /\ tat[p] = "tested"
  /\ tat' = [tat EXCEPT ![p] = "sleep"]
  /\ tlock' = NoHolder
  /\ UNCHANGED <<ticks, ticks0, tn, tdead, slept, late>>

twakeup == [p \in Sleepers |-> IF tat[p] = "sleep" THEN "woken" ELSE tat[p]]

\* The timer interrupt of CPU 0.  Bound: a process that is to run does so before
\* ticks has gone once around.
timer ==
  /\ tlock = NoHolder
  /\ \A p \in Sleepers : InCall(p) => slept[p] < TUINT - 1
  /\ ticks' = tu(ticks + 1)
  /\ tat' = twakeup
  /\ slept' = [p \in Sleepers |-> IF InCall(p) THEN slept[p] + 1 ELSE slept[p]]
  /\ late' = tdead
  /\ UNCHANGED <<tlock, ticks0, tn, tdead>>

tkill(p) ==
  /\ p \notin tdead
  /\ tdead' = tdead \cup {p}
  /\ tat' = [tat EXCEPT ![p] = IF @ = "sleep" THEN "woken" ELSE @]
  /\ UNCHANGED <<ticks, tlock, ticks0, tn, slept, late>>

ClockNext == \/ timer
             \/ \E p \in Sleepers : \/ \E k \in Durations : sys_sleep(p, k)
                                    \/ sleep_loop(p) \/ tsleep(p) \/ tkill(p)

ClockSpec == ClockInit /\ [][ClockNext]_clockvars
-----------------------------------------------------------------------------
\* sleep(n) that returns 0 has waited for n ticks, also when ticks wraps.
SleepsLongEnough == \A p \in Sleepers : tat[p] = "slept" => slept[p] >= tu(tn[p])

\* A kill that sys_sleep() misses between its test and sleep() is found at the
\* next tick: no killed process sleeps through one.
KilledWakesAtTick == \A p \in Sleepers : tat[p] = "sleep" => p \notin late

\* sys_sleep() returns 0 no earlier than asked, and a kill ends it by the next tick.
SleepsExact == SleepsLongEnough /\ KilledWakesAtTick

\* Every sleep() ends, as long as the timer ticks and processes get to run.
SleepEnds == \A p \in Sleepers : InCall(p) ~> ~InCall(p)
=============================================================================
