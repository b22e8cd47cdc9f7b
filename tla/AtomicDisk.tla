---------------------------- MODULE AtomicDisk ----------------------------
(***************************************************************************)
(* What the logging layer (src/log.c) promises to the file system above    *)
(* it: a disk whose blocks are updated inside operations, and on which a   *)
(* crash keeps every committed group of operations whole and nothing of    *)
(* the others.                                                             *)
(***************************************************************************)
CONSTANTS Procs,   \* processes that run file system calls
          Blocks,  \* block numbers of the file system
          Vals     \* contents a block may have

VARIABLES cur,     \* [Blocks -> Vals]: what a reader of the buffer cache sees
          dur,     \* [Blocks -> Vals]: what a crash now would leave
          active   \* processes between begin_op() and end_op()

vars == <<cur, dur, active>>

Init == /\ cur \in [Blocks -> Vals]
        /\ dur = cur
        /\ active = {}

Begin(p) == /\ p \notin active
            /\ active' = active \cup {p}
            /\ UNCHANGED <<cur, dur>>

Write(p, b, v) == /\ p \in active
                  /\ cur' = [cur EXCEPT ![b] = v]
                  /\ UNCHANGED <<dur, active>>

End(p) == /\ p \in active
          /\ active' = active \ {p}
          /\ UNCHANGED <<cur, dur>>

\* The blocks change on the disk together, and only between operations, so
\* no operation is ever half on the disk.
Commit == /\ active = {}
          /\ dur' = cur
          /\ UNCHANGED <<cur, active>>

Crash == /\ cur' = dur
         /\ active' = {}
         /\ UNCHANGED dur

Next == \/ \E p \in Procs : Begin(p) \/ End(p)
        \/ \E p \in Procs, b \in Blocks, v \in Vals : Write(p, b, v)
        \/ Commit
        \/ Crash

Spec == Init /\ [][Next]_vars
=============================================================================
