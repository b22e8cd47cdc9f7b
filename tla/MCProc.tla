------------------------------- MODULE MCProc -------------------------------
(***************************************************************************)
(* Model-checking instances of Proc.  CPUs are interchangeable.            *)
(***************************************************************************)
EXTENDS Proc, TLC

Symmetry == Permutations(Cpus)

\* The timer interrupts every process again and again; and, as init.c loops,
\* between its fork()s initproc calls wait() for ever.
Fairness == /\ \A c \in Cpus : WF_vars(scheduler(c)) /\ SF_vars(wait_start(c, initproc))
            /\ \A c \in Cpus, i \in Slots :
                 SF_vars(Progress(c, i)) /\ WF_vars(Switch(c, i)) /\ SF_vars(yield(c, i))

FairSpec == Spec /\ Fairness
=============================================================================
