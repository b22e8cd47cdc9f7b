----------------------------- MODULE BlockStore -----------------------------
(***************************************************************************)
(* What the buffer cache promises its callers: a store of blocks, each     *)
(* with a lock.  A process that has a block sees what was stored last.     *)
(***************************************************************************)
CONSTANTS Procs, Blocks, Vals, None

VARIABLES store,  \* what the next holder of each block will find
          owner   \* the process that has each block, or None

Init == store \in [Blocks -> Vals] /\ owner = [k \in Blocks |-> None]

\* bread() returns.
Get(p, k) == owner[k] = None /\ owner' = [owner EXCEPT ![k] = p] /\ UNCHANGED store

\* The holder changes the block, by bwrite() or log_write().
Put(p, k, v) == owner[k] = p /\ store' = [store EXCEPT ![k] = v] /\ UNCHANGED owner

\* brelse().
Release(p, k) == owner[k] = p /\ owner' = [owner EXCEPT ![k] = None] /\ UNCHANGED store

Next == \E p \in Procs, k \in Blocks : \/ Get(p, k) \/ Release(p, k)
                                       \/ \E v \in Vals : Put(p, k, v)

Spec == Init /\ [][Next]_<<store, owner>>
=============================================================================
