-------------------------------- MODULE Log --------------------------------
(***************************************************************************)
(* The write-ahead log of xv6 (src/log.c) over the buffer cache and the    *)
(* disk.  A file system call runs between begin_op and end_op; the blocks  *)
(* it changes stay in the cache, pinned by B_DIRTY, until the last call in *)
(* progress ends.  That call's process copies them to the log (write_log), *)
(* writes the header (write_head, the commit point), copies them to their  *)
(* home locations (install_trans) and erases the header.  A crash may      *)
(* happen between any two disk writes; initlog then replays the log.       *)
(*                                                                         *)
(* One action is one critical section of log.lock, or one disk write.      *)
(* Blocks of the log area are always written through (bwrite), so their    *)
(* cached copies equal the disk and are left out.                          *)
(***************************************************************************)
EXTENDS Integers, Sequences, FiniteSets

CONSTANTS Procs,        \* processes that run file system calls
          Blocks,       \* home block numbers
          Vals,         \* contents of a block
          NoBuf,        \* the cache holds no copy of a block
          MAXOPBLOCKS,  \* blocks begin_op reserves for a call (param.h)
          LOGSIZE,      \* length of the header's block array (param.h)
          nlog,         \* sb.nlog: blocks of the log area, header included
          OpBlocks      \* bound: distinct blocks one call really writes

ASSUME ProcsAssumption == IsFiniteSet(Procs)
ASSUME NoBufAssumption == NoBuf \notin Vals
ASSUME SizesAssumption ==
  /\ MAXOPBLOCKS \in Nat /\ LOGSIZE \in Nat /\ nlog \in Nat /\ OpBlocks \in Nat
  /\ 0 < MAXOPBLOCKS /\ MAXOPBLOCKS <= LOGSIZE
  /\ OpBlocks <= MAXOPBLOCKS

VARIABLES home,         \* disk: the home location of every block
          logd,         \* disk: the data blocks of the log area
          head,         \* disk: the header block, as the blocks it lists
          cache,        \* buffer cache: contents of a block, or NoBuf
          dirty,        \* blocks whose buffer has B_DIRTY set
          lh,           \* log.lh: blocks of the transaction in memory
          outstanding,  \* log.outstanding
          committing,   \* log.committing
          pc,           \* where each process is
          bp,           \* the block whose buffer a process has locked, or NoBuf
          wrote,        \* blocks the call in progress has changed so far
          tail,         \* each process's loop variable of write_log and install_trans
          panicked      \* the kernel called panic()

disk == <<home, logd, head>>
bcache == <<cache, dirty>>
local == <<bp, wrote>>
vars == <<disk, bcache, lh, outstanding, committing, pc, local, tail, panicked>>

InOp == {"op", "log_write", "record"}
Committing == {"write_log", "write_head", "install_trans", "end_commit"}
PcValues == {"off", "idle", "begin_op", "sleep", "read_head"} \cup InOp \cup Committing

Init == /\ home \in [Blocks -> Vals]
        /\ \E v \in Vals : logd = [i \in 1..LOGSIZE |-> v]
        /\ head = <<>>
        /\ cache = [b \in Blocks |-> NoBuf]
        /\ dirty = {}
        /\ lh = <<>>
        /\ outstanding = 0
        /\ committing = FALSE
        /\ pc = [p \in Procs |-> "idle"]
        /\ bp = [p \in Procs |-> NoBuf]
        /\ wrote = [p \in Procs |-> {}]
        /\ tail = [p \in Procs |-> 0]
        /\ panicked = FALSE
-----------------------------------------------------------------------------
\* Process p is at one of the points S; after panic() nothing runs.
At(p, S) == ~panicked /\ pc[p] \in S

Listed(h) == {h[i] : i \in 1..Len(h)}

\* bread(): the cached copy, or a fresh one from the disk.
Data(b) == IF cache[b] = NoBuf THEN home[b] ELSE cache[b]

\* The sleep lock of b's buffer is held by a process about to log_write it.
Locked(b) == \E p \in Procs : pc[p] \in {"log_write", "record"} /\ bp[p] = b

\* Mutant of wakeup: end_op() forgets it.
wakeup_forgotten(at) == at

\* wakeup(&log): every sleeper returns from sleep() and retries.
wakeup(at) == [p \in Procs |-> IF at[p] = "sleep" THEN "begin_op" ELSE at[p]]

Reserved == Len(lh) + (outstanding + 1) * MAXOPBLOCKS

\* Mutant of CanBegin: the space of the new call itself is not counted.
CanBegin_offByOne == ~committing /\ Len(lh) + outstanding * MAXOPBLOCKS <= LOGSIZE

\* begin_op(): one pass of its loop, then either the reservation or sleep().
CanBegin == ~committing /\ Reserved <= LOGSIZE

begin_op(p) ==
  /\ At(p, {"idle", "begin_op"})
  /\ IF CanBegin
       THEN outstanding' = outstanding + 1 /\ pc' = [pc EXCEPT ![p] = "op"]
       ELSE outstanding' = outstanding /\ pc' = [pc EXCEPT ![p] = "sleep"]
  /\ UNCHANGED <<disk, bcache, lh, committing, local, tail, panicked>>

\* "bp = bread(...); modify bp->data[]" of a call in progress, the way the
\* comment above log_write() and every caller in fs.c do it.
modify(p, b, v) ==
  /\ At(p, {"op"})
  /\ ~Locked(b)
  /\ Cardinality(wrote[p] \cup {b}) <= OpBlocks
  /\ cache' = [cache EXCEPT ![b] = v]
  /\ bp' = [bp EXCEPT ![p] = b]
  /\ pc' = [pc EXCEPT ![p] = "log_write"]
  /\ UNCHANGED <<disk, dirty, lh, outstanding, committing, wrote, tail, panicked>>

\* log_write(), the two checks made before log.lock is taken.
TooBig == Len(lh) >= LOGSIZE \/ Len(lh) >= nlog - 1

log_write(p) ==
  /\ At(p, {"log_write"})
  /\ panicked' = (TooBig \/ outstanding < 1)
  /\ pc' = [pc EXCEPT ![p] = "record"]
  /\ UNCHANGED <<disk, bcache, lh, outstanding, committing, local, tail>>

\* Mutant of pinned: log_write() does not set B_DIRTY.
pinned_not(b) == dirty

\* log_write(), the critical section, and the caller's brelse().
pinned(b) == dirty \cup {b}
absorb(b) == IF b \in Listed(lh) THEN lh ELSE Append(lh, b)

record(p) ==
  /\ At(p, {"record"})
  /\ lh' = absorb(bp[p])
  /\ dirty' = pinned(bp[p])
  /\ wrote' = [wrote EXCEPT ![p] = @ \cup {bp[p]}]
  /\ bp' = [bp EXCEPT ![p] = NoBuf]
  /\ pc' = [pc EXCEPT ![p] = "op"]
  /\ UNCHANGED <<disk, cache, outstanding, committing, tail, panicked>>

\* end_op() up to its first release(), and the test of commit().
end_op(p) ==
  /\ At(p, {"op"})
  /\ panicked' = committing
  /\ outstanding' = outstanding - 1
  /\ wrote' = [wrote EXCEPT ![p] = {}]
  /\ IF outstanding' = 0
       THEN /\ committing' = TRUE
            /\ pc' = [pc EXCEPT ![p] = IF lh = <<>> THEN "end_commit" ELSE "write_log"]
       ELSE /\ committing' = committing
            /\ pc' = wakeup([pc EXCEPT ![p] = "idle"])
  /\ UNCHANGED <<disk, bcache, lh, bp, tail>>

\* write_log(), one turn of its loop: bread(from), copy, bwrite(to).
write_log(p) ==
  LET i == tail[p] + 1 IN
  /\ At(p, {"write_log"})
  /\ logd' = [logd EXCEPT ![i] = Data(lh[i])]
  /\ cache' = [cache EXCEPT ![lh[i]] = Data(lh[i])]
  /\ IF i = Len(lh)
       THEN pc' = [pc EXCEPT ![p] = "write_head"] /\ tail' = [tail EXCEPT ![p] = 0]
       ELSE pc' = pc /\ tail' = [tail EXCEPT ![p] = i]
  /\ UNCHANGED <<home, head, dirty, lh, outstanding, committing, local, panicked>>

\* write_head() with the transaction in memory: the commit point.
write_head(p) ==
  /\ At(p, {"write_head"})
  /\ head' = lh
  /\ pc' = [pc EXCEPT ![p] = "install_trans"]
  /\ UNCHANGED <<home, logd, bcache, lh, outstanding, committing, local, tail, panicked>>

\* install_trans(), one turn of its loop: bwrite(dbuf) also clears B_DIRTY.
install_trans(p) ==
  LET i == tail[p] + 1 IN
  /\ At(p, {"install_trans"})
  /\ i <= Len(lh)
  /\ home' = [home EXCEPT ![lh[i]] = logd[i]]
  /\ cache' = [cache EXCEPT ![lh[i]] = logd[i]]
  /\ dirty' = dirty \ {lh[i]}
  /\ tail' = [tail EXCEPT ![p] = i]
  /\ UNCHANGED <<logd, head, lh, outstanding, committing, pc, local, panicked>>

\* Mutant of clear: install_trans() stops one block early.
clear_early(p) ==
  /\ At(p, {"install_trans"})
  /\ tail[p] + 1 >= Len(lh)
  /\ lh' = <<>> /\ head' = <<>>
  /\ tail' = [tail EXCEPT ![p] = 0]
  /\ pc' = IF committing THEN [pc EXCEPT ![p] = "end_commit"]
                         ELSE [q \in Procs |-> "idle"]
  /\ UNCHANGED <<home, logd, bcache, outstanding, committing, local, panicked>>

\* The end of commit() and of recover_from_log(): log.lh.n = 0; write_head().
\* After recovery initlog() returns and the system starts its processes.
clear(p) ==
  /\ At(p, {"install_trans"})
  /\ tail[p] = Len(lh)
  /\ lh' = <<>>
  /\ head' = <<>>
  /\ tail' = [tail EXCEPT ![p] = 0]
  /\ pc' = IF committing THEN [pc EXCEPT ![p] = "end_commit"]
                         ELSE [q \in Procs |-> "idle"]
  /\ UNCHANGED <<home, logd, bcache, outstanding, committing, local, panicked>>

\* Mutant of end_commit: no wakeup(&log) after the commit.
end_commit_silent(p) ==
  /\ At(p, {"end_commit"})
  /\ committing' = FALSE
  /\ pc' = [pc EXCEPT ![p] = "idle"]
  /\ UNCHANGED <<disk, bcache, lh, outstanding, local, tail, panicked>>

\* end_op(), its second critical section.
end_commit(p) ==
  /\ At(p, {"end_commit"})
  /\ committing' = FALSE
  /\ pc' = wakeup([pc EXCEPT ![p] = "idle"])
  /\ UNCHANGED <<disk, bcache, lh, outstanding, local, tail, panicked>>

\* Readers outside any call (fileread, ilock, exec) fill the cache, and bget
\* recycles a buffer nobody uses unless it is dirty.
Recovering == \E p \in Procs : \/ pc[p] = "read_head"
                               \/ pc[p] = "install_trans" /\ ~committing

Recyclable(b) == ~Locked(b) /\ b \notin dirty

bread(b) ==
  /\ ~panicked /\ ~Recovering
  /\ cache[b] = NoBuf
  /\ cache' = [cache EXCEPT ![b] = home[b]]
  /\ UNCHANGED <<disk, dirty, lh, outstanding, committing, pc, local, tail, panicked>>

bget_recycle(b) ==
  /\ ~panicked
  /\ cache[b] # NoBuf
  /\ Recyclable(b)
  /\ cache' = [cache EXCEPT ![b] = NoBuf]
  /\ UNCHANGED <<disk, dirty, lh, outstanding, committing, pc, local, tail, panicked>>

\* Power loss, or a reboot after panic(): only the disk survives.  The first
\* process p to run forkret() after it calls initlog(); no other exists yet.
crash(p) ==
  /\ cache' = [b \in Blocks |-> NoBuf]
  /\ dirty' = {}
  /\ lh' = <<>>
  /\ outstanding' = 0
  /\ committing' = FALSE
  /\ pc' = [q \in Procs |-> IF q = p THEN "read_head" ELSE "off"]
  /\ bp' = [q \in Procs |-> NoBuf]
  /\ wrote' = [q \in Procs |-> {}]
  /\ tail' = [q \in Procs |-> 0]
  /\ panicked' = FALSE
  /\ UNCHANGED disk

\* recover_from_log(): read_head(), then install_trans() and clear above.
read_head(p) ==
  /\ At(p, {"read_head"})
  /\ lh' = head
  /\ pc' = [pc EXCEPT ![p] = "install_trans"]
  /\ UNCHANGED <<disk, bcache, outstanding, committing, local, tail, panicked>>

\* Steps a process takes once it is inside the logging code.
commit(p) == \/ write_log(p) \/ write_head(p)
             \/ install_trans(p) \/ clear(p) \/ end_commit(p)

Next == \/ \E p \in Procs : \/ begin_op(p) \/ log_write(p) \/ record(p) \/ end_op(p)
                           \/ commit(p) \/ read_head(p) \/ crash(p)
        \/ \E p \in Procs, b \in Blocks, v \in Vals : modify(p, b, v)
        \/ \E b \in Blocks : bread(b) \/ bget_recycle(b)

Spec == Init /\ [][Next]_vars
-----------------------------------------------------------------------------
TypeOK ==
  /\ home \in [Blocks -> Vals]
  /\ logd \in [1..LOGSIZE -> Vals]
  /\ head \in Seq(Blocks)
  /\ cache \in [Blocks -> Vals \cup {NoBuf}]
  /\ dirty \in SUBSET Blocks
  /\ lh \in Seq(Blocks)
  /\ outstanding \in Nat
  /\ committing \in BOOLEAN
  /\ pc \in [Procs -> PcValues]
  /\ bp \in [Procs -> Blocks \cup {NoBuf}]
  /\ wrote \in [Procs -> SUBSET Blocks]
  /\ tail \in [Procs -> Nat]
  /\ panicked \in BOOLEAN

Active == {p \in Procs : pc[p] \in InOp}

\* The blocks after replaying header hd and log blocks l over the blocks h.
Replay(h, l, hd) ==
  [b \in Blocks |-> IF b \in Listed(hd) THEN l[CHOOSE i \in 1..Len(hd) : hd[i] = b]
                                        ELSE h[b]]

\* The disk as recover_from_log() would leave it if the machine stopped now.
Durable == Replay(home, logd, head)

\* The blocks as the file system code above the log reads them.
Current == IF Recovering THEN Durable ELSE [b \in Blocks |-> Data(b)]

Atomic == INSTANCE AtomicDisk WITH cur <- Current, dur <- Durable, active <- Active

\* The log implements an atomic disk: every crash, in the middle of a commit
\* or of a recovery too, keeps whole groups of calls or nothing of them.
Atomicity == Atomic!Spec

\* log_write() and end_op() never panic: the space begin_op() reserved is
\* enough although log_write() looks at log.lh.n without log.lock.
NoPanic == ~panicked

\* When no call is in progress and no commit is running, every block the
\* cache shows is already on the disk: end_op() leaves nothing behind.
QuietIsDurable ==
  (outstanding = 0 /\ ~committing /\ ~Recovering) => Durable = Current

\* A process sleeping in begin_op() has a reason to wait and somebody who
\* will wake it: a commit under way, or another call that has yet to end.
NoLostWakeup ==
  \A p \in Procs : pc[p] = "sleep" =>
    /\ ~CanBegin
    /\ \E q \in Procs : pc[q] \in InOp \cup Committing

\* Every process sleeping in begin_op() is woken.
SleepersWake == \A p \in Procs : pc[p] = "sleep" ~> pc[p] # "sleep"

=============================================================================
