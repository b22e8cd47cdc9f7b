---------------------------- MODULE LogTheorems ----------------------------
(***************************************************************************)
(* What follows from LogInv for every number of processes, blocks and      *)
(* values: the safety properties of Log, and that log.c implements the     *)
(* atomic disk of AtomicDisk.  There write_head is the commit, a crash     *)
(* takes readers back to it, and the other steps of commit and recovery do *)
(* not show.                                                               *)
(***************************************************************************)
EXTENDS LogProofs

USE SizesAssumption, NoBufAssumption DEF disk, bcache, local, At

\* Replaying a header without duplicates writes log block i to the i-th listed
\* block and leaves the others alone (install_trans).
LEMMA ReplayFacts ==
  ASSUME NEW h, NEW l, NEW hd \in Seq(Blocks), Injective(hd)
  PROVE  /\ \A i \in 1..Len(hd) : Replay(h, l, hd)[hd[i]] = l[i]
         /\ \A b \in Blocks : b \notin Listed(hd) => Replay(h, l, hd)[b] = h[b]
<1>1. ASSUME NEW i \in 1..Len(hd) PROVE Replay(h, l, hd)[hd[i]] = l[i]
  <2>1. hd[i] \in Blocks /\ hd[i] \in Listed(hd)
    BY DEF Listed
  <2>2. (CHOOSE j \in 1..Len(hd) : hd[j] = hd[i]) = i
    BY Zenon DEF Injective
  <2> QED BY <2>1, <2>2, Zenon DEF Replay
<1>2. ASSUME NEW b \in Blocks, b \notin Listed(hd) PROVE Replay(h, l, hd)[b] = h[b]
  BY <1>2, Zenon DEF Replay
<1> QED BY <1>1, <1>2, Zenon

\* Replaying an empty header changes nothing.
LEMMA ReplayNothing ==
  ASSUME NEW h \in [Blocks -> Vals], NEW l
  PROVE  Replay(h, l, <<>>) = h
BY DEF Replay, Listed

\* Blocks that agree with the log where the header lists them, and with the
\* disk elsewhere, are the result of the replay.
LEMMA ReplayEqual ==
  ASSUME NEW h, NEW l, NEW hd \in Seq(Blocks), Injective(hd),
         NEW f, f = [b \in Blocks |-> f[b]],
         \A i \in 1..Len(hd) : f[hd[i]] = l[i],
         \A b \in Blocks : b \notin Listed(hd) => f[b] = h[b]
  PROVE  Replay(h, l, hd) = f
<1>1. ASSUME NEW b \in Blocks PROVE Replay(h, l, hd)[b] = f[b]
  <2>1. CASE b \in Listed(hd)
    <3>1. PICK i \in 1..Len(hd) : hd[i] = b
      BY <2>1, Zenon DEF Listed
    <3> QED BY <3>1, ReplayFacts
  <2> QED BY <2>1, ReplayFacts
<1>2. Replay(h, l, hd) = [b \in Blocks |-> Replay(h, l, hd)[b]]
  BY DEF Replay
<1> HIDE DEF Replay
<1> QED BY <1>1, <1>2, Zenon

\* The invariant implies QuietIsDurable.
LEMMA QuietFollows == LogInv => QuietIsDurable
<1> SUFFICES ASSUME LogInv, outstanding = 0, ~committing, ~Recovering
             PROVE  Durable = Current
  BY Zenon DEF QuietIsDurable
<1>1. \A p \in Procs : pc[p] \notin {"install_trans", "read_head"}
  BY Zenon DEF Recovering
<1>2. Active = {}
  BY FS_EmptySet, Zenon DEF LogInv, CountInv
<1>3. head = <<>> /\ lh = <<>>
  BY <1>1, Zenon DEF LogInv, HeadInv, EmptyInv
<1>4. \A b \in Blocks : b \notin dirty
  BY <1>1, <1>3 DEF LogInv, DirtyInv, ListedAfter
<1>5. \A b \in Blocks : ~Locked(b)
  BY <1>2, Zenon DEF Active, InOp, Locked
<1>6. \A b \in Blocks : Data(b) = home[b]
  BY <1>4, <1>5, Zenon DEF LogInv, CleanInv, Data
<1>7. Durable = home /\ home = [b \in Blocks |-> home[b]]
  <2>1. home \in [Blocks -> Vals]
    BY Zenon DEF LogInv, TypeOK
  <2> QED BY <1>3, <2>1, ReplayNothing, Zenon DEF Durable
<1> QED BY <1>6, <1>7, Zenon DEF Current

\* A call in progress still owns MAXOPBLOCKS less the blocks it has written:
\* the transaction leaves it that much room.
LEMMA RoomForCall ==
  ASSUME LogInv, NEW p \in Procs, pc[p] \in InOp
  PROVE  Len(lh) <= LOGSIZE - (MAXOPBLOCKS - Cardinality(wrote[p]))
<1> DEFINE k == Cardinality(wrote[p])
           T == {p} \X ((k + 1)..MAXOPBLOCKS)
<1>1. k \in Nat /\ k <= OpBlocks
  BY FS_CardinalityType, Zenon DEF LogInv, SpaceInv
<1>2. T \subseteq Tokens
  BY <1>1 DEF Tokens, TokensOf
<1>3. IsFiniteSet(Tokens) /\ Cardinality(Tokens) \in Nat
  BY TokensFinite, Zenon DEF Tokens
<1>4. Cardinality(T) <= Cardinality(Tokens)
  BY <1>2, <1>3, FS_Subset, Zenon
<1> HIDE DEF k
<1>5. Cardinality(T) = MAXOPBLOCKS - k
  <2>1. IsFiniteSet({p}) /\ Cardinality({p}) = 1
    BY FS_Singleton, Zenon
  <2>2. IsFiniteSet((k + 1)..MAXOPBLOCKS)
        /\ Cardinality((k + 1)..MAXOPBLOCKS) = MAXOPBLOCKS - k
    BY <1>1, FS_Interval
  <2>3. Cardinality(T) = Cardinality({p}) * Cardinality((k + 1)..MAXOPBLOCKS)
    BY <2>1, <2>2, FS_Product, Zenon
  <2> QED BY <1>1, <2>1, <2>2, <2>3
<1>6. Len(lh) + Cardinality(Tokens) <= LOGSIZE /\ Len(lh) \in Nat
  BY DEF LogInv, SpaceInv, TypeOK
<1> HIDE DEF T
<1>7. Len(lh) <= LOGSIZE - (MAXOPBLOCKS - k)
  BY <1>1, <1>3, <1>4, <1>5, <1>6
<1> QED BY <1>7, Zenon DEF k

\* Under the room condition of RoomSuffices no step calls panic().
LEMMA NoPanicStep ==
  ASSUME OpBlocks < MAXOPBLOCKS, LOGSIZE + OpBlocks + 1 < nlog + MAXOPBLOCKS,
         LogInv, NoPanic, [Next]_vars
  PROVE  NoPanic'
<1> USE DEF NoPanic
<1>1. ASSUME NEW p \in Procs, log_write(p) PROVE ~panicked'
  <2>1. pc[p] \in InOp /\ panicked' = (TooBig \/ outstanding < 1)
    BY <1>1, Zenon DEF log_write, InOp
  <2>2. Len(lh) <= LOGSIZE - (MAXOPBLOCKS - Cardinality(wrote[p]))
    BY <2>1, RoomForCall, Zenon
  <2>3. Cardinality(wrote[p]) \in Nat /\ Cardinality(wrote[p]) <= OpBlocks /\ Len(lh) \in Nat
    <3>1. IsFiniteSet(wrote[p]) /\ Cardinality(wrote[p]) <= OpBlocks
      BY Zenon DEF LogInv, SpaceInv
    <3>2. Cardinality(wrote[p]) \in Nat
      BY <3>1, FS_CardinalityType, Zenon
    <3>3. Len(lh) \in Nat
      BY DEF LogInv, TypeOK
    <3> QED BY <3>1, <3>2, <3>3, Zenon
  <2>4. ~TooBig
    BY <2>2, <2>3 DEF TooBig
  <2>5. p \in Active /\ IsFiniteSet(Active) /\ outstanding = Cardinality(Active)
    BY <2>1, Zenon DEF Active, LogInv, CountInv
  <2>6. Cardinality(Active) \in Nat /\ Cardinality(Active) # 0
    BY <2>5, FS_EmptySet, FS_CardinalityType, Zenon
  <2>7. ~(outstanding < 1)
    BY <2>5, <2>6
  <2> QED BY <2>1, <2>4, <2>7, Zenon
<1>2. ASSUME NEW p \in Procs, end_op(p) PROVE ~panicked'
  BY <1>2, Zenon DEF end_op, LogInv, ModeInv, Active, InOp
<1>3. ASSUME NEW p \in Procs, begin_op(p) \/ record(p) \/ read_head(p) \/ crash(p) \/ commit(p)
      PROVE  ~panicked'
  BY <1>3, Zenon DEF begin_op, record, read_head, crash, commit, write_log, write_head,
             install_trans, clear, end_commit
<1>4. ASSUME NEW p \in Procs, NEW b \in Blocks, NEW v \in Vals, modify(p, b, v)
      PROVE  ~panicked'
  BY <1>4, Zenon DEF modify
<1>5. ASSUME NEW b \in Blocks, bread(b) \/ bget_recycle(b) PROVE ~panicked'
  BY <1>5, Zenon DEF bread, bget_recycle
<1>6. CASE UNCHANGED vars
  BY <1>6, Zenon DEF vars
<1> QED BY <1>1, <1>2, <1>3, <1>4, <1>5, <1>6, Zenon DEF Next

\* Every variable of the log keeps its type; in particular log.outstanding
\* never becomes negative.
THEOREM TypesHold == Spec => []TypeOK
BY LogInvariant, PTL DEF LogInv

\* No wakeup on &log is lost: a process asleep in begin_op() still cannot
\* begin, and some process will call wakeup(&log).
THEOREM SleepersHaveAWaker == Spec => []NoLostWakeup
BY LogInvariant, PTL DEF LogInv

\* Between calls everything the cache shows is on the disk: end_op() and
\* commit() leave nothing behind.
THEOREM QuietDisk == Spec => []QuietIsDurable
BY LogInvariant, QuietFollows, PTL

\* log_write() and end_op() never panic, provided every call leaves enough of
\* its reservation unused: one block for the test of LOGSIZE, and one more for
\* the header block when sb.nlog equals LOGSIZE (as mkfs makes it).
THEOREM RoomSuffices ==
  ASSUME OpBlocks < MAXOPBLOCKS, LOGSIZE + OpBlocks + 1 < nlog + MAXOPBLOCKS
  PROVE  Spec => []NoPanic
<1>1. Init => NoPanic
  BY Zenon DEF Init, NoPanic
<1>2. LogInv /\ NoPanic /\ [Next]_vars => NoPanic'
  BY NoPanicStep, Zenon
<1> QED BY <1>1, <1>2, LogInvariant, PTL DEF Spec

-----------------------------------------------------------------------------
\* Init implements the initial states of the atomic disk.
LEMMA AtomicInit == Init => Atomic!Init
<1> SUFFICES ASSUME Init PROVE Atomic!Init
  BY Zenon
<1>1. LogInv
  BY Inv_Init, Zenon
<1>2. Durable = Current
  BY <1>1, QuietFollows, Zenon DEF QuietIsDurable, Init, Recovering
<1>3. Durable \in [Blocks -> Vals]
  BY ReplayNothing, Zenon DEF Init, Durable
<1>4. Active = {}
  BY Zenon DEF Init, Active, InOp
<1> QED BY <1>2, <1>3, <1>4, Zenon DEF Atomic!Init

\* A step that changes neither the disk nor what readers see is invisible.
LEMMA CurrentStable ==
  ASSUME Recovering' <=> Recovering, UNCHANGED disk,
         \A b \in Blocks : Data(b)' = Data(b)
  PROVE  Current' = Current /\ Durable' = Durable
<1>1. Durable' = Durable
  BY Zenon DEF Durable
<1> QED BY <1>1, Zenon DEF Current

\* begin_op() begins an atomic operation, or sleeps.
LEMMA Ref_begin_op ==
  ASSUME LogInv, NEW p \in Procs, begin_op(p)
  PROVE  UNCHANGED Atomic!vars \/ Atomic!Begin(p)
<1>1. Recovering' <=> Recovering
  BY Zenon DEF begin_op, Recovering, LogInv, TypeOK
<1>2. Current' = Current /\ Durable' = Durable
  BY <1>1, CurrentStable, Zenon DEF begin_op, Data
<1>3. p \notin Active
  BY Zenon DEF begin_op, Active, InOp
<1>4. CASE CanBegin
  <2>1. Active' = Active \cup {p}
    BY <1>4, Zenon DEF begin_op, Active, InOp, LogInv, TypeOK
  <2> QED BY <1>2, <1>3, <2>1, Zenon DEF Atomic!Begin
<1>5. CASE ~CanBegin
  <2>1. Active' = Active
    BY <1>5, Zenon DEF begin_op, Active, InOp, LogInv, TypeOK
  <2> QED BY <1>2, <2>1, Zenon DEF Atomic!vars
<1> QED BY <1>4, <1>5, Zenon

\* Changing a buffer is a write of the atomic operation.
LEMMA Ref_modify ==
  ASSUME LogInv, NEW p \in Procs, NEW b \in Blocks, NEW v \in Vals, modify(p, b, v)
  PROVE  Atomic!Write(p, b, v)
<1>1. ~Recovering /\ ~Recovering'
  BY Zenon DEF modify, Recovering, LogInv, TypeOK, ModeInv, Boot
<1>2. Durable' = Durable
  BY Zenon DEF modify, Durable
<1>3. p \in Active /\ Active' = Active
  BY Zenon DEF modify, Active, InOp, LogInv, TypeOK
<1>4. cache' = [cache EXCEPT ![b] = v] /\ home' = home
  BY Zenon DEF modify
<1>5. Data(b)' = v /\ \A c \in Blocks : c # b => Data(c)' = Data(c)
  BY <1>4, Zenon DEF Data, LogInv, TypeOK
<1>6. Current' = [Current EXCEPT ![b] = v]
  BY <1>1, <1>5, Zenon DEF Current
<1> QED BY <1>2, <1>3, <1>6, Zenon DEF Atomic!Write

\* log_write() only does bookkeeping.
LEMMA Ref_inside ==
  ASSUME LogInv, NEW p \in Procs, log_write(p) \/ record(p)
  PROVE  UNCHANGED Atomic!vars
<1>1. Recovering' <=> Recovering
  BY DEF log_write, record, Recovering, LogInv, TypeOK
<1>2. Current' = Current /\ Durable' = Durable
  BY <1>1, CurrentStable, Zenon DEF log_write, record, Data
<1>3. Active' = Active
  BY Zenon DEF log_write, record, Active, InOp, LogInv, TypeOK
<1> QED BY <1>2, <1>3, Zenon DEF Atomic!vars

\* end_op() ends the atomic operation.
LEMMA Ref_end_op ==
  ASSUME LogInv, NEW p \in Procs, end_op(p)
  PROVE  Atomic!End(p)
<1>0. p \in Active
  BY Zenon DEF end_op, Active, InOp
<1>1. ~Recovering /\ ~Recovering'
  BY ZenonT(30) DEF end_op, Recovering, LogInv, TypeOK, ModeInv, Boot, wakeup
<1>2. Current' = Current /\ Durable' = Durable
  BY <1>1, CurrentStable, Zenon DEF end_op, Data
<1>3. Active' = Active \ {p}
  BY Zenon DEF end_op, Active, InOp, LogInv, TypeOK, wakeup
<1> QED BY <1>0, <1>2, <1>3, Zenon DEF Atomic!End

\* Filling the log area is invisible: the header on the disk is empty.
LEMMA Ref_write_log ==
  ASSUME LogInv, NEW p \in Procs, write_log(p)
  PROVE  UNCHANGED Atomic!vars
<1>1. /\ pc[p] = "write_log" /\ home' = home /\ head' = head /\ committing' = committing
      /\ pc' \in {pc, [pc EXCEPT ![p] = "write_head"]}
      /\ cache' = [cache EXCEPT ![lh[tail[p] + 1]] = Data(lh[tail[p] + 1])]
  BY Zenon DEF write_log
<1>2. \A q \in Procs : q # p => pc[q] \notin {"install_trans", "read_head"}
  BY <1>1, Zenon DEF LogInv, ModeInv, Boot, Committing
<1>3. ~Recovering /\ ~Recovering' /\ Active' = Active /\ head = <<>>
  BY <1>1, <1>2, Zenon DEF LogInv, TypeOK, Recovering, HeadInv, Active, InOp
<1>4. \A b \in Blocks : Data(b)' = Data(b)
  BY <1>1, Zenon DEF Data, LogInv, TypeOK
<1>5. Durable' = Durable
  <2>1. home \in [Blocks -> Vals]
    BY Zenon DEF LogInv, TypeOK
  <2> QED BY <1>1, <1>3, <2>1, ReplayNothing, Zenon DEF Durable
<1>6. Current' = Current
  BY <1>3, <1>4, Zenon DEF Current
<1> QED BY <1>3, <1>5, <1>6, Zenon DEF Atomic!vars

\* Writing the header is the commit: a crash now keeps all that readers see.
LEMMA Ref_write_head ==
  ASSUME LogInv, NEW p \in Procs, write_head(p)
  PROVE  Atomic!Commit
<1>1. /\ pc[p] = "write_head" /\ head' = lh /\ pc' = [pc EXCEPT ![p] = "install_trans"]
      /\ UNCHANGED <<home, logd, cache, committing>>
  BY Zenon DEF write_head
<1>2. /\ committing /\ Active = {}
      /\ \A q \in Procs : pc[q] \notin {"install_trans", "read_head"}
  BY <1>1, Zenon DEF LogInv, ModeInv, Boot, Committing
<1>3. ~Recovering /\ ~Recovering' /\ Active' = Active
  BY <1>1, <1>2, Zenon DEF LogInv, TypeOK, Recovering, Active, InOp
<1>4. Current' = Current
  BY <1>1, <1>3, Zenon DEF Current, Data
<1> DEFINE f == [b \in Blocks |-> Data(b)]
<1>5. \A i \in 1..Len(lh) : f[lh[i]] = logd[i]
  <2>1. \A i \in 1..Len(lh) : lh[i] \in Blocks /\ logd[i] = cache[lh[i]]
    BY <1>1 DEF LogInv, TypeOK, LogdInv
  <2>2. \A i \in 1..Len(lh) : lh[i] \in dirty
    BY <1>2, <2>1 DEF LogInv, DirtyInv, ListedAfter
  <2> QED BY <2>1, <2>2, Zenon DEF Data, LogInv, DirtyInv
<1>6. ASSUME NEW b \in Blocks, b \notin Listed(lh) PROVE f[b] = home[b]
  <2>1. b \notin dirty
    BY <1>2, <1>6, Zenon DEF LogInv, DirtyInv, ListedAfter, Listed
  <2>2. ~Locked(b)
    BY <1>2, Zenon DEF Locked, Active, InOp
  <2> QED BY <2>1, <2>2, Zenon DEF LogInv, CleanInv, Data
<1>7. lh \in Seq(Blocks) /\ Injective(lh) /\ f = [b \in Blocks |-> f[b]]
  BY Zenon DEF LogInv, TypeOK, HeadInv
<1>8. Replay(home, logd, lh) = f
  <2> HIDE DEF f
  <2> QED BY <1>5, <1>6, <1>7, ReplayEqual
<1>9. Durable' = Current
  BY <1>1, <1>3, <1>8, Zenon DEF Durable, Current
<1> QED BY <1>2, <1>3, <1>4, <1>9, Zenon DEF Atomic!Commit

\* Copying a block home changes neither what readers see nor what a crash
\* keeps, during a commit and during recovery.
LEMMA Ref_install_trans ==
  ASSUME LogInv, NEW p \in Procs, install_trans(p)
  PROVE  UNCHANGED Atomic!vars
<1> DEFINE i == tail[p] + 1
           b == lh[i]
<1>1. /\ pc[p] = "install_trans" /\ i <= Len(lh)
      /\ home' = [home EXCEPT ![b] = logd[i]] /\ cache' = [cache EXCEPT ![b] = logd[i]]
      /\ UNCHANGED <<logd, head, lh, committing, pc>>
  BY Zenon DEF install_trans
<1>2. i \in 1..Len(lh) /\ b \in Blocks /\ head = lh /\ Injective(head) /\ head \in Seq(Blocks)
  BY <1>1 DEF LogInv, TypeOK, HeadInv
<1>a. logd[i] # NoBuf
  BY <1>1, <1>2 DEF LogInv, TypeOK, LogdInv, HeadInv
<1> HIDE DEF b, i
<1>3. Durable' = Durable
  <2>1. \A c \in Blocks : c \notin Listed(head) => home'[c] = home[c]
    BY <1>1, <1>2, Zenon DEF Listed, LogInv, TypeOK, b
  <2>2. Durable = [c \in Blocks |-> Durable[c]]
    BY DEF Durable, Replay
  <2>3. \A c \in Blocks : c \notin Listed(head) => Durable[c] = home'[c]
    BY <1>2, <2>1, ReplayFacts DEF Durable
  <2>4. \A j \in 1..Len(head) : Durable[head[j]] = logd[j]
    BY <1>2, ReplayFacts DEF Durable
  <2>5. Replay(home', logd, head) = Durable
    <3> HIDE DEF Durable
    <3> QED BY <1>2, <2>2, <2>3, <2>4, ReplayEqual
  <2> QED BY <1>1, <2>5, Zenon DEF Durable
<1>4. (Recovering' <=> Recovering) /\ Active' = Active
  BY <1>1, Zenon DEF Recovering, Active
<1>5. CASE Recovering
  BY <1>3, <1>4, <1>5, Zenon DEF Current, Atomic!vars
<1>6. CASE ~Recovering
  <2>1. committing
    BY <1>1, <1>6, Zenon DEF Recovering
  <2>2. cache[b] = logd[i]
    BY <1>1, <1>2, <2>1 DEF LogInv, LogdInv, TypeOK, b, i
  <2>3. \A c \in Blocks : Data(c)' = Data(c)
    BY <1>1, <1>2, <1>a, <2>2, Zenon DEF Data, LogInv, TypeOK
  <2>4. Current' = Current
    BY <1>4, <1>6, <2>3, Zenon DEF Current
  <2> QED BY <1>3, <1>4, <2>4, Zenon DEF Atomic!vars
<1> QED BY <1>5, <1>6, Zenon

\* Erasing the header is invisible: everything it listed is at home.
LEMMA Ref_clear ==
  ASSUME LogInv, NEW p \in Procs, clear(p)
  PROVE  UNCHANGED Atomic!vars
<1>1. /\ pc[p] = "install_trans" /\ tail[p] = Len(lh) /\ head' = <<>>
      /\ UNCHANGED <<home, logd, cache, committing>>
      /\ pc' = IF committing THEN [pc EXCEPT ![p] = "end_commit"] ELSE [q \in Procs |-> "idle"]
  BY Zenon DEF clear
<1>2. /\ head = lh /\ Injective(head) /\ head \in Seq(Blocks) /\ home = [b \in Blocks |-> home[b]]
      /\ \A i \in 1..Len(lh) : home[lh[i]] = logd[i]
  BY <1>1, Zenon DEF LogInv, TypeOK, HeadInv, LogdInv
<1>3. Durable = home
  BY <1>2, ReplayEqual DEF Durable
<1>4. Durable' = home
  BY <1>1, ReplayNothing, Zenon DEF Durable, LogInv, TypeOK
<1>5. CASE committing
  <2>1. \A q \in Procs : q # p => pc[q] \notin {"install_trans", "read_head"}
    BY <1>1, <1>5, Zenon DEF LogInv, ModeInv, Boot, Committing
  <2>2. ~Recovering /\ ~Recovering' /\ Active' = Active
    BY <1>1, <1>5, <2>1, Zenon DEF Recovering, Active, InOp, LogInv, TypeOK
  <2>3. Current' = Current
    BY <1>1, <2>2, Zenon DEF Current, Data
  <2> QED BY <1>3, <1>4, <2>2, <2>3, Zenon DEF Atomic!vars
<1>6. CASE ~committing
  <2>1. Boot(p) /\ \A q \in Procs \ {p} : pc[q] = "off"
    BY <1>1, <1>6, Zenon DEF LogInv, ModeInv, Boot
  <2>2. Recovering /\ ~Recovering' /\ Active' = Active
    BY <1>1, <1>6, <2>1, Zenon DEF Recovering, Active, InOp
  <2>3. dirty = {} /\ \A b \in Blocks : ~Locked(b)
    BY <1>1, <2>1, Zenon DEF LogInv, DirtyInv, Locked
  <2>4. \A b \in Blocks : Data(b)' = home[b]
    BY <1>1, <2>3, Zenon DEF LogInv, CleanInv, Data
  <2>5. Current' = home
    BY <1>2, <2>2, <2>4, Zenon DEF Current
  <2>6. Current = home
    BY <1>3, <2>2, Zenon DEF Current
  <2> QED BY <1>3, <1>4, <2>2, <2>5, <2>6, Zenon DEF Atomic!vars
<1> QED BY <1>5, <1>6, Zenon

\* The end of end_op(), and reading the header during recovery, are invisible.
LEMMA Ref_quiet ==
  ASSUME LogInv, NEW p \in Procs, end_commit(p) \/ read_head(p)
  PROVE  UNCHANGED Atomic!vars
<1>1. CASE end_commit(p)
  <2>1. \A q \in Procs : q # p => pc[q] \notin {"install_trans", "read_head"}
    BY <1>1, Zenon DEF end_commit, LogInv, ModeInv, Boot, Committing
  <2>2. ~Recovering /\ ~Recovering' /\ Active' = Active
    BY <1>1, <2>1, Zenon DEF end_commit, wakeup, Recovering, Active, InOp, LogInv, TypeOK
  <2>3. Current' = Current /\ Durable' = Durable
    BY <1>1, <2>2, CurrentStable, Zenon DEF end_commit, Data
  <2> QED BY <2>2, <2>3, Zenon DEF Atomic!vars
<1>2. CASE read_head(p)
  <2>1. ~committing
    BY <1>2, Zenon DEF read_head, LogInv, ModeInv, Boot
  <2>2. Recovering /\ Recovering' /\ Active' = Active
    BY <1>2, <2>1, Zenon DEF read_head, Recovering, Active, InOp, LogInv, TypeOK
  <2>3. Current' = Current /\ Durable' = Durable
    BY <1>2, <2>2, CurrentStable, Zenon DEF read_head, Data
  <2> QED BY <2>2, <2>3, Zenon DEF Atomic!vars
<1> QED BY <1>1, <1>2, Zenon

\* Filling and recycling clean buffers is invisible.
LEMMA Ref_cache ==
  ASSUME LogInv, NEW b \in Blocks, bread(b) \/ bget_recycle(b)
  PROVE  UNCHANGED Atomic!vars
<1>1. (Recovering' <=> Recovering) /\ Active' = Active /\ UNCHANGED disk
  BY DEF bread, bget_recycle, Recovering, Active
<1>2. \A c \in Blocks : Data(c)' = Data(c)
  BY Zenon DEF bread, bget_recycle, Recyclable, Data, LogInv, TypeOK, CleanInv
<1> QED BY <1>1, <1>2, CurrentStable, Zenon DEF Atomic!vars

\* A crash takes readers back to the last commit and ends every call.
LEMMA Ref_crash ==
  ASSUME LogInv, NEW p \in Procs, crash(p)
  PROVE  Atomic!Crash
<1>1. Recovering' /\ Active' = {} /\ Durable' = Durable
  BY Zenon DEF crash, Recovering, Active, InOp, Durable
<1> QED BY <1>1, Zenon DEF Current, Atomic!Crash

\* log.c implements the atomic disk of AtomicDisk: whatever the interleaving
\* of calls, and at whatever disk write a crash or a crash during recovery
\* happens, the disk keeps whole groups of calls.
THEOREM LogIsAtomic == Spec => Atomicity
<1>1. LogInv /\ [Next]_vars => [Atomic!Next]_(Atomic!vars)
  <2> SUFFICES ASSUME LogInv, [Next]_vars PROVE Atomic!Next \/ UNCHANGED Atomic!vars
    BY Zenon
  <2>1. ASSUME NEW p \in Procs, begin_op(p) \/ end_op(p) \/ log_write(p) \/ record(p)
        PROVE  Atomic!Next \/ UNCHANGED Atomic!vars
    BY <2>1, Ref_begin_op, Ref_end_op, Ref_inside, Zenon DEF Atomic!Next
  <2>2. ASSUME NEW p \in Procs, NEW b \in Blocks, NEW v \in Vals, modify(p, b, v)
        PROVE  Atomic!Next
    BY <2>2, Ref_modify, Zenon DEF Atomic!Next
  <2>3. ASSUME NEW p \in Procs, commit(p) \/ read_head(p) \/ crash(p)
        PROVE  Atomic!Next \/ UNCHANGED Atomic!vars
    BY <2>3, Ref_write_log, Ref_write_head, Ref_install_trans, Ref_clear, Ref_quiet, Ref_crash, Zenon
       DEF commit, Atomic!Next
  <2>4. ASSUME NEW b \in Blocks, bread(b) \/ bget_recycle(b) PROVE UNCHANGED Atomic!vars
    BY <2>4, Ref_cache, Zenon
  <2>5. CASE UNCHANGED vars
    BY <2>5, Zenon DEF vars, Atomic!vars, Current, Durable, Data, Recovering, Active
  <2> QED BY <2>1, <2>2, <2>3, <2>4, <2>5, Zenon DEF Next
<1> QED BY <1>1, AtomicInit, LogInvariant, PTL DEF Spec, Atomicity, Atomic!Spec

=============================================================================
