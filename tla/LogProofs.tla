----------------------------- MODULE LogProofs -----------------------------
(***************************************************************************)
(* Proofs about the log for any number of processes, blocks and values and *)
(* any sizes that satisfy the assumptions of Log.  LogInv is the inductive *)
(* invariant; each of its conjuncts says what one part of the code relies  *)
(* on.                                                                     *)
(***************************************************************************)
EXTENDS Log, FiniteSetTheorems, TLAPS

Boot(p) == pc[p] = "read_head" \/ (pc[p] = "install_trans" /\ ~committing)

Injective(h) == \A i, j \in 1..Len(h) : h[i] = h[j] => i = j

\* log.outstanding counts the calls between begin_op() and end_op().
CountInv == IsFiniteSet(Active) /\ outstanding = Cardinality(Active)

\* Recovery runs alone; at most one process commits, and only between calls.
ModeInv ==
  /\ \A p \in Procs : Boot(p) => ~committing /\ \A q \in Procs \ {p} : pc[q] = "off"
  /\ \A p \in Procs : pc[p] = "off" => \E q \in Procs : Boot(q)
  /\ committing => Active = {} /\ \E p \in Procs : pc[p] \in Committing
  /\ \A p \in Procs : pc[p] \in Committing /\ pc[p] # "install_trans" => committing
  /\ \A p, q \in Procs : pc[p] \in Committing /\ pc[q] \in Committing => p = q

\* A buffer changed but not yet recorded is locked by one process.
BufInv ==
  /\ \A p \in Procs : pc[p] \in {"log_write", "record"} =>
       bp[p] \in Blocks /\ cache[bp[p]] # NoBuf
  /\ \A p, q \in Procs :
       /\ pc[p] \in {"log_write", "record"} /\ pc[q] \in {"log_write", "record"}
       /\ bp[p] = bp[q]
       => p = q

\* Block b is one of h[t+1], h[t+2], ...
ListedAfter(b, h, t) == \E i \in 1..Len(h) : t < i /\ h[i] = b

\* B_DIRTY marks the blocks of the transaction that are not yet at home.
DirtyInv ==
  /\ \A b \in dirty : cache[b] # NoBuf
  /\ \A p \in Procs : pc[p] = "install_trans" /\ committing =>
       \A b \in Blocks : b \in dirty <=> ListedAfter(b, lh, tail[p])
  /\ (\A p \in Procs : pc[p] \notin {"install_trans", "read_head"}) =>
       \A b \in Blocks : b \in dirty <=> ListedAfter(b, lh, 0)
  /\ \A p \in Procs : Boot(p) => dirty = {}

\* A clean buffer nobody has locked equals the disk.
CleanInv ==
  \A b \in Blocks : b \notin dirty /\ ~Locked(b) /\ cache[b] # NoBuf => cache[b] = home[b]

\* The header on the disk is empty except from write_head() to clear.
HeadInv ==
  /\ Injective(head) /\ Injective(lh)
  /\ Len(head) <= LOGSIZE
  /\ (\A p \in Procs : pc[p] \notin {"install_trans", "read_head"}) => head = <<>>
  /\ \A p \in Procs : pc[p] = "install_trans" => head = lh

\* How far write_log() and install_trans() have come.
LogdInv ==
  /\ \A p \in Procs : pc[p] = "write_log" =>
       /\ tail[p] < Len(lh)
       /\ \A i \in 1..tail[p] : logd[i] = cache[lh[i]]
  /\ \A p \in Procs : pc[p] = "write_head" => \A i \in 1..Len(lh) : logd[i] = cache[lh[i]]
  /\ \A p \in Procs : pc[p] = "install_trans" =>
       /\ tail[p] <= Len(lh)
       /\ \A i \in 1..tail[p] : home[lh[i]] = logd[i]
       /\ committing => \A i \in (tail[p] + 1)..Len(lh) : cache[lh[i]] = logd[i]
  /\ \A p \in Procs : pc[p] \notin {"write_log", "install_trans"} => tail[p] = 0

\* Outside calls, commits and recovery the transaction is empty.
EmptyInv ==
  /\ outstanding = 0 /\ ~committing /\ ~Recovering => lh = <<>>
  /\ \A p \in Procs : pc[p] \in {"end_commit", "read_head"} => lh = <<>>

\* What the calls in progress may still add to the transaction: one token
\* for each block of a call's reservation that it has not used.
TokensOf(at, w) == {t \in Procs \X (1..MAXOPBLOCKS) :
                      at[t[1]] \in InOp /\ Cardinality(w[t[1]]) < t[2]}
Tokens == TokensOf(pc, wrote)

\* begin_op() reserved enough: the transaction fits with all that may be added.
SpaceInv ==
  /\ \A p \in Procs :
       /\ IsFiniteSet(wrote[p])
       /\ Cardinality(wrote[p]) <= OpBlocks
       /\ pc[p] \in InOp => wrote[p] \subseteq Listed(lh)
       /\ pc[p] \notin InOp => wrote[p] = {}
       /\ pc[p] \in {"log_write", "record"} => Cardinality(wrote[p] \cup {bp[p]}) <= OpBlocks
  /\ Len(lh) + Cardinality(Tokens) <= LOGSIZE

LogInv == /\ TypeOK /\ CountInv /\ ModeInv /\ BufInv /\ DirtyInv /\ CleanInv
          /\ HeadInv /\ LogdInv /\ EmptyInv /\ SpaceInv /\ NoLostWakeup
-----------------------------------------------------------------------------
USE SizesAssumption, NoBufAssumption DEF disk, bcache, local, At

\* A reservation of MAXOPBLOCKS blocks for each process of a finite set is a
\* finite set of that many tokens.
LEMMA ReservationFinite ==
  ASSUME NEW A, IsFiniteSet(A)
  PROVE  /\ IsFiniteSet(A \X (1..MAXOPBLOCKS))
         /\ Cardinality(A \X (1..MAXOPBLOCKS)) = Cardinality(A) * MAXOPBLOCKS
<1>1. IsFiniteSet(1..MAXOPBLOCKS) /\ Cardinality(1..MAXOPBLOCKS) = MAXOPBLOCKS
  BY FS_Interval
<1>2. /\ IsFiniteSet(A \X (1..MAXOPBLOCKS))
      /\ Cardinality(A \X (1..MAXOPBLOCKS)) = Cardinality(A) * Cardinality(1..MAXOPBLOCKS)
  BY <1>1, FS_Product, Zenon
<1> QED BY <1>1, <1>2, Zenon

\* There are finitely many unused tokens, whatever the processes are doing.
LEMMA TokensFinite ==
  ASSUME NEW at, NEW w
  PROVE  IsFiniteSet(TokensOf(at, w)) /\ Cardinality(TokensOf(at, w)) \in Nat
<1>1. IsFiniteSet(Procs \X (1..MAXOPBLOCKS))
  BY ProcsAssumption, ReservationFinite, Zenon
<1>2. TokensOf(at, w) \in SUBSET (Procs \X (1..MAXOPBLOCKS))
  BY Zenon DEF TokensOf
<1> QED BY <1>1, <1>2, FS_Subset, FS_CardinalityType, Zenon

\* The unused tokens are at most MAXOPBLOCKS for each call in progress, the
\* figure begin_op() compares with LOGSIZE.
LEMMA TokensBound ==
  ASSUME NEW at, NEW w, NEW A, IsFiniteSet(A), \A p \in Procs : at[p] \in InOp => p \in A
  PROVE  Cardinality(TokensOf(at, w)) <= Cardinality(A) * MAXOPBLOCKS
<1>1. TokensOf(at, w) \in SUBSET (A \X (1..MAXOPBLOCKS))
  BY Zenon DEF TokensOf
<1>2. Cardinality(TokensOf(at, w)) <= Cardinality(A \X (1..MAXOPBLOCKS))
  BY <1>1, ReservationFinite, FS_Subset, Zenon
<1> QED BY <1>2, ReservationFinite, Zenon

\* A step that leaves the transaction and the calls in progress alone keeps
\* the reservation sound.
LEMMA SpaceStable ==
  ASSUME SpaceInv, lh' = lh, wrote' = wrote,
         \A q \in Procs : \/ pc'[q] = pc[q] /\ bp'[q] = bp[q]
                          \/ pc[q] \notin InOp /\ pc'[q] \notin InOp
  PROVE  SpaceInv'
<1>0. Tokens' = Tokens
  BY Zenon DEF Tokens, TokensOf
<1>1. Cardinality(Tokens') = Cardinality(Tokens)
  BY <1>0, Zenon
<1>2. \A q \in Procs : pc'[q] \in {"log_write", "record"} => pc'[q] = pc[q] /\ bp'[q] = bp[q]
  BY Zenon DEF InOp
<1>3. \A q \in Procs : pc'[q] \in InOp <=> pc[q] \in InOp
  BY Zenon
<1>4. \A q \in Procs : pc'[q] \in {"log_write", "record"} =>
        Cardinality(wrote'[q] \cup {bp'[q]}) <= OpBlocks
  BY <1>2, Zenon DEF SpaceInv
<1>5. Listed(lh') = Listed(lh)
  BY Zenon DEF Listed
<1>6. Len(lh') + Cardinality(Tokens') <= LOGSIZE
  BY <1>1, Zenon DEF SpaceInv
<1> QED BY <1>3, <1>4, <1>5, <1>6, Zenon DEF SpaceInv

\* With an empty transaction and no call in progress the reservation holds.
LEMMA SpaceEmpty ==
  ASSUME lh' \in Seq(Blocks), Len(lh') <= LOGSIZE,
         \A q \in Procs : pc'[q] \notin InOp /\ wrote'[q] = {}
  PROVE  SpaceInv'
<1>1. Tokens' = {}
  BY Zenon DEF Tokens, TokensOf
<1>2. IsFiniteSet({}) /\ Cardinality({}) = 0
  BY FS_EmptySet, Zenon
<1>3. \A q \in Procs : pc'[q] \notin {"log_write", "record"}
  BY Zenon DEF InOp
<1>4. Len(lh') \in Nat
  OBVIOUS
<1>5. Len(lh') + Cardinality(Tokens') <= LOGSIZE
  <2>1. Cardinality(Tokens') = 0
    BY <1>1, <1>2, Zenon
  <2> QED BY <2>1, <1>4
<1>6. \A q \in Procs : IsFiniteSet(wrote'[q]) /\ Cardinality(wrote'[q]) <= OpBlocks
  <2>1. \A q \in Procs : IsFiniteSet(wrote'[q]) /\ Cardinality(wrote'[q]) = 0
    BY <1>2, Zenon
  <2> QED BY <2>1
<1> QED BY <1>3, <1>5, <1>6, Zenon DEF SpaceInv

\* What log.lh.block[i] = b->blockno at the end of the array does.
LEMMA AppendFacts ==
  ASSUME NEW h \in Seq(Blocks), NEW b \in Blocks
  PROVE  /\ Append(h, b) \in Seq(Blocks)
         /\ Len(Append(h, b)) = Len(h) + 1
         /\ \A i \in 1..Len(h) : Append(h, b)[i] = h[i]
         /\ Append(h, b)[Len(h) + 1] = b
OBVIOUS

\* begin_op preserves the invariant.
LEMMA Inv_begin_op ==
  ASSUME LogInv, NEW p \in Procs, begin_op(p)
  PROVE  LogInv'
<1>a. /\ pc[p] \in {"idle", "begin_op"}
      /\ pc' = [pc EXCEPT ![p] = "op"] \/ pc' = [pc EXCEPT ![p] = "sleep"]
      /\ UNCHANGED <<disk, bcache, lh, committing, local, tail, panicked>>
  BY Zenon DEF begin_op
<1>b. CanBegin => outstanding' = outstanding + 1 /\ pc' = [pc EXCEPT ![p] = "op"]
  BY Zenon DEF begin_op
<1>c. ~CanBegin => outstanding' = outstanding /\ pc' = [pc EXCEPT ![p] = "sleep"]
  BY Zenon DEF begin_op
<1>d. \A q \in Procs : \/ q # p /\ pc'[q] = pc[q]
                       \/ q = p /\ pc[q] \in {"idle", "begin_op"} /\ pc'[q] \in {"op", "sleep"}
  BY <1>a, Zenon DEF LogInv, TypeOK
<1>1. TypeOK'
  <2>1. outstanding' \in Nat
    BY <1>b, <1>c DEF LogInv, TypeOK
  <2>2. pc' \in [Procs -> PcValues]
    BY <1>a, Zenon DEF LogInv, TypeOK, PcValues, InOp
  <2> QED BY <1>a, <2>1, <2>2, Zenon DEF LogInv, TypeOK
<1>2. CountInv'
  <2>1. CASE CanBegin
    <3>1. Active' = Active \cup {p} /\ p \notin Active
      BY <1>a, <1>b, <2>1, Zenon DEF LogInv, TypeOK, Active, InOp
    <3>2. IsFiniteSet(Active \cup {p}) /\ Cardinality(Active \cup {p}) = Cardinality(Active) + 1
      BY <3>1, FS_AddElement, Zenon DEF LogInv, CountInv
    <3>3. IsFiniteSet(Active') /\ Cardinality(Active') = Cardinality(Active) + 1
      BY <3>1, <3>2, Zenon
    <3> QED BY <1>b, <2>1, <3>3, Zenon DEF LogInv, CountInv
  <2>2. CASE ~CanBegin
    <3>1. Active' = Active
      BY <1>a, <1>c, <2>2, Zenon DEF LogInv, TypeOK, Active, InOp
    <3> QED BY <1>c, <2>2, <3>1, Zenon DEF LogInv, CountInv
  <2> QED BY <2>1, <2>2, Zenon
<1>3. ModeInv'
  <2>1. CASE CanBegin
    BY <1>a, <1>b, <1>d, <2>1, ZenonT(30) DEF LogInv, TypeOK, ModeInv, Boot, Active, InOp, Committing, CanBegin
  <2>2. CASE ~CanBegin
    BY <1>a, <1>c, <1>d, <2>2, ZenonT(30) DEF LogInv, TypeOK, ModeInv, Boot, Active, InOp, Committing
  <2> QED BY <2>1, <2>2, Zenon
<1>4. BufInv'
  BY <1>a, <1>d, <1>1, Zenon DEF LogInv, TypeOK, BufInv, BufInv
<1>5. DirtyInv'
  BY <1>a, <1>d, Zenon DEF LogInv, DirtyInv, Boot
<1>6. CleanInv'
  BY <1>a, <1>d, <1>1, SMTT(30) DEF LogInv, TypeOK, CleanInv, Locked
<1>7. HeadInv'
  BY <1>a, <1>d, <1>1 DEF LogInv, TypeOK, HeadInv, Injective
<1>8. LogdInv'
  <2>1. /\ lh' = lh /\ tail' = tail /\ cache' = cache /\ home' = home
        /\ logd' = logd /\ committing' = committing
    BY <1>a, Zenon
  <2> QED BY <1>d, <2>1 DEF LogInv, LogdInv
<1>9. EmptyInv'
  BY <1>a, <1>b, <1>c, <1>d DEF LogInv, TypeOK, EmptyInv, Recovering
<1>10. NoLostWakeup'
  <2>1. CASE CanBegin
    <3>1. \A q \in Procs : pc[q] # "sleep"
      BY <2>1, Zenon DEF LogInv, NoLostWakeup
    <3> QED BY <1>b, <1>d, <2>1, <3>1, Zenon DEF LogInv, TypeOK, NoLostWakeup
  <2>2. CASE ~CanBegin
    <3>1. \E q \in Procs : pc[q] \in InOp \cup Committing
      <4>1. CASE committing
        BY <4>1, Zenon DEF LogInv, ModeInv
      <4>2. CASE ~committing
        <5>1. ~Recovering
          BY <1>a, Zenon DEF LogInv, ModeInv, Boot, Recovering
        <5>2. outstanding # 0
          <6>1. Len(<<>>) + (0 + 1) * MAXOPBLOCKS <= LOGSIZE
            OBVIOUS
          <6> QED BY <2>2, <4>2, <5>1, <6>1, Zenon DEF LogInv, EmptyInv, CanBegin, Reserved
        <5>3. Active # {}
          BY <5>2, FS_EmptySet, Zenon DEF LogInv, CountInv
        <5> QED BY <5>3, Zenon DEF Active
      <4> QED BY <4>1, <4>2, Zenon
    <3>2. ~CanBegin'
      BY <1>a, <1>c, <2>2, Zenon DEF CanBegin, Reserved
    <3> QED BY <1>d, <3>1, <3>2, Zenon DEF NoLostWakeup, InOp, Committing
  <2> QED BY <2>1, <2>2, Zenon
<1>11. SpaceInv'
  <2>1. CASE CanBegin
    <3>1. IsFiniteSet(Active') /\ outstanding' = Cardinality(Active')
      BY <1>2, Zenon DEF CountInv
    <3>2. Cardinality(Tokens') <= Cardinality(Active') * MAXOPBLOCKS
      BY <3>1, TokensBound, Zenon DEF Tokens, Active
    <3>3. Cardinality(Tokens') <= (outstanding + 1) * MAXOPBLOCKS
      BY <1>b, <2>1, <3>1, <3>2, Zenon
    <3>4. Cardinality(Tokens') \in Nat
      BY TokensFinite, Zenon DEF Tokens
    <3>5. Len(lh') + Cardinality(Tokens') <= LOGSIZE
      <4> DEFINE r == (outstanding + 1) * MAXOPBLOCKS
      <4>1. r \in Nat /\ Len(lh) \in Nat
        BY DEF LogInv, TypeOK
      <4>2. Len(lh) + r <= LOGSIZE /\ Cardinality(Tokens') <= r
        BY <2>1, <3>3, Zenon DEF CanBegin, Reserved
      <4> HIDE DEF r
      <4> QED BY <1>a, <3>4, <4>1, <4>2
    <3>6. \A q \in Procs : pc'[q] \in {"log_write", "record"} => pc'[q] = pc[q]
      BY <1>d, Zenon
    <3>7. \A q \in Procs : wrote'[q] = wrote[q] /\ bp'[q] = bp[q]
      BY <1>a, Zenon
    <3>8. \A q \in Procs : Cardinality(wrote[q]) <= OpBlocks /\ IsFiniteSet(wrote[q])
                           /\ (pc'[q] \in InOp => wrote[q] \subseteq Listed(lh))
                           /\ (pc'[q] \notin InOp => wrote[q] = {})
      BY <1>d, Zenon DEF LogInv, SpaceInv, InOp
    <3>9. \A q \in Procs : pc'[q] \in {"log_write", "record"} =>
                           Cardinality(wrote'[q] \cup {bp'[q]}) <= OpBlocks
      BY <3>6, <3>7, Zenon DEF LogInv, SpaceInv
    <3>10. lh' = lh
      BY <1>a, Zenon
    <3> QED BY <3>5, <3>7, <3>8, <3>9, <3>10, Zenon DEF SpaceInv
  <2>2. CASE ~CanBegin
    BY <1>a, <1>c, <1>d, <2>2, SpaceStable, Zenon DEF LogInv, TypeOK, InOp
  <2> QED BY <2>1, <2>2, Zenon
<1> QED BY <1>1, <1>2, <1>3, <1>4, <1>5, <1>6, <1>7, <1>8, <1>9, <1>10, <1>11, Zenon DEF LogInv

\* modify preserves the invariant.
LEMMA Inv_modify ==
  ASSUME LogInv, NEW p \in Procs, NEW b \in Blocks, NEW v \in Vals, modify(p, b, v)
  PROVE  LogInv'
<1> USE DEF modify
<1>1. TypeOK'
  BY Zenon DEF LogInv, TypeOK, PcValues, InOp, Committing, BufInv, LogdInv
<1>2. CountInv'
  BY <1>1, Zenon DEF LogInv, TypeOK, CountInv, Active, InOp
<1>3. ModeInv'
  BY <1>1 DEF LogInv, TypeOK, ModeInv, Boot, Active, InOp, Committing
<1>4. BufInv'
  BY <1>1 DEF LogInv, TypeOK, BufInv, Locked
<1>5. DirtyInv'
  BY <1>1 DEF LogInv, TypeOK, DirtyInv, Boot, ListedAfter, ModeInv, Committing, Active, InOp, BufInv
<1>6. CleanInv'
  BY <1>1, ZenonT(30) DEF LogInv, TypeOK, CleanInv, Locked, DirtyInv, BufInv
<1>7. HeadInv'
  BY <1>1 DEF LogInv, TypeOK, HeadInv, Injective, ModeInv, Boot, Committing, Active, InOp
<1>8. LogdInv'
  BY <1>1 DEF LogInv, TypeOK, LogdInv, HeadInv, ModeInv, Boot, Committing, DirtyInv, ListedAfter, Active, InOp
<1>9. EmptyInv'
  BY <1>1, Zenon DEF LogInv, TypeOK, EmptyInv, Recovering, ModeInv, Boot, Committing, Active, InOp
<1>10. NoLostWakeup'
  BY <1>1 DEF LogInv, TypeOK, NoLostWakeup, CanBegin, Reserved, ModeInv, Boot, Committing, Active, InOp
<1>11. SpaceInv'
  <2>1. lh' = lh /\ wrote' = wrote /\ \A q \in Procs : pc'[q] \in InOp <=> pc[q] \in InOp
    BY Zenon DEF LogInv, TypeOK, InOp
  <2>2. Tokens' = Tokens
    BY <2>1, Zenon DEF Tokens, TokensOf
  <2>3. Len(lh') + Cardinality(Tokens') <= LOGSIZE
    BY <2>1, <2>2, Zenon DEF LogInv, SpaceInv
  <2>4. ASSUME NEW q \in Procs, pc'[q] \in {"log_write", "record"}
        PROVE  Cardinality(wrote'[q] \cup {bp'[q]}) <= OpBlocks
    <3>1. CASE q = p
      <4>1. bp'[q] = b /\ Cardinality(wrote[q] \cup {b}) <= OpBlocks
        BY <3>1, Zenon DEF LogInv, TypeOK
      <4> QED BY <2>1, <4>1, Zenon
    <3>2. CASE q # p
      <4>1. bp'[q] = bp[q] /\ pc'[q] = pc[q]
        BY <3>2, Zenon DEF LogInv, TypeOK
      <4> QED BY <2>1, <2>4, <4>1, Zenon DEF LogInv, SpaceInv
    <3> QED BY <3>1, <3>2, Zenon
  <2> QED BY <2>1, <2>3, <2>4, Zenon DEF LogInv, SpaceInv
<1> QED BY <1>1, <1>2, <1>3, <1>4, <1>5, <1>6, <1>7, <1>8, <1>9, <1>10, <1>11, SMTT(30) DEF LogInv

\* log_write preserves the invariant.
LEMMA Inv_log_write ==
  ASSUME LogInv, NEW p \in Procs, log_write(p)
  PROVE  LogInv'
<1> USE DEF log_write, TooBig
<1>1. TypeOK'
  BY Zenon DEF LogInv, TypeOK, PcValues, InOp, Committing, BufInv, LogdInv
<1>2. CountInv'
  BY <1>1, Zenon DEF LogInv, TypeOK, CountInv, Active, InOp
<1>3. ModeInv'
  BY <1>1 DEF LogInv, TypeOK, ModeInv, Boot, Active, InOp, Committing
<1>4. BufInv'
  BY <1>1, Zenon DEF LogInv, TypeOK, BufInv, Locked
<1>5. DirtyInv'
  BY <1>1, Zenon DEF LogInv, TypeOK, DirtyInv, Boot, ListedAfter, ModeInv, Committing, Active, InOp, BufInv
<1>6. CleanInv'
  BY <1>1, Zenon DEF LogInv, TypeOK, CleanInv, Locked, DirtyInv, BufInv
<1>7. HeadInv'
  BY <1>1 DEF LogInv, TypeOK, HeadInv, Injective, ModeInv, Boot, Committing, Active, InOp
<1>8. LogdInv'
  BY <1>1 DEF LogInv, TypeOK, LogdInv, HeadInv, ModeInv, Boot, Committing, DirtyInv, ListedAfter, Active, InOp
<1>9. EmptyInv'
  BY <1>1, Zenon DEF LogInv, TypeOK, EmptyInv, Recovering, ModeInv, Boot, Committing, Active, InOp
<1>10. NoLostWakeup'
  BY <1>1 DEF LogInv, TypeOK, NoLostWakeup, CanBegin, Reserved, ModeInv, Boot, Committing, Active, InOp
<1>11. SpaceInv'
  <2>1. \A q \in Procs : q # p => pc'[q] = pc[q]
    BY Zenon DEF LogInv, TypeOK
  <2>2. pc[p] = "log_write" /\ pc'[p] = "record" /\ lh' = lh /\ wrote' = wrote /\ bp' = bp
    BY Zenon DEF LogInv, TypeOK
  <2> HIDE DEF log_write
  <2>3. \A q \in Procs : (pc'[q] \in InOp <=> pc[q] \in InOp)
    BY <2>1, <2>2, Zenon DEF InOp
  <2>4. Tokens' = Tokens
    BY <2>2, <2>3, Zenon DEF Tokens, TokensOf
  <2>5. Len(lh') + Cardinality(Tokens') <= LOGSIZE
    BY <2>2, <2>4, Zenon DEF LogInv, SpaceInv
  <2>6. \A q \in Procs : pc'[q] \in {"log_write", "record"} => pc[q] \in {"log_write", "record"}
    BY <2>1, <2>2, Zenon
  <2>7. \A q \in Procs : pc'[q] \in {"log_write", "record"} =>
          Cardinality(wrote'[q] \cup {bp'[q]}) <= OpBlocks
    BY <2>2, <2>6, Zenon DEF LogInv, SpaceInv
  <2> QED BY <2>2, <2>3, <2>5, <2>7, Zenon DEF LogInv, SpaceInv
<1> QED BY <1>1, <1>2, <1>3, <1>4, <1>5, <1>6, <1>7, <1>8, <1>9, <1>10, <1>11, Zenon DEF LogInv

\* record preserves the invariant.
LEMMA Inv_record ==
  ASSUME LogInv, NEW p \in Procs, record(p)
  PROVE  LogInv'
<1> DEFINE b == bp[p]
<1>a. /\ pc[p] = "record" /\ pc' = [pc EXCEPT ![p] = "op"]
      /\ lh' = absorb(b) /\ dirty' = dirty \cup {b}
      /\ bp' = [bp EXCEPT ![p] = NoBuf] /\ wrote' = [wrote EXCEPT ![p] = @ \cup {b}]
      /\ UNCHANGED <<disk, cache, outstanding, committing, tail, panicked>>
  BY Zenon DEF record, pinned
<1>b. b \in Blocks /\ cache[b] # NoBuf
  BY <1>a, Zenon DEF LogInv, BufInv
<1>c. /\ lh \in Seq(Blocks) /\ Len(lh) \in Nat
      /\ lh' \in Seq(Blocks) /\ Len(lh') \in Nat
      /\ \A i \in 1..Len(lh) : i \in 1..Len(lh') /\ lh'[i] = lh[i]
      /\ \A i \in 1..Len(lh') : i \in 1..Len(lh) \/ (i = Len(lh) + 1 /\ lh'[i] = b)
      /\ \E i \in 1..Len(lh') : lh'[i] = b
      /\ b \in Listed(lh) => lh' = lh
      /\ b \notin Listed(lh) => Len(lh') = Len(lh) + 1
  <2>1. lh \in Seq(Blocks)
    BY Zenon DEF LogInv, TypeOK
  <2>2. CASE b \in Listed(lh)
    BY <1>a, <2>1, <2>2 DEF absorb, Listed
  <2>3. CASE b \notin Listed(lh)
    <3>1. lh' = Append(lh, b)
      BY <1>a, <2>3, Zenon DEF absorb
    <3>2. /\ Append(lh, b) \in Seq(Blocks)
          /\ Len(Append(lh, b)) = Len(lh) + 1
          /\ \A i \in 1..Len(lh) : Append(lh, b)[i] = lh[i]
          /\ Append(lh, b)[Len(lh) + 1] = b
      BY <1>b, <2>1, AppendFacts, Zenon
    <3>3. Len(lh) \in Nat
      BY <2>1
    <3> HIDE DEF b
    <3> QED BY <2>1, <2>3, <3>1, <3>2, <3>3
  <2> QED BY <2>2, <2>3, Zenon
<1>d. \A q \in Procs : q # p => pc'[q] = pc[q] /\ bp'[q] = bp[q] /\ wrote'[q] = wrote[q]
  BY <1>a, Zenon DEF LogInv, TypeOK
<1>e. pc'[p] = "op" /\ wrote'[p] = wrote[p] \cup {b}
  BY <1>a, Zenon DEF LogInv, TypeOK
<1>f. ~committing /\ \A q \in Procs : pc[q] \notin {"install_trans", "read_head", "write_log", "write_head"}
  BY <1>a, Zenon DEF LogInv, ModeInv, Boot, Active, InOp, Committing
<1> HIDE DEF b
<1>1. TypeOK'
  BY <1>a, <1>b, <1>c DEF LogInv, TypeOK, PcValues, InOp
<1>2. CountInv'
  <2>1. Active' = Active
    BY <1>a, <1>d, <1>e, Zenon DEF Active, InOp
  <2> QED BY <1>a, <2>1, Zenon DEF LogInv, CountInv
<1>3. ModeInv'
  <2>1. Active' = Active
    BY <1>a, <1>d, <1>e, Zenon DEF Active, InOp
  <2> QED BY <1>a, <1>d, <1>e, <1>f, <2>1, SMTT(30) DEF LogInv, ModeInv, Boot, InOp, Committing
<1>4. BufInv'
  BY <1>a, <1>d, <1>e DEF LogInv, BufInv
<1>5. DirtyInv'
  <2>1. \A q \in Procs : pc'[q] \notin {"install_trans", "read_head"}
    BY <1>d, <1>e, <1>f, Zenon
  <2>2. \A c \in Blocks : c \in dirty <=> ListedAfter(c, lh, 0)
    BY <1>f, Zenon DEF LogInv, DirtyInv
  <2>3. \A c \in Blocks : c \in dirty' <=> ListedAfter(c, lh', 0)
    <3>1. ASSUME NEW c \in Blocks, c \in dirty' PROVE ListedAfter(c, lh', 0)
      <4>1. CASE c = b
        BY <1>c, <4>1 DEF ListedAfter
      <4>2. CASE c \in dirty
        BY <1>c, <2>2, <4>2, Zenon DEF ListedAfter
      <4> QED BY <1>a, <3>1, <4>1, <4>2, Zenon
    <3>2. ASSUME NEW c \in Blocks, ListedAfter(c, lh', 0) PROVE c \in dirty'
      <4>1. PICK i \in 1..Len(lh') : lh'[i] = c
        BY <3>2, Zenon DEF ListedAfter
      <4>2. CASE i \in 1..Len(lh)
        BY <1>a, <1>c, <2>2, <4>1, <4>2 DEF ListedAfter
      <4> QED BY <1>a, <1>c, <4>1, <4>2, Zenon
    <3> QED BY <3>1, <3>2, Zenon
  <2>4. \A c \in dirty' : cache'[c] # NoBuf
    BY <1>a, <1>b, Zenon DEF LogInv, DirtyInv
  <2> QED BY <2>1, <2>3, <2>4, Zenon DEF DirtyInv, Boot
<1>6. CleanInv'
  BY <1>a, <1>d, <1>e DEF LogInv, CleanInv, Locked, b
<1>7. HeadInv'
  <2>1. Injective(lh')
    <3>1. CASE b \in Listed(lh)
      BY <1>c, <3>1, Zenon DEF LogInv, HeadInv, Injective
    <3>2. CASE b \notin Listed(lh)
      BY <1>c, <3>2, SMTT(30) DEF LogInv, HeadInv, Injective, Listed
    <3> QED BY <3>1, <3>2, Zenon
  <2>2. \A q \in Procs : pc'[q] \notin {"install_trans", "read_head"}
    BY <1>d, <1>e, <1>f, Zenon
  <2> QED BY <1>a, <1>f, <2>1, <2>2 DEF LogInv, HeadInv, Injective
<1>8. LogdInv'
  BY <1>a, <1>d, <1>e, <1>f DEF LogInv, LogdInv
<1>9. EmptyInv'
  <2>1. p \in Active
    BY <1>a, Zenon DEF Active, InOp
  <2>2. outstanding # 0
    BY <2>1, FS_EmptySet, Zenon DEF LogInv, CountInv
  <2> QED BY <1>a, <1>d, <1>e, <1>f, <2>2 DEF LogInv, EmptyInv, ModeInv, Committing
<1>10. NoLostWakeup'
  <2>1. ~CanBegin => ~CanBegin'
    <3>1. Len(lh) <= Len(lh')
      BY <1>c
    <3> DEFINE r == (outstanding + 1) * MAXOPBLOCKS
    <3>2. r \in Nat /\ Len(lh) \in Nat /\ Len(lh') \in Nat
      BY <1>c DEF LogInv, TypeOK
    <3>3. (CanBegin <=> ~committing /\ Len(lh) + r <= LOGSIZE)
          /\ (CanBegin' <=> ~committing /\ Len(lh') + r <= LOGSIZE)
      BY <1>a, Zenon DEF CanBegin, Reserved
    <3> HIDE DEF r
    <3> QED BY <3>1, <3>2, <3>3
  <2> QED BY <1>d, <1>e, <2>1, Zenon DEF LogInv, NoLostWakeup, InOp
<1>11. SpaceInv'
  <2> DEFINE n == Cardinality(wrote[p])
  <2>1. IsFiniteSet(wrote[p]) /\ wrote[p] \subseteq Listed(lh) /\ n \in Nat
    BY <1>a, FS_CardinalityType, Zenon DEF LogInv, SpaceInv, InOp
  <2>2. /\ IsFiniteSet(wrote[p] \cup {b}) /\ Cardinality(wrote[p] \cup {b}) <= OpBlocks
        /\ Cardinality(wrote[p] \cup {b}) = IF b \in wrote[p] THEN n ELSE n + 1
    BY <1>a, <2>1, FS_AddElement, SMTT(30) DEF LogInv, SpaceInv, b
  <2>3. Listed(lh) \subseteq Listed(lh') /\ b \in Listed(lh')
    BY <1>c, Zenon DEF Listed
  <2>4. \A q \in Procs : Cardinality(wrote'[q]) = IF q = p /\ b \notin wrote[p] THEN n + 1
                                                 ELSE Cardinality(wrote[q])
    <3>1. ASSUME NEW q \in Procs, q # p PROVE Cardinality(wrote'[q]) = Cardinality(wrote[q])
      BY <1>d, <3>1, Zenon
    <3>2. Cardinality(wrote'[p]) = Cardinality(wrote[p] \cup {b})
      BY <1>e, Zenon
    <3> QED BY <2>2, <3>1, <3>2, Zenon
  <2>5. \A q \in Procs : pc'[q] \in InOp <=> pc[q] \in InOp
    BY <1>a, <1>d, <1>e, Zenon DEF InOp
  <2>6. Len(lh') + Cardinality(Tokens') <= LOGSIZE
    <3>1. CASE b \in wrote[p]
      <4>1. Tokens' = Tokens
        BY <2>4, <2>5, <3>1, Zenon DEF Tokens, TokensOf
      <4>2. Cardinality(Tokens') = Cardinality(Tokens)
        BY <4>1, Zenon
      <4>3. lh' = lh
        BY <1>c, <2>1, <3>1, Zenon
      <4> QED BY <4>2, <4>3, Zenon DEF LogInv, SpaceInv
    <3>2. CASE b \notin wrote[p]
      <4> DEFINE t == <<p, n + 1>>
      <4>1. t \in Tokens
        BY <1>a, <2>1, <2>2, <3>2 DEF Tokens, TokensOf, InOp
      <4>2. Tokens' = Tokens \ {t}
        <5>1. \A q \in Procs, k \in 1..MAXOPBLOCKS :
                <<q, k>> \in Tokens' <=> <<q, k>> \in Tokens /\ ~(q = p /\ k = n + 1)
          BY <2>1, <2>4, <2>5, <3>2 DEF Tokens, TokensOf
        <5>2. Tokens \subseteq Procs \X (1..MAXOPBLOCKS) /\ Tokens' \subseteq Procs \X (1..MAXOPBLOCKS)
          BY Zenon DEF Tokens, TokensOf
        <5> QED BY <5>1, <5>2
      <4>3. IsFiniteSet(Tokens) /\ Cardinality(Tokens) \in Nat
        BY TokensFinite, Zenon DEF Tokens
      <4> HIDE DEF t
      <4>4. Cardinality(Tokens \ {t}) = Cardinality(Tokens) - 1
        BY <4>1, <4>3, FS_RemoveElement, Zenon
      <4>5. Cardinality(Tokens') = Cardinality(Tokens) - 1
        BY <4>2, <4>4, Zenon
      <4>6. Len(lh') <= Len(lh) + 1
        BY <1>c
      <4> QED BY <1>c, <4>3, <4>5, <4>6 DEF LogInv, SpaceInv
    <3> QED BY <3>1, <3>2, Zenon
  <2>7. ASSUME NEW q \in Procs
        PROVE  /\ IsFiniteSet(wrote'[q]) /\ Cardinality(wrote'[q]) <= OpBlocks
               /\ pc'[q] \in InOp => wrote'[q] \subseteq Listed(lh')
               /\ pc'[q] \notin InOp => wrote'[q] = {}
               /\ pc'[q] \in {"log_write", "record"} => Cardinality(wrote'[q] \cup {bp'[q]}) <= OpBlocks
    <3>1. CASE q = p
      <4>1. IsFiniteSet(wrote'[q]) /\ Cardinality(wrote'[q]) <= OpBlocks
        BY <1>e, <2>2, <3>1, Zenon
      <4>2. pc'[q] \in InOp /\ pc'[q] \notin {"log_write", "record"}
        BY <1>e, <3>1, Zenon DEF InOp
      <4> QED BY <1>e, <2>1, <2>3, <3>1, <4>1, <4>2, Zenon
    <3>2. CASE q # p
      <4>1. pc'[q] = pc[q] /\ bp'[q] = bp[q] /\ wrote'[q] = wrote[q]
        BY <1>d, <3>2, Zenon
      <4>2. pc[q] \in InOp => wrote[q] \subseteq Listed(lh')
        BY <2>3, ZenonT(30) DEF LogInv, SpaceInv
      <4> QED BY <4>1, <4>2, Zenon DEF LogInv, SpaceInv
    <3> QED BY <3>1, <3>2, SMTT(30)
  <2> QED BY <2>6, <2>7, Zenon DEF SpaceInv
<1> QED BY <1>1, <1>2, <1>3, <1>4, <1>5, <1>6, <1>7, <1>8, <1>9, <1>10, <1>11, Zenon DEF LogInv

\* end_op preserves the invariant.
LEMMA Inv_end_op ==
  ASSUME LogInv, NEW p \in Procs, end_op(p)
  PROVE  LogInv'
<1> DEFINE last == outstanding - 1 = 0
<1>a. /\ pc[p] = "op" /\ outstanding' = outstanding - 1
      /\ wrote' = [wrote EXCEPT ![p] = {}]
      /\ UNCHANGED <<disk, bcache, lh, bp, tail>>
      /\ panicked' = committing
  BY Zenon DEF end_op
<1>b. /\ committing' = (committing \/ last)
      /\ pc' = IF last THEN [pc EXCEPT ![p] = IF lh = <<>> THEN "end_commit" ELSE "write_log"]
                       ELSE wakeup([pc EXCEPT ![p] = "idle"])
  BY Zenon DEF end_op, LogInv, TypeOK
<1>c. \A q \in Procs : q # p => \/ pc'[q] = pc[q] /\ (last \/ pc[q] # "sleep")
                                \/ pc[q] = "sleep" /\ pc'[q] = "begin_op" /\ ~last
  BY <1>b, Zenon DEF LogInv, TypeOK, wakeup
<1>d. pc'[p] = IF ~last THEN "idle" ELSE IF lh = <<>> THEN "end_commit" ELSE "write_log"
  BY <1>b, Zenon DEF LogInv, TypeOK, wakeup
<1>e. p \in Active /\ ~committing
  BY <1>a, Zenon DEF LogInv, ModeInv, Active, InOp
<1>f. Active' = Active \ {p}
  BY <1>a, <1>c, <1>d, Zenon DEF Active, InOp
<1>g. \A q \in Procs : pc[q] \notin Committing /\ ~Boot(q) /\ pc[q] # "read_head"
  BY <1>a, <1>e, Zenon DEF LogInv, ModeInv, Boot, Committing
<1>h. \A q \in Procs : pc'[q] \in PcValues
  BY <1>b, <1>c, <1>d, Zenon DEF LogInv, TypeOK, PcValues, InOp, Committing
<1>i. outstanding' \in Nat /\ IsFiniteSet(Active') /\ outstanding' = Cardinality(Active')
  <2>1. IsFiniteSet(Active) /\ outstanding = Cardinality(Active) /\ outstanding \in Nat
    BY Zenon DEF LogInv, CountInv, TypeOK
  <2>2. IsFiniteSet(Active \ {p}) /\ Cardinality(Active \ {p}) = outstanding - 1
    BY <1>e, <2>1, FS_RemoveElement, Zenon
  <2>3. IsFiniteSet(Active') /\ Cardinality(Active') = outstanding - 1
    BY <1>f, <2>2, Zenon
  <2>4. outstanding - 1 \in Nat
    BY <2>3, FS_CardinalityType, Zenon
  <2> QED BY <1>a, <2>3, <2>4, Zenon
<1>j. last => Active' = {}
  BY <1>a, <1>i, FS_EmptySet, Zenon
<1> HIDE DEF last
<1>1. TypeOK'
  <2>1. pc' \in [Procs -> PcValues]
    BY <1>b, <1>h, Zenon DEF LogInv, TypeOK, wakeup
  <2>2. committing' \in BOOLEAN /\ panicked' \in BOOLEAN
    BY <1>a, <1>b, Zenon DEF LogInv, TypeOK
  <2> QED BY <1>a, <1>i, <2>1, <2>2, Zenon DEF LogInv, TypeOK
<1>2. CountInv'
  BY <1>i, Zenon DEF CountInv
<1>3. ModeInv'
  <2>1. \A q \in Procs : ~Boot(q)' /\ pc'[q] # "off"
    <3>1. \A q \in Procs : pc[q] # "off"
      BY <1>g, Zenon DEF LogInv, ModeInv
    <3> QED BY <1>c, <1>d, <1>g, <3>1, Zenon DEF Boot, Committing
  <2>2. \A q \in Procs : pc'[q] \in Committing <=> last /\ q = p
    BY <1>c, <1>d, <1>g, Zenon DEF Committing
  <2> QED BY <1>b, <1>e, <1>j, <2>1, <2>2, Zenon DEF ModeInv
<1>4. BufInv'
  BY <1>a, <1>c, <1>d, Zenon DEF LogInv, BufInv
<1>5. DirtyInv'
  <2>1. \A q \in Procs : pc'[q] \notin {"install_trans", "read_head"}
    BY <1>c, <1>d, <1>g, Zenon DEF Committing
  <2>2. \A q \in Procs : pc[q] \notin {"install_trans", "read_head"}
    BY <1>g, Zenon DEF Committing
  <2> QED BY <1>a, <2>1, <2>2, Zenon DEF LogInv, DirtyInv, Boot
<1>6. CleanInv'
  <2>1. \A b \in Blocks : Locked(b)' <=> Locked(b)
    BY <1>a, <1>c, <1>d, Zenon DEF Locked
  <2> QED BY <1>a, <2>1, Zenon DEF LogInv, CleanInv
<1>7. HeadInv'
  <2>1. \A q \in Procs : pc'[q] \notin {"install_trans", "read_head"}
    BY <1>c, <1>d, <1>g, Zenon DEF Committing
  <2>2. \A q \in Procs : pc[q] \notin {"install_trans", "read_head"}
    BY <1>g, Zenon DEF Committing
  <2> QED BY <1>a, <2>1, <2>2, SMTT(30) DEF LogInv, HeadInv, Injective
<1>8. LogdInv'
  <2>1. \A q \in Procs : tail[q] = 0
    BY <1>g, Zenon DEF LogInv, LogdInv, Committing
  <2>2. \A q \in Procs : pc'[q] \notin {"install_trans", "write_head"}
                        /\ (pc'[q] = "write_log" => lh # <<>>)
    BY <1>c, <1>d, <1>g, Zenon DEF Committing
  <2>3. lh # <<>> => 0 < Len(lh)
    BY DEF LogInv, TypeOK
  <2> QED BY <1>a, <2>1, <2>2, <2>3, SMTT(30) DEF LogdInv
<1>9. EmptyInv'
  <2>1. outstanding' = 0 => last
    BY <1>a, Zenon DEF last
  <2>2. \A q \in Procs : pc'[q] \in {"end_commit", "read_head"} => lh = <<>>
    BY <1>c, <1>d, <1>g, Zenon DEF Committing
  <2> QED BY <1>a, <1>b, <2>1, <2>2, Zenon DEF EmptyInv
<1>10. NoLostWakeup'
  <2>1. CASE last
    BY <1>b, <1>d, <2>1, Zenon DEF NoLostWakeup, CanBegin, Committing
  <2>2. CASE ~last
    BY <1>c, <1>d, <2>2, Zenon DEF NoLostWakeup
  <2> QED BY <2>1, <2>2, Zenon
<1>11. SpaceInv'
  <2>1. \A q \in Procs : q # p => wrote'[q] = wrote[q] /\ (pc'[q] \in InOp <=> pc[q] \in InOp)
    BY <1>a, <1>c, Zenon DEF LogInv, TypeOK, InOp
  <2>2. pc'[p] \notin InOp /\ wrote'[p] = {}
    BY <1>a, <1>d, Zenon DEF LogInv, TypeOK, InOp
  <2>3. Cardinality(Tokens') <= Cardinality(Tokens) /\ Cardinality(Tokens') \in Nat
    <3>1. \A q \in Procs : pc'[q] \in InOp => pc[q] \in InOp /\ wrote'[q] = wrote[q]
      BY <2>1, <2>2, Zenon
    <3>2. \A q \in Procs : pc'[q] \in InOp => pc[q] \in InOp /\ Cardinality(wrote'[q]) = Cardinality(wrote[q])
      BY <3>1, Zenon
    <3>3. Tokens' \in SUBSET Tokens
      BY <3>2, Zenon DEF Tokens, TokensOf
    <3>4. IsFiniteSet(Tokens) /\ Cardinality(Tokens') \in Nat
      BY TokensFinite, Zenon DEF Tokens
    <3> QED BY <3>3, <3>4, FS_Subset, Zenon
  <2>4. Len(lh') + Cardinality(Tokens') <= LOGSIZE
    <3>1. Cardinality(Tokens) \in Nat /\ Len(lh) \in Nat /\ lh' = lh
      BY <1>a, TokensFinite DEF Tokens, LogInv, TypeOK
    <3> QED BY <2>3, <3>1 DEF LogInv, SpaceInv
  <2>5. ASSUME NEW q \in Procs
        PROVE  /\ IsFiniteSet(wrote'[q]) /\ Cardinality(wrote'[q]) <= OpBlocks
               /\ pc'[q] \in InOp => wrote'[q] \subseteq Listed(lh')
               /\ pc'[q] \notin InOp => wrote'[q] = {}
               /\ pc'[q] \in {"log_write", "record"} => Cardinality(wrote'[q] \cup {bp'[q]}) <= OpBlocks
    <3>1. CASE q = p
      <4>1. IsFiniteSet({}) /\ Cardinality({}) <= OpBlocks
        BY FS_EmptySet
      <4>2. pc'[q] \notin {"log_write", "record"}
        BY <2>2, <3>1, Zenon DEF InOp
      <4> QED BY <2>2, <3>1, <4>1, <4>2, Zenon
    <3>2. CASE q # p
      <4>1. bp' = bp /\ lh' = lh /\ wrote'[q] = wrote[q] /\ (pc'[q] \in InOp <=> pc[q] \in InOp)
        BY <1>a, <2>1, <3>2, Zenon
      <4>2. pc'[q] \in {"log_write", "record"} => pc[q] \in {"log_write", "record"}
        BY <1>c, <3>2, Zenon
      <4> QED BY <4>1, <4>2, Zenon DEF LogInv, SpaceInv
    <3> QED BY <3>1, <3>2, Zenon
  <2> QED BY <2>4, <2>5, Zenon DEF SpaceInv
<1> QED BY <1>1, <1>2, <1>3, <1>4, <1>5, <1>6, <1>7, <1>8, <1>9, <1>10, <1>11, Zenon DEF LogInv

-----------------------------------------------------------------------------
(***************************************************************************)
(* The commit, crash and recovery steps of log.c preserve LogInv, so it    *)
(* holds in every reachable state.                                         *)
(***************************************************************************)
\* write_log preserves the invariant.
LEMMA Inv_write_log ==
  ASSUME LogInv, NEW p \in Procs, write_log(p)
  PROVE  LogInv'
<1> DEFINE i == tail[p] + 1
           b == lh[i]
<1>a. /\ pc[p] = "write_log"
      /\ logd' = [logd EXCEPT ![i] = Data(b)] /\ cache' = [cache EXCEPT ![b] = Data(b)]
      /\ UNCHANGED <<home, head, dirty, lh, outstanding, committing, bp, wrote, panicked>>
  BY Zenon DEF write_log
<1>b. \/ i = Len(lh) /\ pc' = [pc EXCEPT ![p] = "write_head"] /\ tail' = [tail EXCEPT ![p] = 0]
      \/ i # Len(lh) /\ pc' = pc /\ tail' = [tail EXCEPT ![p] = i]
  BY Zenon DEF write_log
<1>c. /\ lh \in Seq(Blocks) /\ Len(lh) \in Nat /\ tail[p] \in Nat
      /\ i \in 1..Len(lh) /\ b \in Blocks
  BY <1>a DEF LogInv, TypeOK, LogdInv
<1>d. committing /\ \A q \in Procs : q # p => pc[q] \notin Committing /\ pc[q] \notin InOp /\ pc[q] # "read_head"
  BY <1>a, Zenon DEF LogInv, ModeInv, Active, Boot, Committing
<1>e. \A j \in 1..Len(lh) : lh[j] \in dirty /\ cache[lh[j]] # NoBuf
  <2>1. \A q \in Procs : pc[q] \notin {"install_trans", "read_head"}
    BY <1>a, <1>d, Zenon DEF Committing
  <2>2. \A j \in 1..Len(lh) : lh[j] \in Blocks
    BY <1>c
  <2> QED BY <1>c, <2>1, <2>2 DEF LogInv, DirtyInv, ListedAfter
<1>f. cache' = cache /\ logd' = [logd EXCEPT ![i] = cache[b]]
  BY <1>a, <1>c, <1>e, Zenon DEF Data, LogInv, TypeOK
<1>g. \A q \in Procs : q # p => pc'[q] = pc[q] /\ tail'[q] = tail[q]
  BY <1>b, Zenon DEF LogInv, TypeOK
<1>h. \/ pc'[p] = "write_log" /\ tail'[p] = i /\ i < Len(lh)
      \/ pc'[p] = "write_head" /\ tail'[p] = 0 /\ i = Len(lh)
  BY <1>a, <1>b, <1>c DEF LogInv, TypeOK
<1>i. Len(lh) <= LOGSIZE
  BY <1>c, TokensFinite DEF LogInv, SpaceInv, Tokens
<1> HIDE DEF i, b
<1>1. TypeOK'
  <2>1. logd' \in [1..LOGSIZE -> Vals]
    BY <1>c, <1>e, <1>f, <1>i, Zenon DEF LogInv, TypeOK, b
  <2>2. tail' \in [Procs -> Nat] /\ pc' \in [Procs -> PcValues]
    <3>1. i \in Nat
      BY <1>c
    <3>2. tail' \in [Procs -> Nat]
      BY <1>b, <3>1 DEF LogInv, TypeOK
    <3>3. pc' \in [Procs -> PcValues]
      BY <1>b, Zenon DEF LogInv, TypeOK, PcValues, Committing
    <3> QED BY <3>2, <3>3, Zenon
  <2> QED BY <1>a, <1>f, <2>1, <2>2, Zenon DEF LogInv, TypeOK
<1>2. CountInv'
  <2>1. Active' = Active
    BY <1>a, <1>g, <1>h, Zenon DEF Active, InOp
  <2> QED BY <1>a, <2>1, Zenon DEF LogInv, CountInv
<1>3. ModeInv'
  <2>1. Active' = Active
    BY <1>a, <1>g, <1>h, Zenon DEF Active, InOp
  <2>2. \A q \in Procs : pc'[q] \in Committing <=> pc[q] \in Committing
    BY <1>a, <1>g, <1>h, Zenon DEF Committing
  <2>3. \A q \in Procs : pc'[q] # "read_head" /\ pc'[q] # "off"
    BY <1>a, <1>d, <1>g, <1>h, Zenon DEF LogInv, ModeInv, Boot
  <2> QED BY <1>a, <1>d, <2>1, <2>2, <2>3, Zenon DEF LogInv, ModeInv, Boot
<1>4. BufInv'
  BY <1>a, <1>f, <1>g, <1>h DEF LogInv, BufInv
<1>5. DirtyInv'
  <2>1. \A q \in Procs : pc[q] \notin {"install_trans", "read_head"} /\ pc'[q] \notin {"install_trans", "read_head"}
    BY <1>a, <1>d, <1>g, <1>h, Zenon DEF Committing
  <2> QED BY <1>a, <1>f, <2>1, Zenon DEF LogInv, DirtyInv, Boot
<1>6. CleanInv'
  <2>1. \A c \in Blocks : Locked(c)' <=> Locked(c)
    BY <1>a, <1>g, <1>h, Zenon DEF Locked
  <2> QED BY <1>a, <1>f, <2>1, Zenon DEF LogInv, CleanInv
<1>7. HeadInv'
  <2>1. \A q \in Procs : pc[q] \notin {"install_trans", "read_head"} /\ pc'[q] \notin {"install_trans", "read_head"}
    BY <1>a, <1>d, <1>g, <1>h, Zenon DEF Committing
  <2> QED BY <1>a, <2>1 DEF LogInv, HeadInv, Injective
<1>8. LogdInv'
  <2>1. \A j \in 1..i : logd'[j] = cache[lh[j]]
    <3>1. \A j \in 1..tail[p] : logd[j] = cache[lh[j]]
      BY <1>a, Zenon DEF LogInv, LogdInv
    <3>2. logd'[i] = cache[lh[i]] /\ \A j \in 1..tail[p] : logd'[j] = logd[j]
      BY <1>c, <1>f, <1>i DEF LogInv, TypeOK, i, b
    <3>3. \A j \in 1..i : j = i \/ j \in 1..tail[p]
      BY <1>c DEF i
    <3> QED BY <3>1, <3>2, <3>3, Zenon
  <2>2. \A q \in Procs : q # p => pc'[q] \notin {"write_log", "write_head", "install_trans"} /\ tail'[q] = 0
    BY <1>d, <1>g, Zenon DEF LogInv, LogdInv, Committing
  <2> QED BY <1>a, <1>f, <1>h, <2>1, <2>2 DEF LogdInv
<1>9. EmptyInv'
  BY <1>a, <1>d, <1>g, <1>h, Zenon DEF LogInv, EmptyInv, Committing
<1>10. NoLostWakeup'
  BY <1>a, <1>d, <1>g, <1>h, Zenon DEF LogInv, NoLostWakeup, CanBegin, Committing
<1>11. SpaceInv'
  BY <1>a, <1>g, <1>h, SpaceStable, Zenon DEF LogInv, InOp
<1> QED BY <1>1, <1>2, <1>3, <1>4, <1>5, <1>6, <1>7, <1>8, <1>9, <1>10, <1>11, Zenon DEF LogInv

\* write_head preserves the invariant.
LEMMA Inv_write_head ==
  ASSUME LogInv, NEW p \in Procs, write_head(p)
  PROVE  LogInv'
<1>a. /\ pc[p] = "write_head" /\ head' = lh /\ pc' = [pc EXCEPT ![p] = "install_trans"]
      /\ UNCHANGED <<home, logd, bcache, lh, outstanding, committing, local, tail, panicked>>
  BY Zenon DEF write_head
<1>b. committing /\ \A q \in Procs : q # p => pc[q] \notin Committing /\ pc[q] \notin InOp /\ pc[q] # "read_head"
  BY <1>a, Zenon DEF LogInv, ModeInv, Active, Boot, Committing
<1>c. pc'[p] = "install_trans" /\ \A q \in Procs : q # p => pc'[q] = pc[q]
  BY <1>a, Zenon DEF LogInv, TypeOK
<1>d. tail[p] = 0 /\ lh \in Seq(Blocks) /\ Len(lh) \in Nat
  BY <1>a DEF LogInv, LogdInv, TypeOK
<1>1. TypeOK'
  BY <1>a, Zenon DEF LogInv, TypeOK, PcValues, Committing
<1>2. CountInv'
  <2>1. Active' = Active
    BY <1>a, <1>c, Zenon DEF Active, InOp
  <2> QED BY <1>a, <2>1, Zenon DEF LogInv, CountInv
<1>3. ModeInv'
  <2>1. Active' = Active
    BY <1>a, <1>c, Zenon DEF Active, InOp
  <2>2. \A q \in Procs : pc'[q] \in Committing <=> pc[q] \in Committing
    BY <1>a, <1>c, Zenon DEF Committing
  <2>3. \A q \in Procs : pc'[q] # "read_head" /\ pc'[q] # "off"
    BY <1>a, <1>b, <1>c, Zenon DEF LogInv, ModeInv, Boot
  <2> QED BY <1>a, <1>b, <2>1, <2>2, <2>3, Zenon DEF LogInv, ModeInv, Boot
<1>4. BufInv'
  BY <1>a, <1>c, Zenon DEF LogInv, BufInv
<1>5. DirtyInv'
  <2>1. \A b \in Blocks : b \in dirty <=> ListedAfter(b, lh, 0)
    BY <1>a, <1>b, <1>c, Zenon DEF LogInv, DirtyInv, Committing
  <2>2. \A q \in Procs : pc'[q] = "install_trans" => q = p
    BY <1>b, <1>c, Zenon DEF Committing
  <2>3. \A q \in Procs : ~Boot(q)'
    BY <1>a, <1>b, <1>c, Zenon DEF Boot, Committing
  <2>4. \A b \in dirty' : cache'[b] # NoBuf
    BY <1>a, Zenon DEF LogInv, DirtyInv
  <2> QED BY <1>a, <1>c, <1>d, <2>1, <2>2, <2>3, <2>4, Zenon DEF DirtyInv
<1>6. CleanInv'
  <2>1. \A c \in Blocks : Locked(c)' <=> Locked(c)
    BY <1>a, <1>c, Zenon DEF Locked
  <2> QED BY <1>a, <2>1, Zenon DEF LogInv, CleanInv
<1>7. HeadInv'
  <2>1. Len(lh) <= LOGSIZE
    BY <1>d, TokensFinite DEF LogInv, SpaceInv, Tokens
  <2> QED BY <1>a, <1>c, <2>1, Zenon DEF LogInv, HeadInv, Injective
<1>8. LogdInv'
  <2>1. \A q \in Procs : q # p => pc'[q] \notin {"write_log", "write_head", "install_trans"} /\ tail'[q] = 0
    BY <1>a, <1>b, <1>c DEF LogInv, LogdInv, Committing
  <2>2. \A j \in 1..Len(lh) : logd[j] = cache[lh[j]]
    BY <1>a, Zenon DEF LogInv, LogdInv
  <2> QED BY <1>a, <1>c, <1>d, <2>1, <2>2 DEF LogdInv
<1>9. EmptyInv'
  BY <1>a, <1>b, <1>c, Zenon DEF LogInv, EmptyInv, Committing
<1>10. NoLostWakeup'
  BY <1>a, <1>b, <1>c, Zenon DEF LogInv, NoLostWakeup, CanBegin, Committing
<1>11. SpaceInv'
  BY <1>a, <1>c, SpaceStable, Zenon DEF LogInv, InOp
<1> QED BY <1>1, <1>2, <1>3, <1>4, <1>5, <1>6, <1>7, <1>8, <1>9, <1>10, <1>11, Zenon DEF LogInv

\* install_trans preserves the invariant.
LEMMA Inv_install_trans ==
  ASSUME LogInv, NEW p \in Procs, install_trans(p)
  PROVE  LogInv'
<1> DEFINE i == tail[p] + 1
           b == lh[i]
<1>a. /\ pc[p] = "install_trans" /\ i <= Len(lh)
      /\ home' = [home EXCEPT ![b] = logd[i]] /\ cache' = [cache EXCEPT ![b] = logd[i]]
      /\ dirty' = dirty \ {b} /\ tail' = [tail EXCEPT ![p] = i]
      /\ UNCHANGED <<logd, head, lh, outstanding, committing, pc, bp, wrote, panicked>>
  BY Zenon DEF install_trans
<1>b. /\ lh \in Seq(Blocks) /\ Len(lh) \in Nat /\ tail[p] \in Nat
      /\ i \in 1..Len(lh) /\ b \in Blocks
      /\ \A j \in 1..Len(lh) : lh[j] \in Blocks
  BY <1>a DEF LogInv, TypeOK
<1>c. \A q \in Procs : q # p => pc[q] \notin Committing /\ pc[q] \notin InOp /\ pc[q] # "read_head"
  BY <1>a, Zenon DEF LogInv, ModeInv, Active, Boot, Committing, InOp
<1>d. logd[i] \in Vals
  <2>1. Len(lh) <= LOGSIZE
    BY <1>b, TokensFinite DEF LogInv, SpaceInv, Tokens
  <2> QED BY <1>b, <2>1 DEF LogInv, TypeOK
<1>e. tail'[p] = i /\ \A q \in Procs : q # p => tail'[q] = tail[q]
  BY <1>a, Zenon DEF LogInv, TypeOK
<1>f. \A j \in 1..Len(lh) : lh[j] = b => j = i
  BY <1>b, Zenon DEF LogInv, HeadInv, Injective
<1>g. \A c \in Blocks : /\ home'[c] = IF c = b THEN logd[i] ELSE home[c]
                        /\ cache'[c] = IF c = b THEN logd[i] ELSE cache[c]
  BY <1>a, Zenon DEF LogInv, TypeOK
<1> HIDE DEF i, b
<1>1. TypeOK'
  <2>1. i \in Nat
    BY <1>b
  <2>2. home' \in [Blocks -> Vals] /\ cache' \in [Blocks -> Vals \cup {NoBuf}]
    BY <1>a, <1>b, <1>d, Zenon DEF LogInv, TypeOK
  <2>3. dirty' \in SUBSET Blocks /\ tail' \in [Procs -> Nat]
    BY <1>a, <2>1, Zenon DEF LogInv, TypeOK
  <2> QED BY <1>a, <2>2, <2>3, Zenon DEF LogInv, TypeOK
<1>2. CountInv'
  BY <1>a, Zenon DEF LogInv, CountInv, Active
<1>3. ModeInv'
  BY <1>a, Zenon DEF LogInv, ModeInv, Boot, Active
<1>4. BufInv'
  BY <1>a, <1>c, Zenon DEF LogInv, BufInv, InOp
<1>5. DirtyInv'
  <2>1. \A c \in dirty' : cache'[c] # NoBuf
    BY <1>a, <1>g, Zenon DEF LogInv, TypeOK, DirtyInv
  <2>2. \A q \in Procs : pc'[q] = "install_trans" => q = p
    BY <1>a, <1>c, Zenon DEF Committing
  <2>3. committing => \A c \in Blocks : c \in dirty' <=> ListedAfter(c, lh, i)
    <3>1. SUFFICES ASSUME committing, NEW c \in Blocks
                   PROVE  c \in dirty' <=> ListedAfter(c, lh, i)
      BY Zenon
    <3>2. c \in dirty <=> \E j \in 1..Len(lh) : tail[p] < j /\ lh[j] = c
      BY <1>a, <3>1, Zenon DEF LogInv, DirtyInv, ListedAfter
    <3>3. \A j \in 1..Len(lh) : tail[p] < j <=> i <= j
      BY <1>b DEF i
    <3>4. ASSUME c \in dirty' PROVE ListedAfter(c, lh, i)
      BY <1>a, <1>b, <3>2, <3>3, <3>4 DEF ListedAfter, b
    <3>5. ASSUME ListedAfter(c, lh, i) PROVE c \in dirty'
      BY <1>a, <1>b, <1>f, <3>2, <3>3, <3>5 DEF ListedAfter
    <3> QED BY <3>4, <3>5, Zenon
  <2>4. \A q \in Procs : Boot(q)' => dirty' = {}
    BY <1>a, Zenon DEF LogInv, DirtyInv, Boot
  <2> QED BY <1>a, <1>e, <2>1, <2>2, <2>3, <2>4, Zenon DEF DirtyInv
<1>6. CleanInv'
  <2>1. \A c \in Blocks : ~Locked(c)
    BY <1>a, <1>c, Zenon DEF Locked, InOp
  <2> QED BY <1>a, <1>g, <2>1 DEF LogInv, CleanInv
<1>7. HeadInv'
  BY <1>a DEF LogInv, HeadInv, Injective
<1>8. LogdInv'
  <2>1. \A q \in Procs : q # p => pc'[q] \notin {"write_log", "write_head", "install_trans"} /\ tail'[q] = 0
    BY <1>a, <1>c, <1>e, Zenon DEF LogInv, LogdInv, Committing
  <2>2. \A j \in 1..i : home'[lh[j]] = logd[j]
    <3>1. SUFFICES ASSUME NEW j \in 1..i PROVE home'[lh[j]] = logd[j]
      BY Zenon
    <3>2. CASE j = i
      BY <1>b, <1>g, <3>2, Zenon DEF b
    <3>3. CASE j # i
      <4>1. j \in 1..tail[p] /\ j \in 1..Len(lh)
        BY <1>b, <3>3 DEF i
      <4>2. home[lh[j]] = logd[j]
        BY <1>a, <4>1, Zenon DEF LogInv, LogdInv
      <4> QED BY <1>b, <1>f, <1>g, <3>3, <4>1, <4>2, Zenon
    <3> QED BY <3>2, <3>3, Zenon
  <2>3. committing => \A j \in (i + 1)..Len(lh) : cache'[lh[j]] = logd[j]
    <3>1. SUFFICES ASSUME committing, NEW j \in (i + 1)..Len(lh) PROVE cache'[lh[j]] = logd[j]
      BY Zenon
    <3>2. j \in (tail[p] + 1)..Len(lh) /\ j \in 1..Len(lh) /\ j # i
      BY <1>b DEF i
    <3>3. cache[lh[j]] = logd[j]
      BY <1>a, <3>1, <3>2, Zenon DEF LogInv, LogdInv
    <3> QED BY <1>b, <1>f, <1>g, <3>2, <3>3, Zenon
  <2> QED BY <1>a, <1>b, <1>e, <2>1, <2>2, <2>3 DEF LogdInv
<1>9. EmptyInv'
  BY <1>a, Zenon DEF LogInv, EmptyInv, Recovering
<1>10. NoLostWakeup'
  BY <1>a, Zenon DEF LogInv, NoLostWakeup, CanBegin, Reserved
<1>11. SpaceInv'
  BY <1>a, SpaceStable, Zenon DEF LogInv
<1> QED BY <1>1, <1>2, <1>3, <1>4, <1>5, <1>6, <1>7, <1>8, <1>9, <1>10, <1>11, Zenon DEF LogInv

\* Filling or dropping a clean buffer that nobody has locked preserves the
\* invariant: bread() and the recycling of bget() do nothing else.
LEMMA CacheStep ==
  ASSUME LogInv, NEW b \in Blocks, NEW x \in {NoBuf, home[b]},
         cache' = [cache EXCEPT ![b] = x], b \notin dirty, ~Locked(b),
         UNCHANGED <<home, logd, head, dirty, lh, outstanding, committing, pc, bp, wrote,
                     tail, panicked>>
  PROVE  LogInv'
<1>1. cache' \in [Blocks -> Vals \cup {NoBuf}] /\ \A c \in Blocks : c # b => cache'[c] = cache[c]
  BY Zenon DEF LogInv, TypeOK
<1>2. cache'[b] = x
  BY Zenon DEF LogInv, TypeOK
<1>3. \A p \in Procs : pc[p] \in {"log_write", "record"} => bp[p] # b
  BY Zenon DEF Locked
<1>4. TypeOK'
  BY <1>1, Zenon DEF LogInv, TypeOK
<1>5. CountInv' /\ ModeInv'
  <2>1. Active' = Active
    BY Zenon DEF Active
  <2> QED BY <2>1, Zenon DEF LogInv, CountInv, ModeInv, Boot
<1>6. BufInv'
  BY <1>1, <1>3, Zenon DEF LogInv, BufInv
<1>7. DirtyInv'
  <2>1. \A c \in dirty' : cache'[c] # NoBuf
    BY <1>1, SMTT(30) DEF LogInv, DirtyInv, TypeOK
  <2> QED BY <2>1 DEF LogInv, DirtyInv, ListedAfter, Boot
<1>8. CleanInv'
  <2>1. \A c \in Blocks : Locked(c)' <=> Locked(c)
    BY Zenon DEF Locked
  <2> QED BY <1>1, <1>2, <2>1, Zenon DEF LogInv, CleanInv
<1>9. HeadInv'
  BY DEF LogInv, HeadInv, Injective
<1>10. LogdInv'
  <2>1. ASSUME NEW p \in Procs, pc[p] \in {"write_log", "write_head"}, NEW i \in 1..Len(lh)
        PROVE  cache'[lh[i]] = cache[lh[i]]
    <3>1. \A q \in Procs : pc[q] \notin {"install_trans", "read_head"}
      BY <2>1, Zenon DEF LogInv, ModeInv, Boot, Committing
    <3>2. lh[i] \in Blocks
      BY DEF LogInv, TypeOK
    <3>3. ListedAfter(lh[i], lh, 0)
      BY DEF ListedAfter
    <3> QED BY <1>1, <3>1, <3>2, <3>3, Zenon DEF LogInv, DirtyInv
  <2>2. ASSUME NEW p \in Procs, pc[p] = "install_trans", committing, NEW i \in (tail[p] + 1)..Len(lh)
        PROVE  cache'[lh[i]] = cache[lh[i]]
    <3>1. tail[p] \in Nat /\ i \in 1..Len(lh) /\ tail[p] < i /\ lh[i] \in Blocks
      BY DEF LogInv, TypeOK
    <3>2. ListedAfter(lh[i], lh, tail[p])
      BY <3>1, Zenon DEF ListedAfter
    <3> QED BY <1>1, <2>2, <3>1, <3>2 DEF LogInv, DirtyInv
  <2>3. \A p \in Procs : pc[p] = "write_log" =>
          /\ tail[p] < Len(lh)
          /\ \A i \in 1..tail[p] : logd[i] = cache[lh[i]]
    BY Zenon DEF LogInv, LogdInv
  <2>4. \A p \in Procs : pc[p] = "write_log" => \A i \in 1..tail[p] : logd[i] = cache'[lh[i]]
    <3> SUFFICES ASSUME NEW p \in Procs, pc[p] = "write_log", NEW i \in 1..tail[p]
                 PROVE  logd[i] = cache'[lh[i]]
      BY Zenon
    <3>1. i \in 1..Len(lh) /\ logd[i] = cache[lh[i]]
      BY <2>3 DEF LogInv, TypeOK
    <3> QED BY <2>1, <3>1, Zenon
  <2>5. \A p \in Procs : pc[p] = "write_head" => \A i \in 1..Len(lh) : logd[i] = cache'[lh[i]]
    BY <2>1, Zenon DEF LogInv, LogdInv
  <2>6. \A p \in Procs : pc[p] = "install_trans" /\ committing =>
          \A i \in (tail[p] + 1)..Len(lh) : cache'[lh[i]] = logd[i]
    BY <2>2 DEF LogInv, LogdInv
  <2>7. \A p \in Procs : /\ pc[p] = "install_trans" =>
                              tail[p] <= Len(lh) /\ \A i \in 1..tail[p] : home[lh[i]] = logd[i]
                         /\ pc[p] \notin {"write_log", "install_trans"} => tail[p] = 0
    BY Zenon DEF LogInv, LogdInv
  <2> QED BY <2>3, <2>4, <2>5, <2>6, <2>7, SMTT(30) DEF LogdInv
<1>11. EmptyInv' /\ NoLostWakeup'
  BY Zenon DEF LogInv, EmptyInv, NoLostWakeup, Recovering, CanBegin, Reserved
<1>12. SpaceInv'
  BY SpaceStable, Zenon DEF LogInv
<1> QED BY <1>4, <1>5, <1>6, <1>7, <1>8, <1>9, <1>10, <1>11, <1>12, Zenon DEF LogInv

\* bread preserves the invariant.
LEMMA Inv_bread ==
  ASSUME LogInv, NEW b \in Blocks, bread(b)
  PROVE  LogInv'
<1>1. b \notin dirty /\ ~Locked(b)
  BY Zenon DEF bread, LogInv, DirtyInv, BufInv, Locked
<1> QED BY <1>1, CacheStep, Zenon DEF bread

\* bget_recycle preserves the invariant.
LEMMA Inv_bget_recycle ==
  ASSUME LogInv, NEW b \in Blocks, bget_recycle(b)
  PROVE  LogInv'
BY CacheStep, Zenon DEF bget_recycle, Recyclable

\* clear preserves the invariant.
LEMMA Inv_clear ==
  ASSUME LogInv, NEW p \in Procs, clear(p)
  PROVE  LogInv'
<1>a. /\ pc[p] = "install_trans" /\ tail[p] = Len(lh) /\ lh' = <<>> /\ head' = <<>>
      /\ tail' = [tail EXCEPT ![p] = 0]
      /\ pc' = IF committing THEN [pc EXCEPT ![p] = "end_commit"] ELSE [q \in Procs |-> "idle"]
      /\ UNCHANGED <<home, logd, cache, dirty, outstanding, committing, bp, wrote, panicked>>
  BY Zenon DEF clear
<1>b. \A q \in Procs : q # p => pc[q] \notin Committing /\ pc[q] \notin {"read_head"} /\ pc[q] \notin InOp
  BY <1>a, Zenon DEF LogInv, ModeInv, Boot, Active, Committing, InOp
<1>c. \A q \in Procs : pc'[q] \notin InOp /\ pc'[q] \notin {"read_head", "install_trans"}
  BY <1>a, <1>b, Zenon DEF LogInv, TypeOK, Committing, InOp
<1>d. committing => pc'[p] = "end_commit" /\ \A q \in Procs : q # p => pc'[q] = pc[q]
  BY <1>a, Zenon DEF LogInv, TypeOK
<1>e. ~committing => \A q \in Procs : pc'[q] = "idle"
  BY <1>a, Zenon
<1>f. dirty = {}
  <2>1. CASE committing
    <3>1. \A b \in Blocks : ~ListedAfter(b, lh, tail[p])
      BY <1>a DEF ListedAfter, LogInv, TypeOK
    <3> QED BY <1>a, <2>1, <3>1, Zenon DEF LogInv, DirtyInv, TypeOK
  <2> QED BY <1>a, <2>1, Zenon DEF LogInv, DirtyInv, Boot
<1>g. Active = {} /\ Active' = {}
  BY <1>a, <1>b, <1>c, Zenon DEF Active, InOp
<1>h. \A q \in Procs : tail'[q] = 0
  BY <1>a, <1>b, Zenon DEF LogInv, TypeOK, LogdInv, Committing
<1>1. TypeOK'
  <2>1. pc' \in [Procs -> PcValues]
    BY <1>a, Zenon DEF LogInv, TypeOK, PcValues, Committing
  <2>2. tail' \in [Procs -> Nat] /\ lh' \in Seq(Blocks) /\ head' \in Seq(Blocks)
    BY <1>a DEF LogInv, TypeOK
  <2> QED BY <1>a, <2>1, <2>2, Zenon DEF LogInv, TypeOK
<1>2. CountInv'
  BY <1>a, <1>g, Zenon DEF LogInv, CountInv
<1>3. ModeInv'
  <2>1. CASE committing
    <3>1. \A q \in Procs : pc[q] # "off"
      BY <1>a, <1>b, <2>1, Zenon DEF LogInv, ModeInv, Boot, Committing
    <3> QED BY <1>a, <1>b, <1>c, <1>d, <1>g, <2>1, <3>1, Zenon DEF ModeInv, Boot, Committing
  <2>2. CASE ~committing
    BY <1>a, <1>e, <2>2, SMTT(30) DEF ModeInv, Boot, Committing
  <2> QED BY <2>1, <2>2, Zenon
<1>4. BufInv' /\ CleanInv'
  <2>1. \A q \in Procs : pc[q] \notin {"log_write", "record"} /\ pc'[q] \notin {"log_write", "record"}
    BY <1>a, <1>b, <1>c, Zenon DEF InOp
  <2>2. \A b \in Blocks : ~Locked(b)
    BY <2>1, Zenon DEF Locked
  <2>3. BufInv'
    BY <2>1, Zenon DEF BufInv
  <2> QED BY <1>a, <2>2, <2>3, Zenon DEF LogInv, CleanInv
<1>5. DirtyInv'
  <2>1. \A b \in Blocks : ~ListedAfter(b, lh', 0)
    BY <1>a DEF ListedAfter
  <2> QED BY <1>a, <1>c, <1>f, <2>1, Zenon DEF DirtyInv, Boot
<1>6. HeadInv' /\ LogdInv'
  <2>1. Len(lh') = 0 /\ Len(head') = 0 /\ \A q \in Procs : pc'[q] # "write_log"
    BY <1>a, <1>b, <1>d, <1>e, Zenon DEF Committing
  <2>2. HeadInv'
    BY <1>a, <1>c, <2>1 DEF HeadInv, Injective
  <2>3. LogdInv'
    BY <1>c, <1>h, <2>1 DEF LogdInv
  <2> QED BY <2>2, <2>3, Zenon
<1>7. EmptyInv'
  BY <1>a, Zenon DEF EmptyInv
<1>8. NoLostWakeup'
  <2>1. CASE committing
    BY <1>a, <1>d, <2>1, Zenon DEF NoLostWakeup, CanBegin, Committing
  <2>2. CASE ~committing
    BY <1>e, <2>2, Zenon DEF NoLostWakeup
  <2> QED BY <2>1, <2>2, Zenon
<1>9. SpaceInv'
  <2>1. lh' \in Seq(Blocks) /\ Len(lh') <= LOGSIZE
    BY <1>a
  <2>2. \A q \in Procs : wrote'[q] = {}
    BY <1>a, <1>b, Zenon DEF LogInv, SpaceInv, InOp
  <2> QED BY <1>c, <2>1, <2>2, SpaceEmpty, Zenon
<1> QED BY <1>1, <1>2, <1>3, <1>4, <1>5, <1>6, <1>7, <1>8, <1>9, Zenon DEF LogInv

\* end_commit preserves the invariant.
LEMMA Inv_end_commit ==
  ASSUME LogInv, NEW p \in Procs, end_commit(p)
  PROVE  LogInv'
<1>a. /\ pc[p] = "end_commit" /\ committing' = FALSE
      /\ pc' = wakeup([pc EXCEPT ![p] = "idle"])
      /\ UNCHANGED <<home, logd, head, cache, dirty, lh, outstanding, bp, wrote, tail, panicked>>
  BY Zenon DEF end_commit
<1>b. /\ committing /\ Active = {} /\ lh = <<>>
      /\ \A q \in Procs : q # p => pc[q] \notin Committing
      /\ \A q \in Procs : pc[q] \notin InOp /\ pc[q] \notin {"off", "read_head"}
  BY <1>a, Zenon DEF LogInv, ModeInv, Boot, Active, Committing, InOp, EmptyInv
<1>c. /\ pc' \in [Procs -> PcValues] /\ pc'[p] = "idle"
      /\ \A q \in Procs : q # p =>
           (pc'[q] = pc[q] /\ pc[q] # "sleep") \/ (pc'[q] = "begin_op" /\ pc[q] = "sleep")
  <2>1. \A q \in Procs : pc'[q] = IF q = p THEN "idle" ELSE IF pc[q] = "sleep" THEN "begin_op" ELSE pc[q]
    BY <1>a, Zenon DEF LogInv, TypeOK, wakeup
  <2>2. pc' = [q \in Procs |-> pc'[q]] /\ \A q \in Procs : pc[q] \in PcValues
    BY <1>a, Zenon DEF wakeup, LogInv, TypeOK
  <2>3. \A q \in Procs : pc'[q] \in PcValues
    BY <2>1, <2>2, Zenon DEF PcValues
  <2>4. pc' \in [Procs -> PcValues]
    BY <2>2, <2>3, Zenon
  <2>5. pc'[p] = "idle"
    BY <2>1, Zenon
  <2>6. ASSUME NEW q \in Procs, q # p
        PROVE  (pc'[q] = pc[q] /\ pc[q] # "sleep") \/ (pc'[q] = "begin_op" /\ pc[q] = "sleep")
    BY <2>1, <2>6, Zenon
  <2> QED BY <2>4, <2>5, <2>6, Zenon
<1>d. \A q \in Procs : /\ pc'[q] \notin Committing /\ pc'[q] \notin InOp
                       /\ pc'[q] \notin {"off", "read_head", "sleep"}
  BY <1>b, <1>c, SMTT(30) DEF Committing, InOp
<1>e. \A q \in Procs : tail[q] = 0
  BY <1>a, <1>b, Zenon DEF LogInv, LogdInv, Committing
<1>f. Active' = {}
  BY <1>d, Zenon DEF Active
<1>1. TypeOK'
  BY <1>a, <1>c, Zenon DEF LogInv, TypeOK
<1>2. CountInv'
  BY <1>a, <1>b, <1>f, Zenon DEF LogInv, CountInv
<1>3. ModeInv'
  BY <1>a, <1>d, <1>f, Zenon DEF ModeInv, Boot, Committing
<1>4. BufInv' /\ CleanInv'
  <2>1. \A q \in Procs : pc[q] \notin {"log_write", "record"} /\ pc'[q] \notin {"log_write", "record"}
    BY <1>b, <1>d, Zenon DEF InOp
  <2>2. \A b \in Blocks : ~Locked(b)
    BY <2>1, Zenon DEF Locked
  <2>3. BufInv'
    BY <2>1, Zenon DEF BufInv
  <2> QED BY <1>a, <2>2, <2>3, Zenon DEF LogInv, CleanInv
<1>5. DirtyInv' /\ HeadInv'
  <2>1. \A q \in Procs : pc[q] \notin {"install_trans", "read_head"} /\ pc'[q] \notin {"install_trans", "read_head"}
    BY <1>a, <1>b, <1>d, Zenon DEF Committing
  <2>2. DirtyInv'
    BY <1>a, <2>1, Zenon DEF LogInv, DirtyInv, Boot, ListedAfter
  <2>3. HeadInv'
    <3>1. Injective(head') /\ Injective(lh') /\ Len(head') <= LOGSIZE /\ head' = <<>>
      BY <1>a, <2>1, Zenon DEF LogInv, HeadInv
    <3> QED BY <2>1, <3>1, Zenon DEF HeadInv, Injective
  <2> QED BY <2>2, <2>3, Zenon
<1>6. LogdInv'
  BY <1>a, <1>d, <1>e, Zenon DEF LogdInv, Committing
<1>7. EmptyInv' /\ NoLostWakeup'
  BY <1>a, <1>b, <1>d, Zenon DEF EmptyInv, NoLostWakeup
<1>8. SpaceInv'
  BY <1>a, <1>b, <1>d, SpaceStable, Zenon DEF LogInv
<1> QED BY <1>1, <1>2, <1>3, <1>4, <1>5, <1>6, <1>7, <1>8, Zenon DEF LogInv

\* crash preserves the invariant.
LEMMA Inv_crash ==
  ASSUME LogInv, NEW p \in Procs, crash(p)
  PROVE  LogInv'
<1>a. /\ cache' = [b \in Blocks |-> NoBuf] /\ dirty' = {} /\ lh' = <<>> /\ outstanding' = 0
      /\ committing' = FALSE /\ pc' = [q \in Procs |-> IF q = p THEN "read_head" ELSE "off"]
      /\ bp' = [q \in Procs |-> NoBuf] /\ wrote' = [q \in Procs |-> {}]
      /\ tail' = [q \in Procs |-> 0] /\ panicked' = FALSE
      /\ UNCHANGED <<home, logd, head>>
  BY Zenon DEF crash
<1>b. pc'[p] = "read_head" /\ \A q \in Procs : q # p => pc'[q] = "off"
  BY <1>a, Zenon
<1>c. Active' = {}
  BY <1>b, Zenon DEF Active, InOp
<1>1. TypeOK'
  <2>1. pc' \in [Procs -> PcValues]
    BY <1>a, Zenon DEF PcValues
  <2>2. lh' \in Seq(Blocks) /\ bp' \in [Procs -> Blocks \cup {NoBuf}] /\ tail' \in [Procs -> Nat]
    BY <1>a
  <2>3. cache' \in [Blocks -> Vals \cup {NoBuf}] /\ wrote' \in [Procs -> SUBSET Blocks]
    BY <1>a, Zenon
  <2>4. dirty' \in SUBSET Blocks /\ outstanding' \in Nat
    BY <1>a, Zenon
  <2> QED BY <1>a, <2>1, <2>2, <2>3, <2>4, Zenon DEF LogInv, TypeOK
<1>2. CountInv'
  BY <1>a, <1>c, FS_EmptySet, Zenon DEF CountInv
<1>3. ModeInv'
  BY <1>a, <1>b, SMTT(30) DEF ModeInv, Boot, Committing
<1>4. BufInv' /\ DirtyInv' /\ CleanInv'
  BY <1>a, <1>b, Zenon DEF BufInv, DirtyInv, CleanInv
<1>5. HeadInv' /\ LogdInv' /\ EmptyInv'
  <2>1. HeadInv'
    BY <1>a, <1>b, SMTT(30) DEF LogInv, HeadInv, Injective
  <2>2. LogdInv'
    BY <1>a, <1>b, Zenon DEF LogdInv
  <2> QED BY <1>a, <2>1, <2>2, Zenon DEF EmptyInv
<1>6. NoLostWakeup'
  BY <1>b, Zenon DEF NoLostWakeup
<1>7. SpaceInv'
  <2>1. lh' \in Seq(Blocks) /\ Len(lh') <= LOGSIZE
    BY <1>a
  <2>2. \A q \in Procs : pc'[q] \notin InOp /\ wrote'[q] = {}
    BY <1>a, <1>b, Zenon DEF InOp
  <2> QED BY <2>1, <2>2, SpaceEmpty, Zenon
<1> QED BY <1>1, <1>2, <1>3, <1>4, <1>5, <1>6, <1>7, Zenon DEF LogInv

\* read_head preserves the invariant.
LEMMA Inv_read_head ==
  ASSUME LogInv, NEW p \in Procs, read_head(p)
  PROVE  LogInv'
<1>a. /\ pc[p] = "read_head" /\ lh' = head /\ pc' = [pc EXCEPT ![p] = "install_trans"]
      /\ UNCHANGED <<home, logd, head, cache, dirty, outstanding, committing, bp, wrote, tail, panicked>>
  BY Zenon DEF read_head
<1>b. ~committing /\ dirty = {} /\ \A q \in Procs : q # p => pc[q] = "off"
  BY <1>a, Zenon DEF LogInv, ModeInv, Boot, DirtyInv
<1>c. pc'[p] = "install_trans" /\ \A q \in Procs : q # p => pc'[q] = "off"
  BY <1>a, <1>b, Zenon DEF LogInv, TypeOK
<1>d. \A q \in Procs : tail[q] = 0
  BY <1>a, <1>b, Zenon DEF LogInv, LogdInv
<1>1. TypeOK'
  <2>1. pc' \in [Procs -> PcValues]
    BY <1>a, Zenon DEF LogInv, TypeOK, PcValues, Committing
  <2> QED BY <1>a, <2>1, Zenon DEF LogInv, TypeOK
<1>2. CountInv'
  <2>1. Active' = Active
    BY <1>a, <1>b, <1>c, Zenon DEF Active, InOp
  <2> QED BY <1>a, <2>1, Zenon DEF LogInv, CountInv
<1>3. ModeInv'
  BY <1>a, <1>b, <1>c, SMTT(30) DEF ModeInv, Boot, Committing
<1>4. BufInv' /\ CleanInv'
  <2>1. \A b \in Blocks : ~Locked(b)
    BY <1>a, <1>b, Zenon DEF Locked
  <2>2. BufInv'
    BY <1>c, Zenon DEF BufInv
  <2> QED BY <1>a, <2>1, <2>2, Zenon DEF LogInv, CleanInv
<1>5. DirtyInv'
  BY <1>a, <1>b, <1>c, Zenon DEF DirtyInv
<1>6. HeadInv'
  BY <1>a, <1>c DEF LogInv, HeadInv, Injective
<1>7. LogdInv'
  <2>1. Len(lh') \in Nat
    BY <1>a DEF LogInv, TypeOK
  <2> QED BY <1>a, <1>b, <1>c, <1>d, <2>1 DEF LogdInv
<1>8. EmptyInv' /\ NoLostWakeup'
  BY <1>a, <1>b, <1>c, Zenon DEF EmptyInv, NoLostWakeup, Recovering
<1>9. SpaceInv'
  <2>1. lh' \in Seq(Blocks) /\ Len(lh') <= LOGSIZE
    BY <1>a, Zenon DEF LogInv, TypeOK, HeadInv
  <2>2. \A q \in Procs : pc'[q] \notin InOp /\ wrote'[q] = {}
    BY <1>a, <1>b, <1>c, Zenon DEF LogInv, SpaceInv, InOp
  <2> QED BY <2>1, <2>2, SpaceEmpty, Zenon
<1> QED BY <1>1, <1>2, <1>3, <1>4, <1>5, <1>6, <1>7, <1>8, <1>9, Zenon DEF LogInv

\* A freshly made, idle file system satisfies the invariant.
LEMMA Inv_Init == Init => LogInv
<1> SUFFICES ASSUME Init PROVE LogInv
  BY Zenon
<1> USE DEF Init
<1>1. TypeOK
  <2>1. logd \in [1..LOGSIZE -> Vals] /\ head \in Seq(Blocks) /\ lh \in Seq(Blocks)
    OBVIOUS
  <2>2. pc \in [Procs -> PcValues]
    BY Zenon DEF PcValues
  <2> QED BY <2>1, <2>2, Zenon DEF TypeOK
<1>2. CountInv
  <2>1. Active = {}
    BY Zenon DEF Active, InOp
  <2> QED BY <2>1, FS_EmptySet, Zenon DEF CountInv
<1>3. ModeInv
  BY <1>2, Zenon DEF ModeInv, Boot, Committing
<1>4. BufInv /\ CleanInv /\ LogdInv /\ EmptyInv /\ NoLostWakeup
  BY Zenon DEF BufInv, CleanInv, LogdInv, EmptyInv, NoLostWakeup
<1>5. DirtyInv /\ HeadInv
  BY DEF DirtyInv, HeadInv, Injective, ListedAfter, Boot
<1>6. SpaceInv
  <2>1. Tokens = {}
    BY Zenon DEF Tokens, TokensOf, InOp
  <2>2. IsFiniteSet({}) /\ Cardinality({}) = 0
    BY FS_EmptySet, Zenon
  <2>3. Cardinality(Tokens) = 0 /\ \A q \in Procs : Cardinality(wrote[q]) = 0 /\ IsFiniteSet(wrote[q])
    BY <2>1, <2>2, Zenon
  <2> QED BY <2>3 DEF SpaceInv, InOp
<1> QED BY <1>1, <1>2, <1>3, <1>4, <1>5, <1>6, Zenon DEF LogInv

\* Every step of the logging code, and a crash, preserves the invariant.
LEMMA Inv_Next == LogInv /\ [Next]_vars => LogInv'
<1> SUFFICES ASSUME LogInv, [Next]_vars PROVE LogInv'
  BY Zenon
<1>1. CASE UNCHANGED vars
  <2>1. /\ home' = home /\ logd' = logd /\ head' = head /\ cache' = cache /\ dirty' = dirty
        /\ lh' = lh /\ outstanding' = outstanding /\ committing' = committing /\ pc' = pc
        /\ bp' = bp /\ wrote' = wrote /\ tail' = tail /\ panicked' = panicked
    BY <1>1, Zenon DEF vars
  <2>2. TypeOK' /\ BufInv' /\ EmptyInv'
    BY <2>1, Zenon DEF LogInv, TypeOK, BufInv, EmptyInv, Recovering
  <2>3. CountInv' /\ ModeInv'
    <3>1. Active' = Active
      BY <2>1, Zenon DEF Active
    <3> QED BY <2>1, <3>1, Zenon DEF LogInv, CountInv, ModeInv, Boot
  <2>4. DirtyInv'
    BY <2>1 DEF LogInv, DirtyInv, ListedAfter, Boot
  <2>5. CleanInv'
    BY <2>1, Zenon DEF LogInv, CleanInv, Locked
  <2>6. HeadInv'
    BY <2>1 DEF LogInv, HeadInv, Injective
  <2>7. LogdInv'
    BY <2>1, Zenon DEF LogInv, LogdInv
  <2>8. SpaceInv'
    BY <2>1, SpaceStable, Zenon DEF LogInv
  <2>9. NoLostWakeup'
    BY <2>1, Zenon DEF LogInv, NoLostWakeup, CanBegin, Reserved
  <2> QED BY <2>2, <2>3, <2>4, <2>5, <2>6, <2>7, <2>8, <2>9, Zenon DEF LogInv
<1>2. ASSUME NEW p \in Procs, begin_op(p) \/ log_write(p) \/ record(p) \/ end_op(p)
                               \/ read_head(p) \/ crash(p)
      PROVE  LogInv'
  BY <1>2, Inv_begin_op, Inv_log_write, Inv_record, Inv_end_op, Inv_read_head, Inv_crash, Zenon
<1>3. ASSUME NEW p \in Procs, commit(p) PROVE LogInv'
  BY <1>3, Inv_write_log, Inv_write_head, Inv_install_trans, Inv_clear, Inv_end_commit, Zenon DEF commit
<1>4. ASSUME NEW p \in Procs, NEW b \in Blocks, NEW v \in Vals, modify(p, b, v) PROVE LogInv'
  BY <1>4, Inv_modify, Zenon
<1>5. ASSUME NEW b \in Blocks, bread(b) \/ bget_recycle(b) PROVE LogInv'
  BY <1>5, Inv_bread, Inv_bget_recycle, Zenon
<1> QED BY <1>1, <1>2, <1>3, <1>4, <1>5, Zenon DEF Next

\* The inductive invariant holds in every reachable state of log.c, for any
\* number of processes and blocks.
THEOREM LogInvariant == Spec => []LogInv
BY Inv_Init, Inv_Next, PTL DEF Spec
=============================================================================
