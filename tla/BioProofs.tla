----------------------------- MODULE BioProofs -----------------------------
(***************************************************************************)
(* The buffer cache and the disk driver for any number of processes,       *)
(* buffers and blocks: BioInv is inductive, the safety properties of Bio   *)
(* follow from it, and the cache implements the block store.               *)
(***************************************************************************)
EXTENDS Bio, FiniteSetTheorems, TLAPS

\* Where a process has the sleep lock of its buffer.
Holds == {"iderw", "iosleep", "iowoken", "hold"}

\* A process has a buffer from bget() to brelse(), and asked for its block.
PcInv == \A p \in Procs : /\ bp[p] = None <=> pc[p] \in {"idle", "nobuf"}
                          /\ bp[p] # None => want[p] \in Blocks

\* b->lock is held exactly from acquiresleep() to releasesleep().
LockInv == \A b \in Bufs, p \in Procs : lock[b] = p <=> bp[p] = b /\ pc[p] \in Holds

\* What B_VALID and B_DIRTY say of the work that is left.
FlagInv ==
  /\ \A p \in Procs : /\ pc[p] = "iderw" => flags[bp[p]] # {"VALID"}
                      /\ pc[p] = "iowoken" => flags[bp[p]] = {"VALID"}
                      /\ pc[p] = "hold" => "VALID" \in flags[bp[p]]
  /\ \A b \in Bufs : "DIRTY" \in flags[b] => "VALID" \in flags[b]

\* The queue has the buffers of the processes asleep in iderw().
QueueInv == \A b \in Bufs : b \in Range(idequeue) <=> \E p \in Procs : pc[p] = "iosleep" /\ bp[p] = b

\* The drive interrupts for the first buffer; a write is then on the disk.
DriveInv == /\ DriveServesHead /\ irq \in BOOLEAN
            /\ irq => idequeue # <<>> /\ cmd # Halted
            /\ irq /\ cmd.write => disk[cmd.block] = cmd.val

\* A clean buffer of a sound block has what the disk has.
CleanInv == \A b \in Bufs : blockno[b] \in Good /\ flags[b] = {"VALID"} => data[b] = disk[blockno[b]]

BioInv == /\ TypeOK /\ PcInv /\ LockInv /\ SleepersHaveHolder /\ FlagInv /\ QueueInv /\ DriveInv
          /\ OneBufPerBlock /\ GotWhatItAsked /\ RefcntExact /\ CleanInv

\* Once bget() has panicked, every buffer stays in use or pinned.
FullInv == \A p \in Procs, b \in Bufs :
             pc[p] = "nobuf" => blockno[b] # want[p] /\ (refcnt[b] > 0 \/ "DIRTY" \in flags[b])
-----------------------------------------------------------------------------
\* Appending to a queue, and taking its first element.
LEMMA AppendQueue ==
  ASSUME NEW q \in Seq(Bufs), IsInjective(q), NEW b \in Bufs, b \notin Range(q)
  PROVE  /\ Append(q, b) \in Seq(Bufs) /\ IsInjective(Append(q, b)) /\ Append(q, b) # <<>>
         /\ Range(Append(q, b)) = Range(q) \cup {b}
         /\ Head(Append(q, b)) = IF q = <<>> THEN b ELSE Head(q)
<1>1. /\ Append(q, b) \in Seq(Bufs) /\ Len(Append(q, b)) = Len(q) + 1 /\ Len(q) \in Nat
      /\ DOMAIN q = 1..Len(q) /\ DOMAIN Append(q, b) = 1..(Len(q) + 1)
      /\ \A i \in 1..Len(q) : Append(q, b)[i] = q[i]
      /\ Append(q, b)[Len(q) + 1] = b
  OBVIOUS
<1>2. IsInjective(Append(q, b))
  BY <1>1 DEF IsInjective, Range
<1>3. Range(Append(q, b)) = Range(q) \cup {b}
  BY <1>1 DEF Range
<1>4. Append(q, b) # <<>> /\ Head(Append(q, b)) = IF q = <<>> THEN b ELSE Head(q)
  BY <1>1
<1> QED BY <1>1, <1>2, <1>3, <1>4, Zenon

\* ideintr() takes the first request off the queue.
LEMMA TailQueue ==
  ASSUME NEW q \in Seq(Bufs), IsInjective(q), q # <<>>
  PROVE  /\ Tail(q) \in Seq(Bufs) /\ IsInjective(Tail(q))
         /\ Range(Tail(q)) = Range(q) \ {Head(q)}
         /\ Head(q) \in Range(q) /\ Head(q) \in Bufs
         /\ Tail(q) # <<>> <=> Len(q) > 1
         /\ Len(q) > 1 => Head(Tail(q)) = q[2]
<1>1. /\ Tail(q) \in Seq(Bufs) /\ Len(Tail(q)) = Len(q) - 1 /\ Len(q) \in Nat /\ Len(q) > 0
      /\ DOMAIN q = 1..Len(q) /\ DOMAIN Tail(q) = 1..(Len(q) - 1)
      /\ \A i \in 1..(Len(q) - 1) : Tail(q)[i] = q[i + 1]
      /\ Head(q) = q[1]
  OBVIOUS
<1>2. IsInjective(Tail(q))
  BY <1>1 DEF IsInjective
<1>3. Range(Tail(q)) = Range(q) \ {Head(q)}
  <2>1. ASSUME NEW x \in Range(Tail(q)) PROVE x \in Range(q) /\ x # Head(q)
    <3>1. PICK i \in 1..(Len(q) - 1) : x = q[i + 1]
      BY <1>1, <2>1, Zenon DEF Range
    <3>2. i + 1 \in 1..Len(q) /\ 1 \in 1..Len(q) /\ i + 1 # 1
      BY <1>1
    <3> QED BY <1>1, <3>1, <3>2, Zenon DEF Range, IsInjective
  <2>2. ASSUME NEW x \in Range(q), x # Head(q) PROVE x \in Range(Tail(q))
    <3>1. PICK i \in 1..Len(q) : x = q[i]
      BY <1>1, <2>2, Zenon DEF Range
    <3>2. i - 1 \in 1..(Len(q) - 1) /\ (i - 1) + 1 = i
      BY <1>1, <2>2, <3>1
    <3>3. Tail(q)[i - 1] = x
      BY <1>1, <3>1, <3>2, Zenon
    <3> QED BY <1>1, <3>2, <3>3, Zenon DEF Range
  <2> QED BY <2>1, <2>2, Zenon
<1>4. Head(q) \in Range(q) /\ Head(q) \in Bufs
  BY <1>1 DEF Range
<1>t. \A t \in Seq(Bufs) : (t = <<>> <=> Len(t) = 0) /\ (t # <<>> => Head(t) = t[1])
  OBVIOUS
<1>5. Tail(q) # <<>> <=> Len(q) > 1
  <2> DEFINE t == Tail(q)
  <2>1. t \in Seq(Bufs) /\ Len(t) = Len(q) - 1
    BY <1>1, Zenon
  <2> HIDE DEF t
  <2>2. t # <<>> <=> Len(q) > 1
    BY <1>1, <1>t, <2>1
  <2> QED BY <2>2, Zenon DEF t
<1>6. Len(q) > 1 => Head(Tail(q)) = q[2]
  <2>1. Len(q) > 1 => 1 \in 1..(Len(q) - 1) /\ Tail(q)[1] = q[2]
    BY <1>1
  <2> DEFINE t == Tail(q)
  <2>2. t \in Seq(Bufs) /\ (Len(q) > 1 => t # <<>>)
    BY <1>1, <1>5, Zenon
  <2> HIDE DEF t
  <2>3. Len(q) > 1 => Head(t) = t[1]
    BY <1>t, <2>2, Zenon
  <2> QED BY <2>1, <2>3, Zenon DEF t
<1> QED BY <1>1, <1>2, <1>3, <1>4, <1>5, <1>6, Zenon

\* brelse() moves a buffer of the list to its front; every buffer stays in it, once.
LEMMA ToFront ==
  ASSUME lru \in Bijection(1..Cardinality(Bufs), Bufs), NEW b \in Bufs
  PROVE  toFront(b) \in Bijection(1..Cardinality(Bufs), Bufs)
<1> DEFINE D == 1..Cardinality(Bufs)
           n == CHOOSE i \in DOMAIN lru : lru[i] = b
           f == toFront(b)
<1>1. Cardinality(Bufs) \in Nat
  BY BioAssumption, FS_CardinalityType, Zenon
<1>2. /\ lru \in [D -> Bufs] /\ \A i, j \in D : lru[i] = lru[j] => i = j
      /\ \A c \in Bufs : \E i \in D : lru[i] = c
  BY Zenon DEF Bijection, Injection, Surjection, IsInjective
<1>3. n \in D /\ lru[n] = b
  BY <1>2, Zenon
<1> HIDE DEF n
<1>4. f = [i \in D |-> IF i = 1 THEN b ELSE IF i <= n THEN lru[i-1] ELSE lru[i]]
  BY <1>2, Zenon DEF toFront, n
<1> HIDE DEF f
<1> DEFINE g(k) == IF k = 1 THEN n ELSE IF k <= n THEN k - 1 ELSE k
<1>5. \A k \in D : g(k) \in D /\ f[k] = lru[g(k)]
  BY <1>1, <1>3, <1>4
<1>6. \A i, j \in D : g(i) = g(j) => i = j
  BY <1>1, <1>3
<1>7. \A m \in D : \E k \in D : g(k) = m
  <2> SUFFICES ASSUME NEW m \in D PROVE \E k \in D : g(k) = m
    BY Zenon
  <2>1. CASE m = n
    BY <1>1, <2>1
  <2>2. CASE m < n
    <3>1. m + 1 \in D /\ g(m + 1) = m
      BY <1>1, <1>3, <2>2
    <3> QED BY <3>1, Zenon
  <2>3. CASE m > n
    <3>1. m \in D /\ g(m) = m
      BY <1>1, <1>3, <2>3
    <3> QED BY <3>1, Zenon
  <2> QED BY <1>1, <1>3, <2>1, <2>2, <2>3
<1> HIDE DEF g
<1>8. f \in [D -> Bufs]
  BY <1>2, <1>4, <1>5
<1>9. \A i, j \in D : f[i] = f[j] => i = j
  BY <1>2, <1>5, <1>6
<1>10. \A c \in Bufs : \E i \in D : f[i] = c
  <2> SUFFICES ASSUME NEW c \in Bufs PROVE \E i \in D : f[i] = c
    BY Zenon
  <2>1. PICK m \in D : lru[m] = c
    BY <1>2, Zenon
  <2>2. PICK k \in D : g(k) = m
    BY <1>7, Zenon
  <2> QED BY <1>5, <2>1, <2>2, Zenon
<1> HIDE DEF D
<1>11. f \in Injection(D, Bufs) /\ f \in Surjection(D, Bufs)
  BY <1>8, <1>9, <1>10, Zenon DEF Injection, Surjection, IsInjective
<1> QED BY <1>11, Zenon DEF Bijection, D, f

-----------------------------------------------------------------------------
\* What a process that uses a buffer knows of it.
LEMMA Using ==
  ASSUME BioInv, NEW p \in Procs, pc[p] \notin {"idle", "nobuf"}
  PROVE  /\ bp[p] \in Bufs /\ bp[p] # None /\ want[p] \in Blocks
         /\ blockno[bp[p]] = want[p] /\ blockno[bp[p]] # None
<1>1. bp[p] \in Bufs \cup {None} /\ bp[p] # None /\ want[p] \in Blocks
  BY Zenon DEF BioInv, TypeOK, PcInv
<1>2. blockno[bp[p]] = want[p]
  BY <1>1, Zenon DEF BioInv, GotWhatItAsked
<1> QED BY <1>1, <1>2, IdeAssumption, Zenon

\* One process at a time has the sleep lock of a buffer; a buffer it has while
\* it is not asleep for the drive is not in the queue.
LEMMA OneHolder ==
  ASSUME BioInv, NEW p \in Procs, pc[p] \in Holds
  PROVE  /\ lock[bp[p]] = p
         /\ \A q \in Procs : bp[q] = bp[p] /\ pc[q] \in Holds => q = p
         /\ pc[p] # "iosleep" => bp[p] \notin Range(idequeue)
<1>1. bp[p] \in Bufs
  BY Using, Zenon DEF Holds
<1>2. /\ lock[bp[p]] = p
      /\ \A q \in Procs : bp[q] = bp[p] /\ pc[q] \in Holds => lock[bp[p]] = q
  BY <1>1, Zenon DEF BioInv, LockInv
<1>3. \A q \in Procs : bp[q] = bp[p] /\ pc[q] = "iosleep" => q = p
  BY <1>2, Zenon DEF Holds
<1> QED BY <1>1, <1>2, <1>3 DEF BioInv, QueueInv

\* The first buffer of the queue, and the process asleep for it.
LEMMA QueueHead ==
  ASSUME BioInv, idequeue # <<>>
  PROVE  /\ Head(idequeue) \in Bufs /\ Head(idequeue) \in Range(idequeue)
         /\ \E p \in Procs : pc[p] = "iosleep" /\ bp[p] = Head(idequeue)
<1>1. Head(idequeue) \in Bufs /\ Head(idequeue) \in Range(idequeue)
  BY TailQueue, Zenon DEF BioInv, TypeOK
<1> QED BY <1>1, Zenon DEF BioInv, QueueInv

\* A step that leaves the queue, the drive and the buffers in the queue alone.
LEMMA DriveKept ==
  ASSUME BioInv, UNCHANGED idevars,
         \A b \in Range(idequeue) : flags'[b] = flags[b] /\ blockno'[b] = blockno[b] /\ data'[b] = data[b]
  PROVE  DriveInv'
<1>1. disk' = disk /\ cmd' = cmd /\ irq' = irq /\ idequeue' = idequeue
  BY Zenon DEF idevars
<1>2. DriveServesHead'
  <2>1. CASE idequeue = <<>>
    BY <1>1, <2>1, Zenon DEF BioInv, DriveInv, DriveServesHead
  <2>2. CASE idequeue # <<>>
    <3>1. Head(idequeue) \in Range(idequeue)
      BY <2>2, QueueHead, Zenon
    <3> QED BY <1>1, <2>2, <3>1, Zenon DEF BioInv, DriveInv, DriveServesHead, idestart
  <2> QED BY <2>1, <2>2, Zenon
<1> QED BY <1>1, <1>2, Zenon DEF BioInv, DriveInv

\* The processes that use or wait for a buffer.
Users(b) == {p \in Procs : bp[p] = b}

\* A buffer has no more users than there are processes.
LEMMA UsersFinite ==
  ASSUME NEW b
  PROVE  IsFiniteSet(Users(b)) /\ Cardinality(Users(b)) \in 0..Cardinality(Procs)
<1>1. Users(b) \subseteq Procs /\ IsFiniteSet(Procs)
  BY BioAssumption, Zenon DEF Users
<1> QED BY <1>1, FS_Subset, FS_CardinalityType

\* A count that follows the users of each buffer is exact and in range.
LEMMA Counted ==
  ASSUME refcnt' \in [Bufs -> Int], \A c \in Bufs : refcnt'[c] = Cardinality(Users(c)')
  PROVE  RefcntExact' /\ refcnt' \in [Bufs -> 0..Cardinality(Procs)]
<1>1. \A c \in Bufs : Cardinality(Users(c)') \in 0..Cardinality(Procs)
  <2>1. ASSUME NEW c \in Bufs PROVE Users(c)' \subseteq Procs
    BY Zenon DEF Users
  <2>2. \A S : S \subseteq Procs => Cardinality(S) \in 0..Cardinality(Procs)
    BY BioAssumption, FS_Subset, FS_CardinalityType
  <2> QED BY <2>1, <2>2, Zenon
<1>2. RefcntExact'
  BY Zenon DEF RefcntExact, Users
<1> QED BY <1>1, <1>2, Zenon

\* bget() adds a user to a buffer.
LEMMA AddUser ==
  ASSUME BioInv, NEW p \in Procs, bp[p] = None, NEW b \in Bufs, bp' = [bp EXCEPT ![p] = b],
         refcnt' = [refcnt EXCEPT ![b] = refcnt[b] + 1]
  PROVE  RefcntExact' /\ refcnt' \in [Bufs -> 0..Cardinality(Procs)]
<1>1. bp \in [Procs -> Bufs \cup {None}] /\ refcnt \in [Bufs -> 0..Cardinality(Procs)]
  BY Zenon DEF BioInv, TypeOK
<1>2. \A c \in Bufs : refcnt[c] = Cardinality(Users(c))
  BY Zenon DEF BioInv, RefcntExact, Users
<1>3. b # None /\ p \notin Users(b)
  BY IdeAssumption, Zenon DEF Users
<1>4. Users(b)' = Users(b) \cup {p}
  BY <1>1, <1>3, Zenon DEF Users
<1>5. \A c \in Bufs : c # b => Users(c)' = Users(c)
  BY <1>1, IdeAssumption, Zenon DEF Users
<1>6. Cardinality(Users(b) \cup {p}) = Cardinality(Users(b)) + 1
  BY <1>3, UsersFinite, FS_AddElement, Zenon
<1>7. \A c \in Bufs : refcnt'[c] = Cardinality(Users(c)')
  BY <1>1, <1>2, <1>4, <1>5, <1>6, Zenon
<1>8. refcnt' \in [Bufs -> Int]
  BY <1>1
<1> QED BY <1>7, <1>8, Counted, Zenon

\* brelse() takes a user away.
LEMMA DropUser ==
  ASSUME BioInv, NEW p \in Procs, NEW b \in Bufs, bp[p] = b, bp' = [bp EXCEPT ![p] = None],
         refcnt' = [refcnt EXCEPT ![b] = refcnt[b] - 1]
  PROVE  RefcntExact' /\ refcnt' \in [Bufs -> 0..Cardinality(Procs)]
<1>1. bp \in [Procs -> Bufs \cup {None}] /\ refcnt \in [Bufs -> 0..Cardinality(Procs)]
  BY Zenon DEF BioInv, TypeOK
<1>2. \A c \in Bufs : refcnt[c] = Cardinality(Users(c))
  BY Zenon DEF BioInv, RefcntExact, Users
<1>3. b # None /\ p \in Users(b)
  BY IdeAssumption, Zenon DEF Users
<1>4. Users(b)' = Users(b) \ {p}
  BY <1>1, <1>3, Zenon DEF Users
<1>5. \A c \in Bufs : c # b => Users(c)' = Users(c)
  BY <1>1, IdeAssumption, Zenon DEF Users
<1>6. Cardinality(Users(b) \ {p}) = Cardinality(Users(b)) - 1
  BY <1>3, UsersFinite, FS_RemoveElement, Zenon
<1>7. \A c \in Bufs : refcnt'[c] = Cardinality(Users(c)')
  BY <1>1, <1>2, <1>4, <1>5, <1>6, Zenon
<1>8. refcnt' \in [Bufs -> Int]
  BY <1>1
<1> QED BY <1>7, <1>8, Counted, Zenon

\* Nobody uses a buffer with refcnt 0, and it is not in the queue.
LEMMA Unused ==
  ASSUME BioInv, NEW b \in Bufs, refcnt[b] = 0
  PROVE  b \notin Range(idequeue) /\ \A p \in Procs : bp[p] # b
<1>1. Cardinality(Users(b)) = 0
  BY Zenon DEF BioInv, RefcntExact, Users
<1>2. Users(b) = {}
  BY <1>1, UsersFinite, FS_EmptySet, Zenon
<1> QED BY <1>2, Zenon DEF BioInv, QueueInv, Users

-----------------------------------------------------------------------------
\* bget() finds the block in a buffer, ...
LEMMA Inv_bget_hit ==
  ASSUME BioInv, NEW p \in Procs, NEW k \in Blocks, bget(p, k), bget_hit(p, k)
  PROVE  BioInv'
<1>1. PICK b \in Bufs : /\ blockno[b] = k /\ pc[p] = "idle"
                        /\ refcnt' = [refcnt EXCEPT ![b] = @ + 1]
                        /\ bp' = [bp EXCEPT ![p] = b]
                        /\ pc' = [pc EXCEPT ![p] = "acquire"]
                        /\ want' = [want EXCEPT ![p] = k]
                        /\ UNCHANGED <<bufvars, idevars, lock, lru>>
  BY Zenon DEF bget, bget_hit
<1>2. /\ disk' = disk /\ cmd' = cmd /\ irq' = irq /\ idequeue' = idequeue /\ lru' = lru
      /\ flags' = flags /\ blockno' = blockno /\ data' = data /\ lock' = lock
  BY <1>1, Zenon DEF bufvars, idevars
<1>3. /\ bp'[p] = b /\ pc'[p] = "acquire" /\ want'[p] = k
      /\ \A q \in Procs : q # p => bp'[q] = bp[q] /\ pc'[q] = pc[q] /\ want'[q] = want[q]
  BY <1>1, Zenon DEF BioInv, TypeOK
<1>4. pc[p] = "idle" /\ bp[p] = None /\ b # None /\ k # None
  BY <1>1, IdeAssumption, Zenon DEF BioInv, PcInv
<1>5. RefcntExact' /\ refcnt' \in [Bufs -> 0..Cardinality(Procs)]
  BY <1>1, <1>4, AddUser, Zenon
<1>6. TypeOK'
  <2>1. /\ pc' \in [Procs -> Points] /\ bp' \in [Procs -> Bufs \cup {None}]
        /\ want' \in [Procs -> Blocks \cup {None}]
    BY <1>1, Zenon DEF BioInv, TypeOK, Points
  <2> QED BY <1>2, <1>5, <2>1, Zenon DEF BioInv, TypeOK
<1>7. PcInv' /\ GotWhatItAsked'
  BY <1>1, <1>2, <1>3, <1>4 DEF BioInv, PcInv, GotWhatItAsked
<1>8. LockInv' /\ SleepersHaveHolder' /\ QueueInv'
  BY <1>1, <1>2, <1>3, <1>4 DEF BioInv, LockInv, SleepersHaveHolder, QueueInv, Holds
<1>9. FlagInv' /\ OneBufPerBlock' /\ CleanInv'
  BY <1>2, <1>3 DEF BioInv, FlagInv, OneBufPerBlock, CleanInv
<1>10. DriveInv'
  BY <1>1, <1>2, DriveKept, Zenon
<1> QED BY <1>2, <1>5, <1>6, <1>7, <1>8, <1>9, <1>10, Zenon DEF BioInv

\* ... or recycles the buffer of another block, ...
LEMMA Inv_bget_recycle ==
  ASSUME BioInv, NEW p \in Procs, NEW k \in Blocks, bget(p, k), bget_recycle(p, k)
  PROVE  BioInv'
<1>1. PICK b \in Bufs : /\ victim(b) /\ pc[p] = "idle"
                        /\ blockno' = [blockno EXCEPT ![b] = k]
                        /\ flags' = [flags EXCEPT ![b] = {}]
                        /\ refcnt' = [refcnt EXCEPT ![b] = 1]
                        /\ bp' = [bp EXCEPT ![p] = b]
                        /\ pc' = [pc EXCEPT ![p] = "acquire"]
                        /\ want' = [want EXCEPT ![p] = k]
                        /\ UNCHANGED <<data, idevars, lock, lru>>
  BY Zenon DEF bget, bget_recycle
<1>2. /\ disk' = disk /\ cmd' = cmd /\ irq' = irq /\ idequeue' = idequeue /\ lru' = lru
      /\ data' = data /\ lock' = lock
  BY <1>1, Zenon DEF idevars
<1>3. /\ bp'[p] = b /\ pc'[p] = "acquire" /\ want'[p] = k
      /\ \A q \in Procs : q # p => bp'[q] = bp[q] /\ pc'[q] = pc[q] /\ want'[q] = want[q]
      /\ blockno'[b] = k /\ flags'[b] = {}
      /\ \A c \in Bufs : c # b => blockno'[c] = blockno[c] /\ flags'[c] = flags[c]
  BY <1>1, Zenon DEF BioInv, TypeOK
<1>4. pc[p] = "idle" /\ bp[p] = None /\ b # None /\ k # None
  BY <1>1, IdeAssumption, Zenon DEF BioInv, PcInv
<1>5. refcnt[b] = 0 /\ \A c \in Bufs : blockno[c] # k
  BY <1>1, Zenon DEF victim, unused, bget_recycle
<1>6. b \notin Range(idequeue) /\ \A q \in Procs : bp[q] # b
  BY <1>5, Unused, Zenon
<1>7. RefcntExact' /\ refcnt' \in [Bufs -> 0..Cardinality(Procs)]
  <2>1. refcnt' = [refcnt EXCEPT ![b] = refcnt[b] + 1]
    BY <1>1, <1>5
  <2> QED BY <1>1, <1>4, <2>1, AddUser, Zenon
<1>8. TypeOK'
  <2>1. /\ pc' \in [Procs -> Points] /\ bp' \in [Procs -> Bufs \cup {None}]
        /\ want' \in [Procs -> Blocks \cup {None}] /\ blockno' \in [Bufs -> Blocks \cup {None}]
    BY <1>1, Zenon DEF BioInv, TypeOK, Points
  <2>2. flags' \in [Bufs -> SUBSET {"VALID", "DIRTY"}]
    BY <1>1, Zenon DEF BioInv, TypeOK
  <2> QED BY <1>2, <1>7, <2>1, <2>2, Zenon DEF BioInv, TypeOK
<1>9. PcInv' /\ OneBufPerBlock'
  BY <1>3, <1>4, <1>5 DEF BioInv, PcInv, OneBufPerBlock
<1>10. GotWhatItAsked'
  <2>1. \A q \in Procs : q # p /\ bp[q] # None => bp[q] \in Bufs /\ bp[q] # b
    BY <1>6, Zenon DEF BioInv, TypeOK
  <2> QED BY <1>3, <2>1 DEF BioInv, GotWhatItAsked
<1>11. LockInv' /\ SleepersHaveHolder' /\ QueueInv'
  <2>1. LockInv'
    BY <1>2, <1>3, <1>4, <1>6 DEF BioInv, LockInv, Holds
  <2>2. SleepersHaveHolder'
    BY <1>2, <1>3, Zenon DEF BioInv, SleepersHaveHolder
  <2>3. QueueInv'
    BY <1>1, <1>2, <1>3, <1>6 DEF BioInv, QueueInv
  <2> QED BY <2>1, <2>2, <2>3, Zenon
<1>12. FlagInv'
  <2>1. \A q \in Procs : pc[q] \in Holds => bp[q] \in Bufs /\ bp[q] # b
    BY <1>6, Using, Zenon DEF Holds
  <2> QED BY <1>3, <2>1 DEF BioInv, FlagInv, Holds
<1>13. CleanInv'
  BY <1>2, <1>3 DEF BioInv, CleanInv
<1>14. DriveInv'
  <2>1. Range(idequeue) \subseteq Bufs
    BY DEF BioInv, TypeOK, Range
  <2> QED BY <1>1, <1>2, <1>3, <1>6, <2>1, DriveKept, Zenon
<1> QED BY <1>2, <1>7, <1>8, <1>9, <1>10, <1>11, <1>12, <1>13, <1>14, Zenon DEF BioInv

\* ... or has none and panics.
LEMMA Inv_bget ==
  ASSUME BioInv, NEW p \in Procs, NEW k \in Blocks, bget(p, k)
  PROVE  BioInv'
<1> SUFFICES ASSUME ~bget_hit(p, k), ~bget_recycle(p, k) PROVE BioInv'
  BY Inv_bget_hit, Inv_bget_recycle, Zenon
<1>1. /\ pc[p] = "idle" /\ want' = [want EXCEPT ![p] = k] /\ pc' = [pc EXCEPT ![p] = "nobuf"]
      /\ UNCHANGED <<bufvars, refcnt, bp, idevars, lock, lru>>
  BY Zenon DEF bget
<1>2. /\ disk' = disk /\ cmd' = cmd /\ irq' = irq /\ idequeue' = idequeue /\ lru' = lru
      /\ flags' = flags /\ blockno' = blockno /\ data' = data /\ lock' = lock
      /\ refcnt' = refcnt /\ bp' = bp
  BY <1>1, Zenon DEF bufvars, idevars
<1>3. /\ pc'[p] = "nobuf"
      /\ \A q \in Procs : q # p => pc'[q] = pc[q] /\ want'[q] = want[q]
  BY <1>1, Zenon DEF BioInv, TypeOK
<1>4. bp[p] = None
  BY <1>1, Zenon DEF BioInv, PcInv
<1>5. TypeOK'
  <2>1. pc' \in [Procs -> Points] /\ want' \in [Procs -> Blocks \cup {None}]
    BY <1>1, Zenon DEF BioInv, TypeOK, Points
  <2> QED BY <1>2, <2>1, Zenon DEF BioInv, TypeOK
<1>6. PcInv' /\ GotWhatItAsked' /\ RefcntExact'
  BY <1>1, <1>2, <1>3, <1>4 DEF BioInv, PcInv, GotWhatItAsked, RefcntExact
<1>7. LockInv' /\ SleepersHaveHolder' /\ QueueInv'
  BY <1>1, <1>2, <1>3, <1>4 DEF BioInv, LockInv, SleepersHaveHolder, QueueInv, Holds
<1>8. FlagInv' /\ OneBufPerBlock' /\ CleanInv'
  BY <1>2, <1>3 DEF BioInv, FlagInv, OneBufPerBlock, CleanInv
<1>9. DriveInv'
  BY <1>1, <1>2, DriveKept, Zenon
<1> QED BY <1>2, <1>5, <1>6, <1>7, <1>8, <1>9, Zenon DEF BioInv

\* acquiresleep() sleeps, or takes the lock.
LEMMA Inv_acquiresleep ==
  ASSUME BioInv, NEW p \in Procs, acquiresleep(p)
  PROVE  BioInv'
<1>1. pc[p] = "acquire" /\ UNCHANGED <<idevars, bufvars, bp, cachevars>>
  BY Zenon DEF acquiresleep
<1>2. PICK b \in Bufs : b = bp[p]
  BY <1>1, Using, Zenon
<1>3. /\ disk' = disk /\ cmd' = cmd /\ irq' = irq /\ idequeue' = idequeue /\ lru' = lru
      /\ flags' = flags /\ blockno' = blockno /\ data' = data
      /\ refcnt' = refcnt /\ bp' = bp /\ want' = want
  BY <1>1, Zenon DEF bufvars, idevars, cachevars
<1>4. /\ pc' = [pc EXCEPT ![p] = pc'[p]] /\ pc'[p] \in {"sleep", "hold", "iderw"}
      /\ pc'[p] = "sleep" => lock[b] # None /\ lock' = lock
      /\ pc'[p] # "sleep" => /\ lock[b] = None /\ lock' = [lock EXCEPT ![b] = p]
                             /\ (pc'[p] = "hold" <=> "VALID" \in flags[b])
  BY <1>2 DEF acquiresleep, BioInv, TypeOK
<1>5. \A q \in Procs : q # p => pc'[q] = pc[q]
  BY <1>4, Zenon DEF BioInv, TypeOK
<1>6. TypeOK'
  <2>1. lock' \in [Bufs -> Procs \cup {None}]
    BY <1>4, Zenon DEF BioInv, TypeOK
  <2>2. pc' \in [Procs -> Points]
    BY <1>4, Zenon DEF BioInv, TypeOK, Points
  <2> QED BY <1>3, <2>1, <2>2, Zenon DEF BioInv, TypeOK
<1>7. PcInv' /\ GotWhatItAsked' /\ RefcntExact' /\ OneBufPerBlock' /\ CleanInv'
  <2>1. PcInv'
    BY <1>1, <1>3, <1>4, <1>5, Zenon DEF BioInv, PcInv
  <2>2. GotWhatItAsked' /\ RefcntExact' /\ OneBufPerBlock' /\ CleanInv'
    BY <1>3 DEF BioInv, GotWhatItAsked, RefcntExact, OneBufPerBlock, CleanInv
  <2> QED BY <2>1, <2>2, Zenon
<1>8. None \notin Procs
  BY IdeAssumption, Zenon
<1>9. LockInv'
  <2>1. CASE pc'[p] = "sleep"
    BY <1>1, <1>3, <1>4, <1>5, <2>1 DEF BioInv, LockInv, Holds
  <2>2. CASE pc'[p] # "sleep"
    <3>1. lock'[b] = p /\ \A c \in Bufs : c # b => lock'[c] = lock[c]
      BY <1>4, <2>2, Zenon DEF BioInv, TypeOK
    <3>2. pc'[p] \in Holds
      BY <1>4, <2>2, Zenon DEF Holds
    <3> QED BY <1>1, <1>2, <1>3, <1>4, <1>5, <1>8, <2>2, <3>1, <3>2 DEF BioInv, LockInv, Holds
  <2> QED BY <2>1, <2>2, Zenon
<1>10. SleepersHaveHolder'
  <2>1. CASE pc'[p] = "sleep"
    <3>1. lock[b] # p
      BY <1>1, <1>2 DEF BioInv, LockInv, Holds
    <3> QED BY <1>2, <1>3, <1>4, <1>5, <2>1, <3>1, Zenon DEF BioInv, SleepersHaveHolder
  <2>2. CASE pc'[p] # "sleep"
    <3>1. lock'[b] = p /\ \A c \in Bufs : c # b => lock'[c] = lock[c]
      BY <1>4, <2>2, Zenon DEF BioInv, TypeOK
    <3>2. \A q \in Procs : pc[q] = "sleep" => bp[q] \in Bufs
      BY Using, Zenon
    <3> QED BY <1>2, <1>3, <1>4, <1>5, <1>8, <2>2, <3>1, <3>2 DEF BioInv, SleepersHaveHolder
  <2> QED BY <2>1, <2>2, Zenon
<1>11. QueueInv'
  BY <1>1, <1>3, <1>4, <1>5 DEF BioInv, QueueInv
<1>12. FlagInv'
  BY <1>2, <1>3, <1>4, <1>5, Zenon DEF BioInv, FlagInv
<1>13. DriveInv'
  BY <1>1, <1>3, DriveKept, Zenon
<1> QED BY <1>3, <1>6, <1>7, <1>9, <1>10, <1>11, <1>12, <1>13, Zenon DEF BioInv

\* The holder changes the block, by bwrite() or log_write().
LEMMA Inv_write ==
  ASSUME BioInv, NEW p \in Procs, NEW v \in Vals, bwrite(p, v) \/ log_write(p, v)
  PROVE  BioInv'
<1>1. pc[p] = "hold" /\ UNCHANGED <<idevars, blockno, lock, bp, cachevars>>
  BY Zenon DEF bwrite, log_write
<1>2. PICK b \in Bufs : b = bp[p]
  BY <1>1, Using, Zenon
<1>3. /\ disk' = disk /\ cmd' = cmd /\ irq' = irq /\ idequeue' = idequeue /\ lru' = lru
      /\ blockno' = blockno /\ lock' = lock /\ refcnt' = refcnt /\ bp' = bp /\ want' = want
  BY <1>1, Zenon DEF idevars, cachevars
<1>4. /\ data' = [data EXCEPT ![b] = v] /\ flags' = [flags EXCEPT ![b] = @ \cup {"DIRTY"}]
      /\ pc' = [pc EXCEPT ![p] = pc'[p]] /\ pc'[p] \in {"hold", "iderw"}
  <2>1. lock[bp[p]] = p
    BY <1>1, OneHolder, Zenon DEF Holds
  <2> QED BY <1>1, <1>2, <2>1, Zenon DEF bwrite, log_write, BioInv, TypeOK
<1>5. /\ "VALID" \in flags'[b] /\ "DIRTY" \in flags'[b] /\ flags'[b] # {"VALID"}
      /\ \A c \in Bufs : c # b => flags'[c] = flags[c] /\ data'[c] = data[c]
      /\ \A q \in Procs : q # p => pc'[q] = pc[q]
  <2>1. "VALID" \in flags[b] /\ flags'[b] = flags[b] \cup {"DIRTY"}
    BY <1>1, <1>2, <1>4, Zenon DEF BioInv, TypeOK, FlagInv
  <2>2. /\ \A c \in Bufs : c # b => flags'[c] = flags[c] /\ data'[c] = data[c]
        /\ \A q \in Procs : q # p => pc'[q] = pc[q]
    BY <1>4, Zenon DEF BioInv, TypeOK
  <2>3. "DIRTY" \notin {"VALID"}
    BY Zenon
  <2> QED BY <2>1, <2>2, <2>3, Zenon
<1>6. /\ b \notin Range(idequeue)
      /\ \A q \in Procs : bp[q] = b /\ pc[q] \in Holds => q = p
  BY <1>1, <1>2, OneHolder, Zenon DEF Holds
<1>7. TypeOK'
  <2>1. flags' \in [Bufs -> SUBSET {"VALID", "DIRTY"}] /\ data' \in [Bufs -> Vals]
    BY <1>4, Zenon DEF BioInv, TypeOK
  <2>2. pc' \in [Procs -> Points]
    BY <1>4, Zenon DEF BioInv, TypeOK, Points
  <2> QED BY <1>3, <2>1, <2>2, Zenon DEF BioInv, TypeOK
<1>8. PcInv' /\ GotWhatItAsked' /\ RefcntExact' /\ OneBufPerBlock' /\ SleepersHaveHolder'
  BY <1>1, <1>3, <1>4, <1>5
  DEF BioInv, PcInv, GotWhatItAsked, RefcntExact, OneBufPerBlock, SleepersHaveHolder
<1>9. LockInv' /\ QueueInv'
  BY <1>1, <1>3, <1>4, <1>5 DEF BioInv, LockInv, QueueInv, Holds
<1>10. FlagInv'
  <2>1. \A q \in Procs : pc[q] \in Holds => bp[q] \in Bufs
    BY Using, Zenon DEF Holds
  <2> QED BY <1>2, <1>3, <1>4, <1>5, <1>6, <2>1 DEF BioInv, FlagInv, Holds
<1>11. CleanInv'
  BY <1>3, <1>5, Zenon DEF BioInv, CleanInv
<1>12. DriveInv'
  <2>1. Range(idequeue) \subseteq Bufs
    BY DEF BioInv, TypeOK, Range
  <2> QED BY <1>1, <1>3, <1>5, <1>6, <2>1, DriveKept, Zenon
<1> QED BY <1>3, <1>7, <1>8, <1>9, <1>10, <1>11, <1>12, Zenon DEF BioInv

\* releasesleep() wakes those who wait for the lock; its caller has it.
LEMMA Inv_releasesleep ==
  ASSUME BioInv, NEW p \in Procs, releasesleep(p)
  PROVE  BioInv' /\ pc'[p] = "brelse"
<1>1. pc[p] = "hold" /\ UNCHANGED <<idevars, bufvars, bp, cachevars>>
  BY Zenon DEF releasesleep
<1>2. PICK b \in Bufs : b = bp[p]
  BY <1>1, Using, Zenon
<1>3. /\ disk' = disk /\ cmd' = cmd /\ irq' = irq /\ idequeue' = idequeue /\ lru' = lru
      /\ flags' = flags /\ blockno' = blockno /\ data' = data
      /\ refcnt' = refcnt /\ bp' = bp /\ want' = want
  BY <1>1, Zenon DEF bufvars, idevars, cachevars
<1>4. lock[b] = p /\ \A q \in Procs : bp[q] = b /\ pc[q] \in Holds => q = p
  BY <1>1, <1>2, OneHolder, Zenon DEF Holds
<1>5. lock' = [lock EXCEPT ![b] = None] /\ pc' = [woken(b) EXCEPT ![p] = "brelse"]
  BY <1>2, <1>4, Zenon DEF releasesleep
<1>6. /\ lock'[b] = None /\ \A c \in Bufs : c # b => lock'[c] = lock[c]
      /\ pc'[p] = "brelse"
      /\ \A q \in Procs : q # p => pc'[q] = IF pc[q] = "sleep" /\ bp[q] = b THEN "acquire" ELSE pc[q]
  BY <1>5, Zenon DEF BioInv, TypeOK, woken
<1>7. TypeOK'
  <2>1. lock' \in [Bufs -> Procs \cup {None}]
    BY <1>5, Zenon DEF BioInv, TypeOK
  <2>2. pc' \in [Procs -> Points]
    BY <1>5, Zenon DEF BioInv, TypeOK, Points, woken
  <2> QED BY <1>3, <2>1, <2>2, Zenon DEF BioInv, TypeOK
<1>8. PcInv' /\ GotWhatItAsked' /\ RefcntExact' /\ OneBufPerBlock' /\ CleanInv'
  <2>1. PcInv'
    BY <1>1, <1>3, <1>6, Zenon DEF BioInv, PcInv
  <2>2. GotWhatItAsked' /\ RefcntExact' /\ OneBufPerBlock' /\ CleanInv'
    BY <1>3 DEF BioInv, GotWhatItAsked, RefcntExact, OneBufPerBlock, CleanInv
  <2> QED BY <2>1, <2>2, Zenon
<1>9. LockInv'
  <2>1. None \notin Procs /\ "brelse" \notin Holds /\ "sleep" \notin Holds /\ "acquire" \notin Holds
    BY IdeAssumption, Zenon DEF Holds
  <2> QED BY <1>2, <1>3, <1>4, <1>6, <2>1 DEF BioInv, LockInv
<1>10. SleepersHaveHolder'
  <2>1. \A q \in Procs : pc[q] = "sleep" => bp[q] \in Bufs
    BY Using, Zenon
  <2> QED BY <1>3, <1>6, <2>1 DEF BioInv, SleepersHaveHolder
<1>11. QueueInv'
  BY <1>1, <1>3, <1>6 DEF BioInv, QueueInv
<1>12. FlagInv'
  BY <1>3, <1>6, Zenon DEF BioInv, FlagInv
<1>13. DriveInv'
  BY <1>1, <1>3, DriveKept, Zenon
<1> QED BY <1>3, <1>6, <1>7, <1>8, <1>9, <1>10, <1>11, <1>12, <1>13, Zenon DEF BioInv

\* The rest of brelse() gives the buffer up.
LEMMA Inv_brelse ==
  ASSUME BioInv, NEW p \in Procs, brelse(p)
  PROVE  BioInv'
<1>1. pc[p] = "brelse" /\ UNCHANGED <<idevars, bufvars, lock>>
  BY Zenon DEF brelse
<1>2. PICK b \in Bufs : b = bp[p]
  BY <1>1, Using, Zenon
<1>3. /\ disk' = disk /\ cmd' = cmd /\ irq' = irq /\ idequeue' = idequeue
      /\ flags' = flags /\ blockno' = blockno /\ data' = data /\ lock' = lock
  BY <1>1, Zenon DEF bufvars, idevars
<1>4. /\ refcnt' = [refcnt EXCEPT ![b] = refcnt[b] - 1]
      /\ lru' = IF refcnt[b] = 1 THEN toFront(b) ELSE lru
      /\ pc' = [pc EXCEPT ![p] = "idle"] /\ bp' = [bp EXCEPT ![p] = None]
      /\ want' = [want EXCEPT ![p] = None]
  BY <1>2, Zenon DEF brelse
<1>5. /\ bp'[p] = None /\ pc'[p] = "idle"
      /\ \A q \in Procs : q # p => bp'[q] = bp[q] /\ pc'[q] = pc[q] /\ want'[q] = want[q]
  BY <1>4, Zenon DEF BioInv, TypeOK
<1>6. RefcntExact' /\ refcnt' \in [Bufs -> 0..Cardinality(Procs)]
  BY <1>2, <1>4, DropUser, Zenon
<1>7. lru' \in Bijection(1..Cardinality(Bufs), Bufs)
  <2>1. toFront(b) \in Bijection(1..Cardinality(Bufs), Bufs)
    BY ToFront, Zenon DEF BioInv, TypeOK
  <2>2. lru' = lru \/ lru' = toFront(b)
    BY <1>4, Zenon
  <2> QED BY <2>1, <2>2, Zenon DEF BioInv, TypeOK
<1>8. TypeOK'
  <2>1. /\ pc' \in [Procs -> Points] /\ bp' \in [Procs -> Bufs \cup {None}]
        /\ want' \in [Procs -> Blocks \cup {None}]
    BY <1>4, Zenon DEF BioInv, TypeOK, Points
  <2> QED BY <1>3, <1>6, <1>7, <2>1, Zenon DEF BioInv, TypeOK
<1>9. PcInv' /\ GotWhatItAsked' /\ OneBufPerBlock' /\ CleanInv' /\ FlagInv' /\ SleepersHaveHolder'
  <2>1. PcInv' /\ GotWhatItAsked'
    BY <1>3, <1>5 DEF BioInv, PcInv, GotWhatItAsked
  <2>2. OneBufPerBlock' /\ CleanInv'
    BY <1>3, Zenon DEF BioInv, OneBufPerBlock, CleanInv
  <2>3. FlagInv' /\ SleepersHaveHolder'
    BY <1>3, <1>5 DEF BioInv, FlagInv, SleepersHaveHolder
  <2> QED BY <2>1, <2>2, <2>3, Zenon
<1>10. LockInv' /\ QueueInv'
  <2>1. None \notin Bufs
    BY IdeAssumption, Zenon
  <2>2. LockInv'
    BY <1>1, <1>3, <1>5, <2>1 DEF BioInv, LockInv, Holds
  <2>3. QueueInv'
    BY <1>1, <1>3, <1>5, <2>1 DEF BioInv, QueueInv
  <2> QED BY <2>2, <2>3, Zenon
<1>11. DriveInv'
  BY <1>1, <1>3, DriveKept, Zenon
<1> QED BY <1>6, <1>7, <1>8, <1>9, <1>10, <1>11, Zenon DEF BioInv

\* iderw() queues the buffer; none of its assertions fails.
LEMMA Inv_iderw ==
  ASSUME BioInv, NEW p \in Procs, iderw(p), UNCHANGED cachevars
  PROVE  BioInv' /\ pc'[p] = "iosleep"
<1>1. pc[p] = "iderw" /\ UNCHANGED <<lock, bp, cachevars>>
  BY Zenon DEF iderw
<1>2. PICK b \in Bufs : b = bp[p]
  BY <1>1, Using, Zenon
<1>3. /\ b \notin Range(idequeue) /\ lock[b] = p
      /\ \A q \in Procs : bp[q] = b /\ pc[q] \in Holds => q = p
  BY <1>1, <1>2, OneHolder, Zenon DEF Holds
<1>4. ~done(b)
  BY <1>1, <1>2, Zenon DEF BioInv, FlagInv, done
<1>5. /\ idequeue' = append(b)
      /\ cmd' = IF idequeue = <<>> THEN idestart(b) ELSE cmd
      /\ pc' = [pc EXCEPT ![p] = "iosleep"]
      /\ UNCHANGED <<disk, irq, bufvars>>
  BY <1>2, <1>3, <1>4, Zenon DEF iderw
<1>6. /\ disk' = disk /\ irq' = irq /\ lru' = lru /\ flags' = flags /\ blockno' = blockno
      /\ data' = data /\ lock' = lock /\ refcnt' = refcnt /\ bp' = bp /\ want' = want
  BY <1>1, <1>5, Zenon DEF bufvars, cachevars
<1>7. pc'[p] = "iosleep" /\ \A q \in Procs : q # p => pc'[q] = pc[q]
  BY <1>5, Zenon DEF BioInv, TypeOK
<1>8. /\ idequeue' \in Seq(Bufs) /\ IsInjective(idequeue') /\ idequeue' # <<>>
      /\ Range(idequeue') = Range(idequeue) \cup {b}
      /\ Head(idequeue') = IF idequeue = <<>> THEN b ELSE Head(idequeue)
  BY <1>3, <1>5, AppendQueue, Zenon DEF BioInv, TypeOK, append
<1>9. TypeOK'
  <2>1. pc' \in [Procs -> Points]
    BY <1>5, Zenon DEF BioInv, TypeOK, Points
  <2> QED BY <1>6, <1>8, <2>1, Zenon DEF BioInv, TypeOK
<1>10. PcInv' /\ GotWhatItAsked' /\ RefcntExact' /\ OneBufPerBlock' /\ CleanInv'
  <2>1. PcInv'
    BY <1>1, <1>6, <1>7, Zenon DEF BioInv, PcInv
  <2>2. GotWhatItAsked' /\ RefcntExact' /\ OneBufPerBlock' /\ CleanInv'
    BY <1>6 DEF BioInv, GotWhatItAsked, RefcntExact, OneBufPerBlock, CleanInv
  <2> QED BY <2>1, <2>2, Zenon
<1>11. LockInv' /\ SleepersHaveHolder' /\ FlagInv'
  BY <1>1, <1>6, <1>7 DEF BioInv, LockInv, SleepersHaveHolder, FlagInv, Holds
<1>12. QueueInv'
  <2>1. Range(idequeue)' = Range(idequeue) \cup {b}
    BY <1>8, Zenon DEF Range
  <2>2. \A c \in Bufs : c \in Range(idequeue) <=> \E q \in Procs : pc[q] = "iosleep" /\ bp[q] = c
    BY Zenon DEF BioInv, QueueInv
  <2>3. \A c \in Bufs : (\E q \in Procs : pc'[q] = "iosleep" /\ bp'[q] = c)
                        <=> c = b \/ \E q \in Procs : pc[q] = "iosleep" /\ bp[q] = c
    BY <1>1, <1>2, <1>6, <1>7, Zenon
  <2> QED BY <2>1, <2>2, <2>3, Zenon DEF QueueInv
<1>13. DriveInv'
  <2>1. irq' \in BOOLEAN /\ (irq' => idequeue' # <<>> /\ cmd' = cmd /\ cmd # Halted)
    BY <1>5, <1>6, <1>8 DEF BioInv, DriveInv
  <2>2. DriveServesHead'
    <3>1. \A c : idestart(c)' = idestart(c)
      BY <1>6, Zenon DEF idestart
    <3> QED BY <1>5, <1>8, <3>1, Zenon DEF BioInv, DriveInv, DriveServesHead
  <2> QED BY <1>6, <2>1, <2>2, Zenon DEF BioInv, DriveInv
<1> QED BY <1>6, <1>7, <1>9, <1>10, <1>11, <1>12, <1>13, Zenon DEF BioInv

\* iderw() returns.
LEMMA Inv_iderw_done ==
  ASSUME BioInv, NEW p \in Procs, iderw_done(p), UNCHANGED cachevars
  PROVE  BioInv'
<1>1. /\ pc[p] = "iowoken" /\ pc' = [pc EXCEPT ![p] = "hold"]
      /\ UNCHANGED <<idevars, bufvars, lock, bp, cachevars>>
  BY Zenon DEF iderw_done
<1>2. /\ disk' = disk /\ cmd' = cmd /\ irq' = irq /\ idequeue' = idequeue /\ lru' = lru
      /\ flags' = flags /\ blockno' = blockno /\ data' = data /\ lock' = lock
      /\ refcnt' = refcnt /\ bp' = bp /\ want' = want
  BY <1>1, Zenon DEF bufvars, idevars, cachevars
<1>3. pc'[p] = "hold" /\ \A q \in Procs : q # p => pc'[q] = pc[q]
  BY <1>1, Zenon DEF BioInv, TypeOK
<1>4. TypeOK'
  <2>1. pc' \in [Procs -> Points]
    BY <1>1, Zenon DEF BioInv, TypeOK, Points
  <2> QED BY <1>2, <2>1, Zenon DEF BioInv, TypeOK
<1>5. PcInv' /\ GotWhatItAsked' /\ RefcntExact' /\ OneBufPerBlock' /\ CleanInv'
  <2>1. PcInv'
    BY <1>1, <1>2, <1>3, Zenon DEF BioInv, PcInv
  <2>2. GotWhatItAsked' /\ RefcntExact' /\ OneBufPerBlock' /\ CleanInv'
    BY <1>2, Zenon DEF BioInv, GotWhatItAsked, RefcntExact, OneBufPerBlock, CleanInv
  <2> QED BY <2>1, <2>2, Zenon
<1>6. LockInv' /\ SleepersHaveHolder' /\ QueueInv'
  <2>1. LockInv'
    BY <1>1, <1>2, <1>3 DEF BioInv, LockInv, Holds
  <2>2. SleepersHaveHolder' /\ QueueInv'
    BY <1>1, <1>2, <1>3 DEF BioInv, SleepersHaveHolder, QueueInv
  <2> QED BY <2>1, <2>2, Zenon
<1>7. FlagInv'
  <2>1. "VALID" \in flags[bp[p]]
    BY <1>1, Zenon DEF BioInv, FlagInv
  <2> QED BY <1>2, <1>3, <2>1, Zenon DEF BioInv, FlagInv
<1>8. DriveInv'
  BY <1>1, <1>2, DriveKept, Zenon
<1> QED BY <1>2, <1>4, <1>5, <1>6, <1>7, <1>8, Zenon DEF BioInv

\* The drive finishes the command of the first buffer of the queue.
LEMMA Inv_complete ==
  ASSUME BioInv, complete, UNCHANGED cachevars
  PROVE  BioInv'
<1>1. /\ cmd # None /\ cmd # Halted /\ irq' = TRUE
      /\ disk' = IF cmd.write THEN [disk EXCEPT ![cmd.block] = cmd.val] ELSE disk
      /\ UNCHANGED <<cmd, idequeue, bufvars, lock, pc, bp, cachevars>>
  BY Zenon DEF complete
<1>2. /\ cmd' = cmd /\ idequeue' = idequeue /\ lru' = lru /\ pc' = pc
      /\ flags' = flags /\ blockno' = blockno /\ data' = data /\ lock' = lock
      /\ refcnt' = refcnt /\ bp' = bp /\ want' = want
  BY <1>1, Zenon DEF bufvars, cachevars
<1>3. idequeue # <<>> /\ cmd = idestart(Head(idequeue))
  BY <1>1, Zenon DEF BioInv, DriveInv, DriveServesHead
<1>4. PICK b \in Bufs : b = Head(idequeue)
  BY <1>3, QueueHead, Zenon
<1>5. /\ cmd.block = blockno[b] /\ cmd.val = data[b] /\ (cmd.write <=> "DIRTY" \in flags[b])
  BY <1>1, <1>3, <1>4, Zenon DEF idestart
<1>6. blockno[b] \in Blocks /\ blockno[b] # None /\ data[b] \in Vals
  <2>1. PICK p \in Procs : pc[p] = "iosleep" /\ bp[p] = b
    BY <1>3, <1>4, QueueHead, Zenon
  <2> QED BY <2>1, Using, Zenon DEF BioInv, TypeOK
<1>7. TypeOK'
  <2>1. disk' \in [Blocks -> Vals]
    BY <1>1, <1>5, <1>6, Zenon DEF BioInv, TypeOK
  <2> QED BY <1>2, <2>1, Zenon DEF BioInv, TypeOK
<1>8. PcInv' /\ GotWhatItAsked' /\ RefcntExact' /\ OneBufPerBlock' /\ FlagInv'
  BY <1>2 DEF BioInv, PcInv, GotWhatItAsked, RefcntExact, OneBufPerBlock, FlagInv
<1>9. LockInv' /\ SleepersHaveHolder' /\ QueueInv'
  BY <1>2, Zenon DEF BioInv, LockInv, SleepersHaveHolder, QueueInv
<1>10. CleanInv'
  <2>1. CASE ~cmd.write
    BY <1>1, <1>2, <2>1, Zenon DEF BioInv, CleanInv
  <2>2. CASE cmd.write
    <3>1. \A k \in Blocks : k # blockno[b] => disk'[k] = disk[k]
      BY <1>1, <1>5, <2>2, Zenon DEF BioInv, TypeOK
    <3>2. \A c \in Bufs : flags[c] = {"VALID"} => blockno[c] # blockno[b]
      <4>1. flags[b] # {"VALID"}
        BY <1>5, <2>2, Zenon
      <4> QED BY <1>6, <4>1, Zenon DEF BioInv, OneBufPerBlock
    <3> QED BY <1>2, <3>1, <3>2, Zenon DEF BioInv, CleanInv, Good
  <2> QED BY <2>1, <2>2, Zenon
<1>11. DriveInv'
  <2>1. cmd.write => disk'[cmd.block] = cmd.val
    BY <1>1, <1>5, <1>6, Zenon DEF BioInv, TypeOK
  <2>2. DriveServesHead'
    BY <1>2, Zenon DEF BioInv, DriveInv, DriveServesHead, idestart
  <2> QED BY <1>1, <1>2, <1>3, <2>1, <2>2, Zenon DEF DriveInv
<1> QED BY <1>2, <1>7, <1>8, <1>9, <1>10, <1>11, Zenon DEF BioInv

\* ideintr() finishes the request of the first buffer and starts the next.
LEMMA Inv_ideintr ==
  ASSUME BioInv, ideintr, UNCHANGED cachevars
  PROVE  BioInv'
<1>1. irq /\ idequeue # <<>> /\ irq' = FALSE /\ UNCHANGED <<disk, blockno, lock, bp, cachevars>>
  BY Zenon DEF ideintr
<1>2. PICK b \in Bufs : b = Head(idequeue)
  BY <1>1, QueueHead, Zenon
<1>3. /\ disk' = disk /\ blockno' = blockno /\ lock' = lock
      /\ refcnt' = refcnt /\ bp' = bp /\ want' = want /\ lru' = lru
  BY <1>1, Zenon DEF cachevars
<1>4. /\ idequeue' = Tail(idequeue) /\ flags' = [flags EXCEPT ![b] = {"VALID"}]
      /\ data' = IF "DIRTY" \notin flags[b] /\ cmd.block \notin BadBlocks
                 THEN [data EXCEPT ![b] = disk[cmd.block]] ELSE data
      /\ pc' = wakeup(b)
      /\ cmd' = IF Len(idequeue) > 1 THEN idestart(idequeue[2]) ELSE None
  BY <1>2, Zenon DEF ideintr
<1>5. /\ cmd.block = blockno[b] /\ cmd.val = data[b] /\ (cmd.write <=> "DIRTY" \in flags[b])
  BY <1>1, <1>2, Zenon DEF BioInv, DriveInv, DriveServesHead, idestart
<1>6. PICK p \in Procs : pc[p] = "iosleep" /\ bp[p] = b
  BY <1>1, <1>2, QueueHead, Zenon
<1>7. blockno[b] \in Blocks
  BY <1>6, Using, Zenon
<1>8. \A q \in Procs : bp[q] = b /\ pc[q] \in Holds => q = p
  BY <1>6, OneHolder, Zenon DEF Holds
<1>9. /\ flags'[b] = {"VALID"}
      /\ \A c \in Bufs : c # b => flags'[c] = flags[c] /\ data'[c] = data[c]
      /\ \A q \in Procs : pc'[q] = IF pc[q] = "iosleep" /\ bp[q] = b THEN "iowoken" ELSE pc[q]
  BY <1>4, Zenon DEF BioInv, TypeOK, wakeup
<1>10. /\ idequeue' \in Seq(Bufs) /\ IsInjective(idequeue')
       /\ Range(idequeue') = Range(idequeue) \ {b}
       /\ idequeue' # <<>> <=> Len(idequeue) > 1
       /\ Len(idequeue) > 1 => Head(idequeue') = idequeue[2]
  BY <1>1, <1>2, <1>4, TailQueue, Zenon DEF BioInv, TypeOK
<1>11. TypeOK'
  <2>1. flags' \in [Bufs -> SUBSET {"VALID", "DIRTY"}]
    BY <1>4, Zenon DEF BioInv, TypeOK
  <2>2. pc' \in [Procs -> Points]
    BY <1>4, Zenon DEF BioInv, TypeOK, Points, wakeup
  <2>3. data' \in [Bufs -> Vals]
    BY <1>4, <1>5, <1>7, Zenon DEF BioInv, TypeOK
  <2> QED BY <1>3, <1>10, <2>1, <2>2, <2>3, Zenon DEF BioInv, TypeOK
<1>12. PcInv' /\ GotWhatItAsked' /\ RefcntExact' /\ OneBufPerBlock' /\ SleepersHaveHolder'
  <2>1. PcInv' /\ SleepersHaveHolder'
    BY <1>3, <1>9, Zenon DEF BioInv, PcInv, SleepersHaveHolder
  <2>2. GotWhatItAsked' /\ RefcntExact' /\ OneBufPerBlock'
    BY <1>3, Zenon DEF BioInv, GotWhatItAsked, RefcntExact, OneBufPerBlock
  <2> QED BY <2>1, <2>2, Zenon
<1>13. LockInv'
  BY <1>3, <1>9 DEF BioInv, LockInv, Holds
<1>14. QueueInv'
  <2>1. Range(idequeue)' = Range(idequeue) \ {b}
    BY <1>10, Zenon DEF Range
  <2>2. \A c \in Bufs : c \in Range(idequeue) <=> \E q \in Procs : pc[q] = "iosleep" /\ bp[q] = c
    BY Zenon DEF BioInv, QueueInv
  <2>3. \A c \in Bufs : (\E q \in Procs : pc'[q] = "iosleep" /\ bp'[q] = c)
                        <=> c # b /\ \E q \in Procs : pc[q] = "iosleep" /\ bp[q] = c
    BY <1>3, <1>9, Zenon
  <2> QED BY <2>1, <2>2, <2>3, Zenon DEF QueueInv
<1>15. FlagInv'
  <2>1. \A q \in Procs : pc[q] \in Holds => bp[q] \in Bufs
    BY Using, Zenon DEF Holds
  <2>2. \A q \in Procs : bp[q] = b /\ pc[q] \in Holds => pc[q] = "iosleep"
    BY <1>6, <1>8, Zenon
  <2> QED BY <1>3, <1>9, <2>1, <2>2 DEF BioInv, FlagInv, Holds
<1>16. CleanInv'
  <2>1. blockno[b] \in Good => data'[b] = disk[blockno[b]]
    <3>1. CASE "DIRTY" \in flags[b]
      BY <1>1, <1>4, <1>5, <3>1, Zenon DEF BioInv, DriveInv
    <3>2. CASE "DIRTY" \notin flags[b]
      BY <1>4, <1>5, <3>2, Zenon DEF BioInv, TypeOK, Good
    <3> QED BY <3>1, <3>2, Zenon
  <2> QED BY <1>3, <1>9, <2>1, Zenon DEF BioInv, CleanInv
<1>17. DriveInv'
  <2>1. CASE Len(idequeue) > 1
    <3>1. PICK c \in Bufs : c = idequeue[2]
      BY <2>1 DEF BioInv, TypeOK
    <3>2. idequeue' # <<>> /\ Head(idequeue') = c /\ cmd' = idestart(c)
      BY <1>4, <1>10, <2>1, <3>1, Zenon
    <3>3. c # b
      <4>1. c \in Range(idequeue')
        BY <1>10, <3>2, TailQueue, Zenon
      <4> QED BY <1>10, <4>1, Zenon
    <3>4. idestart(c)' = idestart(c)
      BY <1>3, <1>9, <3>3, Zenon DEF idestart
    <3>5. DriveServesHead'
      BY <3>2, <3>4, Zenon DEF DriveServesHead
    <3> QED BY <1>1, <3>2, <3>5, Zenon DEF DriveInv
  <2>2. CASE ~(Len(idequeue) > 1)
    <3>1. DriveServesHead'
      BY <1>4, <1>10, <2>2, Zenon DEF DriveServesHead
    <3> QED BY <1>1, <3>1, Zenon DEF DriveInv
  <2> QED BY <2>1, <2>2, Zenon
<1> QED BY <1>3, <1>11, <1>12, <1>13, <1>14, <1>15, <1>16, <1>17, Zenon DEF BioInv

\* binit() leaves every buffer empty and unused.
LEMMA Inv_Init == Init => BioInv
<1> SUFFICES ASSUME Init PROVE BioInv
  BY Zenon
<1>1. /\ disk \in [Blocks -> Vals] /\ cmd = None /\ irq = FALSE /\ idequeue = <<>>
      /\ flags = [b \in Bufs |-> {}] /\ blockno = [b \in Bufs |-> None]
      /\ data \in [Bufs -> Vals]
      /\ lock = [b \in Bufs |-> None] /\ refcnt = [b \in Bufs |-> 0]
      /\ lru \in Bijection(1..Cardinality(Bufs), Bufs)
      /\ pc = [p \in Procs |-> "idle"] /\ bp = [p \in Procs |-> None]
      /\ want = [p \in Procs |-> None]
  BY Zenon DEF Init, IdeInit
<1>2. /\ \A b \in Bufs : flags[b] = {} /\ blockno[b] = None /\ lock[b] = None /\ refcnt[b] = 0
      /\ \A p \in Procs : pc[p] = "idle" /\ bp[p] = None
      /\ None \notin Procs \cup Bufs \cup Blocks
  BY <1>1, IdeAssumption, Zenon
<1>3. idequeue \in Seq(Bufs) /\ IsInjective(idequeue) /\ Range(idequeue) = {}
  BY <1>1 DEF IsInjective, Range
<1>4. RefcntExact
  <2>1. \A b \in Bufs : {p \in Procs : bp[p] = b} = {}
    BY <1>2, Zenon
  <2> QED BY <1>2, <2>1, FS_EmptySet, Zenon DEF RefcntExact
<1>5. TypeOK
  <2>1. Cardinality(Procs) \in Nat
    BY BioAssumption, FS_CardinalityType, Zenon
  <2>2. refcnt \in [Bufs -> 0..Cardinality(Procs)]
    BY <1>1, <2>1
  <2>3. /\ flags \in [Bufs -> SUBSET {"VALID", "DIRTY"}] /\ blockno \in [Bufs -> Blocks \cup {None}]
        /\ lock \in [Bufs -> Procs \cup {None}] /\ bp \in [Procs -> Bufs \cup {None}]
        /\ want \in [Procs -> Blocks \cup {None}]
    BY <1>1, Zenon
  <2>4. pc \in [Procs -> Points]
    BY <1>1, Zenon DEF Points
  <2> QED BY <1>1, <1>3, <2>2, <2>3, <2>4, Zenon DEF TypeOK
<1>6. PcInv /\ LockInv /\ SleepersHaveHolder /\ FlagInv
  BY <1>2, Zenon DEF PcInv, LockInv, SleepersHaveHolder, FlagInv, Holds
<1>7. QueueInv /\ DriveInv
  BY <1>1, <1>2, <1>3, Zenon DEF QueueInv, DriveInv, DriveServesHead
<1>8. OneBufPerBlock /\ GotWhatItAsked /\ CleanInv
  BY <1>2, Zenon DEF OneBufPerBlock, GotWhatItAsked, CleanInv
<1> QED BY <1>4, <1>5, <1>6, <1>7, <1>8, Zenon DEF BioInv

\* Every step of a process, of the drive and of its interrupt preserves the invariant.
LEMMA Inv_Next == BioInv /\ [Next]_vars => BioInv'
<1> SUFFICES ASSUME BioInv, [Next]_vars PROVE BioInv'
  BY Zenon
<1>1. CASE UNCHANGED vars
  <2>1. UNCHANGED <<disk, cmd, irq, idequeue, flags, blockno, data, lock, pc, bp, refcnt, lru, want>>
    BY <1>1, Zenon DEF vars, idevars, bufvars, cachevars
  <2>2. TypeOK'
    BY <2>1, Zenon DEF BioInv, TypeOK
  <2>3. PcInv' /\ LockInv' /\ SleepersHaveHolder' /\ FlagInv' /\ QueueInv'
    BY <2>1 DEF BioInv, PcInv, LockInv, SleepersHaveHolder, FlagInv, QueueInv
  <2>4. DriveInv'
    BY <2>1, Zenon DEF BioInv, DriveInv, DriveServesHead, idestart
  <2>5. OneBufPerBlock' /\ GotWhatItAsked' /\ RefcntExact' /\ CleanInv'
    BY <2>1, Zenon DEF BioInv, OneBufPerBlock, GotWhatItAsked, RefcntExact, CleanInv
  <2> QED BY <2>1, <2>2, <2>3, <2>4, <2>5, Zenon DEF BioInv
<1>2. ASSUME NEW p \in Procs, NEW k \in Blocks, bget(p, k) PROVE BioInv'
  BY <1>2, Inv_bget, Zenon
<1>3. ASSUME NEW p \in Procs, NEW v \in Vals, bwrite(p, v) \/ log_write(p, v) PROVE BioInv'
  BY <1>3, Inv_write, Zenon
<1>4. ASSUME NEW p \in Procs, Step(p) PROVE BioInv'
  BY <1>4, Inv_acquiresleep, Inv_iderw, Inv_iderw_done, Inv_releasesleep, Inv_brelse, Zenon DEF Step, io
<1>5. CASE Drive
  BY <1>5, Inv_complete, Inv_ideintr, Zenon DEF Drive
<1> QED BY <1>1, <1>2, <1>3, <1>4, <1>5, Zenon DEF Next

\* BioInv holds in every state that the cache and the driver can reach, whatever the number
\* of processes, buffers and blocks.
THEOREM BioInvariant == Spec => []BioInv
BY Inv_Init, Inv_Next, PTL DEF Spec

\* CacheSafe, of bget(), brelse(), acquiresleep(), releasesleep(), iderw() and ideintr(),
\* for any number of processes, buffers and blocks: one buffer per block, an exact
\* reference count, and somebody at work for everyone asleep.
THEOREM CacheIsSafe == Spec => []CacheSafe
<1>1. BioInv => QueueIsSleepers
  <2> SUFFICES ASSUME BioInv PROVE QueueIsSleepers
    BY Zenon
  <2>1. ASSUME NEW p \in Procs, pc[p] = "iosleep"
        PROVE  Cardinality({i \in DOMAIN idequeue : idequeue[i] = bp[p]}) = 1
    <3>1. bp[p] \in Range(idequeue)
      BY <2>1, Using, Zenon DEF BioInv, QueueInv
    <3>2. PICK i \in DOMAIN idequeue : idequeue[i] = bp[p]
      BY <3>1, Zenon DEF Range
    <3>3. {j \in DOMAIN idequeue : idequeue[j] = bp[p]} = {i}
      BY <3>2, Zenon DEF BioInv, TypeOK, IsInjective
    <3> QED BY <3>3, FS_Singleton, Zenon
  <2>2. ASSUME NEW i \in DOMAIN idequeue
        PROVE  \E p \in Procs : pc[p] = "iosleep" /\ bp[p] = idequeue[i] /\ lock[bp[p]] = p
    <3>1. idequeue[i] \in Bufs /\ idequeue[i] \in Range(idequeue)
      BY DEF BioInv, TypeOK, Range
    <3>2. PICK p \in Procs : pc[p] = "iosleep" /\ bp[p] = idequeue[i]
      BY <3>1, Zenon DEF BioInv, QueueInv
    <3>3. lock[bp[p]] = p
      BY <3>2, OneHolder, Zenon DEF Holds
    <3> QED BY <3>2, <3>3, Zenon
  <2> QED BY <2>1, <2>2, Zenon DEF QueueIsSleepers
<1>2. BioInv => CacheSafe
  BY <1>1, Zenon DEF BioInv, CacheSafe, DriveInv
<1> QED BY <1>2, BioInvariant, PTL
-----------------------------------------------------------------------------
\* The buffer of a request has a user.
LEMMA HeadUsed ==
  ASSUME BioInv, idequeue # <<>>
  PROVE  refcnt[Head(idequeue)] > 0
<1>1. PICK b \in Bufs : b = Head(idequeue)
  BY QueueHead, Zenon
<1>2. PICK p \in Procs : bp[p] = b
  BY <1>1, QueueHead, Zenon
<1>3. refcnt[b] # 0
  BY <1>2, Unused, Zenon
<1>4. refcnt[b] \in Nat
  BY BioAssumption, FS_CardinalityType DEF BioInv, TypeOK
<1> QED BY <1>1, <1>3, <1>4

\* A step that leaves the buffers, their users and the processes in bget() as they are
\* keeps what bget() found.
LEMMA FullKept ==
  ASSUME FullInv, blockno' = blockno, refcnt' = refcnt, want' = want,
         \A p \in Procs : pc'[p] = "nobuf" => pc[p] = "nobuf",
         \A b \in Bufs : refcnt[b] > 0 \/ "DIRTY" \notin flags[b] \/ "DIRTY" \in flags'[b]
  PROVE  FullInv'
BY Zenon DEF FullInv

\* bget() panics only when every buffer is in use or pinned, and no other step changes that:
\* whoever would release a buffer needs bcache.lock.
LEMMA Full_Next ==
  ASSUME BioInv, FullInv, \A p \in Procs : pc[p] # "panic", Next
  PROVE  FullInv' /\ \A p \in Procs : pc'[p] # "panic"
<1>1. ASSUME NEW p \in Procs, NEW k \in Blocks, bget(p, k)
      PROVE  FullInv' /\ \A q \in Procs : pc'[q] # "panic"
  <2>1. /\ \A q \in Procs : pc[q] # "nobuf"
        /\ want' = [want EXCEPT ![p] = k]
    BY <1>1, Zenon DEF bget, bcache_free
  <2>2. CASE \A b \in Bufs : blockno[b] # k /\ ~unused(b)
    <3>1. /\ pc' = [pc EXCEPT ![p] = "nobuf"] /\ blockno' = blockno /\ refcnt' = refcnt
          /\ flags' = flags
      BY <1>1, <2>2, Zenon DEF bget, bufvars
    <3>2. /\ \A q \in Procs : q # p => pc'[q] = pc[q]
          /\ pc'[p] = "nobuf" /\ want'[p] = k
      BY <2>1, <3>1, Zenon DEF BioInv, TypeOK
    <3>3. \A b \in Bufs : refcnt[b] > 0 \/ "DIRTY" \in flags[b]
      <4>1. \A b \in Bufs : refcnt[b] \in Nat
        BY BioAssumption, FS_CardinalityType DEF BioInv, TypeOK
      <4> QED BY <2>2, <4>1 DEF unused
    <3>4. FullInv'
      BY <2>1, <2>2, <3>1, <3>2, <3>3, Zenon DEF FullInv
    <3> QED BY <3>2, <3>4, Zenon
  <2>3. CASE ~(\A b \in Bufs : blockno[b] # k /\ ~unused(b))
    <3>1. pc' = [pc EXCEPT ![p] = "acquire"]
      BY <1>1, <2>3, Zenon DEF bget, bget_hit, bget_recycle
    <3>2. \A q \in Procs : pc'[q] # "nobuf" /\ pc'[q] # "panic"
      BY <2>1, <3>1, Zenon DEF BioInv, TypeOK
    <3> QED BY <3>2, Zenon DEF FullInv
  <2> QED BY <2>2, <2>3, Zenon
<1>2. ASSUME NEW p \in Procs, NEW v \in Vals, bwrite(p, v) \/ log_write(p, v)
      PROVE  FullInv' /\ \A q \in Procs : pc'[q] # "panic"
  <2>1. pc[p] = "hold" /\ blockno' = blockno /\ refcnt' = refcnt /\ want' = want
    BY <1>2, Zenon DEF bwrite, log_write, cachevars
  <2>2. lock[bp[p]] = p
    BY <2>1, OneHolder, Zenon DEF Holds
  <2>3. /\ pc' = [pc EXCEPT ![p] = pc'[p]] /\ pc'[p] \in {"hold", "iderw"}
        /\ flags' = [flags EXCEPT ![bp[p]] = @ \cup {"DIRTY"}]
    BY <1>2, <2>1, <2>2, Zenon DEF bwrite, log_write, BioInv, TypeOK
  <2>4. \A q \in Procs : q # p => pc'[q] = pc[q]
    BY <2>3, Zenon DEF BioInv, TypeOK
  <2>5. \A b \in Bufs : "DIRTY" \in flags[b] => "DIRTY" \in flags'[b]
    BY <2>3, Zenon DEF BioInv, TypeOK
  <2>6. \A q \in Procs : pc'[q] # "panic" /\ (pc'[q] = "nobuf" => pc[q] = "nobuf")
    BY <2>3, <2>4, Zenon
  <2> QED BY <2>1, <2>5, <2>6, FullKept, Zenon
<1>3. ASSUME NEW p \in Procs, acquiresleep(p) \/ io(p) \/ releasesleep(p)
      PROVE  FullInv' /\ \A q \in Procs : pc'[q] # "panic"
  <2>1. blockno' = blockno /\ refcnt' = refcnt /\ want' = want /\ flags' = flags
    BY <1>3, Zenon DEF acquiresleep, io, iderw, iderw_done, releasesleep, bufvars, cachevars
  <2>2. pc'[p] \notin {"panic", "nobuf"}
    <3>1. CASE acquiresleep(p)
      BY <3>1, Zenon DEF acquiresleep, BioInv, TypeOK
    <3>2. CASE io(p)
      <4>1. CASE iderw(p)
        <5>1. pc'[p] = "iosleep"
          BY <3>2, <4>1, Inv_iderw, Zenon DEF io
        <5> QED BY <5>1, Zenon
      <4>2. CASE iderw_done(p)
        BY <4>2, Zenon DEF iderw_done, BioInv, TypeOK
      <4> QED BY <3>2, <4>1, <4>2, Zenon DEF io
    <3>3. CASE releasesleep(p)
      <4>1. pc'[p] = "brelse"
        BY <3>3, Inv_releasesleep, Zenon
      <4> QED BY <4>1, Zenon
    <3> QED BY <1>3, <3>1, <3>2, <3>3, Zenon
  <2>3. \A q \in Procs : q # p => pc'[q] = pc[q] \/ pc'[q] = "acquire"
    BY <1>3, Zenon DEF acquiresleep, io, iderw, iderw_done, releasesleep, woken, BioInv, TypeOK
  <2>4. \A q \in Procs : pc'[q] # "panic" /\ (pc'[q] = "nobuf" => pc[q] = "nobuf")
    BY <2>2, <2>3, Zenon
  <2> QED BY <2>1, <2>4, FullKept, Zenon
<1>4. ASSUME NEW p \in Procs, brelse(p)
      PROVE  FullInv' /\ \A q \in Procs : pc'[q] # "panic"
  <2>1. (\A q \in Procs : pc[q] # "nobuf") /\ pc' = [pc EXCEPT ![p] = "idle"]
    BY <1>4, Zenon DEF brelse, bcache_free
  <2>2. \A q \in Procs : pc'[q] # "nobuf" /\ pc'[q] # "panic"
    BY <2>1, Zenon DEF BioInv, TypeOK
  <2> QED BY <2>2, Zenon DEF FullInv
<1>5. ASSUME Drive
      PROVE  FullInv' /\ \A q \in Procs : pc'[q] # "panic"
  <2>1. blockno' = blockno /\ refcnt' = refcnt /\ want' = want
    BY <1>5, Zenon DEF Drive, complete, ideintr, bufvars, cachevars
  <2>2. \A q \in Procs : pc'[q] = pc[q] \/ pc'[q] = "iowoken"
    BY <1>5, Zenon DEF Drive, complete, ideintr, wakeup
  <2>3. \A q \in Procs : pc'[q] # "panic" /\ (pc'[q] = "nobuf" => pc[q] = "nobuf")
    BY <2>2, Zenon
  <2>4. CASE complete
    <3>1. flags' = flags
      BY <2>4, Zenon DEF complete, bufvars
    <3> QED BY <2>1, <2>3, <3>1, FullKept, Zenon
  <2>5. CASE ideintr
    <3>1. idequeue # <<>> /\ flags' = [flags EXCEPT ![Head(idequeue)] = {"VALID"}]
      BY <2>5, Zenon DEF ideintr
    <3>2. \A b \in Bufs : b # Head(idequeue) => flags'[b] = flags[b]
      BY <3>1, Zenon DEF BioInv, TypeOK
    <3>3. \A b \in Bufs : refcnt[b] > 0 \/ "DIRTY" \notin flags[b] \/ "DIRTY" \in flags'[b]
      BY <3>1, <3>2, HeadUsed, Zenon
    <3> QED BY <2>1, <2>3, <3>3, FullKept, Zenon
  <2> QED BY <1>5, <2>4, <2>5, Zenon DEF Drive
<1> QED BY <1>1, <1>2, <1>3, <1>4, <1>5, Zenon DEF Next, Step

\* For any number of processes, buffers and blocks, and whatever the log has pinned: no
\* assertion of bwrite(), brelse() or iderw() fails, and bget() panics only when the block is
\* not cached and every buffer is in use or pinned, which then stays so.
THEOREM PanicsOnlyWhenFull == Spec => []PanicOnlyWhenFull
<1> DEFINE I == BioInv /\ FullInv /\ \A p \in Procs : pc[p] # "panic"
<1>1. Init => I
  <2> SUFFICES ASSUME Init PROVE I
    BY Zenon
  <2>1. \A p \in Procs : pc[p] # "panic" /\ pc[p] # "nobuf"
    BY Zenon DEF Init
  <2> QED BY <2>1, Inv_Init, Zenon DEF FullInv
<1>2. I /\ [Next]_vars => I'
  <2> SUFFICES ASSUME I, [Next]_vars PROVE I'
    BY Zenon
  <2>1. BioInv'
    BY Inv_Next, Zenon
  <2>2. CASE UNCHANGED vars
    <3>1. flags' = flags /\ blockno' = blockno /\ refcnt' = refcnt /\ want' = want /\ pc' = pc
      BY <2>2, Zenon DEF vars, bufvars, cachevars
    <3> QED BY <2>1, <3>1, FullKept, Zenon
  <2>3. CASE Next
    BY <2>1, <2>3, Full_Next, Zenon
  <2> QED BY <2>2, <2>3, Zenon
<1>3. I => PanicOnlyWhenFull
  <2> SUFFICES ASSUME I PROVE PanicOnlyWhenFull
    BY Zenon
  <2>1. ASSUME cmd = Halted PROVE \E p \in Procs : want[p] \in Beyond
    <3>1. idequeue # <<>> /\ idestart(Head(idequeue)) = Halted
      BY <2>1, IdeAssumption, Zenon DEF BioInv, DriveInv, DriveServesHead
    <3>2. PICK b \in Bufs : b = Head(idequeue)
      BY <3>1, QueueHead, Zenon
    <3>3. PICK p \in Procs : pc[p] = "iosleep" /\ bp[p] = b
      BY <3>1, <3>2, QueueHead, Zenon
    <3>4. blockno[b] \in Blocks /\ blockno[b] = want[p] /\ data[b] \in Vals
      BY <3>3, Using, Zenon DEF BioInv, GotWhatItAsked, TypeOK
    <3>5. [write |-> "DIRTY" \in flags[b], block |-> blockno[b], val |-> data[b]]
            \in [write : BOOLEAN, block : Blocks, val : Vals]
      BY <3>4
    <3>6. blockno[b] \in Beyond
      BY <3>1, <3>2, <3>5, IdeAssumption, Zenon DEF idestart
    <3> QED BY <3>4, <3>6, Zenon
  <2> QED BY <2>1, Zenon DEF FullInv, PanicOnlyWhenFull
<1> QED BY <1>1, <1>2, <1>3, PTL DEF Spec

-----------------------------------------------------------------------------
\* The processes that have block k and find its data in its buffer.
Has(p, k) == bp[p] # None /\ want[p] = k /\ lock[bp[p]] = p /\ "VALID" \in flags[bp[p]]
Holders(k) == {p \in Procs : Has(p, k)}

\* What the next holder of a cached block, and of one not cached, finds.
VisibleOK == \A k \in Good :
  /\ \A b \in Bufs : blockno[b] = k => Visible(k) = IF "VALID" \in flags[b] THEN data[b] ELSE disk[k]
  /\ (\A b \in Bufs : blockno[b] # k) => Visible(k) = disk[k]

\* In every state of the invariant that is what they find.
LEMMA VisibleIs == BioInv => VisibleOK
<1> SUFFICES ASSUME BioInv, NEW k \in Good
             PROVE  /\ \A b \in Bufs : blockno[b] = k =>
                         Visible(k) = IF "VALID" \in flags[b] THEN data[b] ELSE disk[k]
                    /\ (\A b \in Bufs : blockno[b] # k) => Visible(k) = disk[k]
  BY Zenon DEF VisibleOK
<1>1. ASSUME NEW b \in Bufs, blockno[b] = k
      PROVE  Visible(k) = IF "VALID" \in flags[b] THEN data[b] ELSE disk[k]
  <2>1. k # None
    BY IdeAssumption, Zenon DEF Good
  <2>2. \A c \in Bufs : blockno[c] = k => c = b
    BY <1>1, <2>1, Zenon DEF BioInv, OneBufPerBlock
  <2>3. (CHOOSE c \in Bufs : blockno[c] = k) = b
    BY <1>1, <2>2, Zenon
  <2> QED BY <1>1, <2>2, <2>3, Zenon DEF Visible
<1>2. (\A b \in Bufs : blockno[b] # k) => Visible(k) = disk[k]
  BY Zenon DEF Visible
<1> QED BY <1>1, <1>2, Zenon

\* No two processes have the same block.
LEMMA OneOwner ==
  ASSUME BioInv, NEW k \in Good, NEW p \in Holders(k)
  PROVE  /\ Holders(k) = {p} /\ bp[p] \in Bufs /\ blockno[bp[p]] = k /\ pc[p] \in Holds
<1>1. /\ p \in Procs /\ bp[p] # None /\ want[p] = k /\ lock[bp[p]] = p
      /\ bp[p] \in Bufs /\ blockno[bp[p]] = k /\ k # None
  BY IdeAssumption, Zenon DEF Holders, Has, BioInv, TypeOK, GotWhatItAsked, Good
<1>2. pc[p] \in Holds
  BY <1>1, Zenon DEF BioInv, LockInv
<1>3. ASSUME NEW q \in Holders(k) PROVE q = p
  <2>1. /\ bp[q] \in Bufs /\ blockno[bp[q]] = k /\ lock[bp[q]] = q
    BY Zenon DEF Holders, Has, BioInv, TypeOK, GotWhatItAsked
  <2>2. bp[q] = bp[p]
    BY <1>1, <2>1, Zenon DEF BioInv, OneBufPerBlock
  <2> QED BY <1>1, <2>1, <2>2, Zenon
<1> QED BY <1>1, <1>2, <1>3, Zenon

\* The holder of a block is the only one of its holders.
LEMMA HolderIs ==
  ASSUME NEW k
  PROVE  /\ Holders(k) = {} => Holder(k) = None
         /\ \A p : Holders(k) = {p} => Holder(k) = p
<1>1. Holder(k) = IF Holders(k) = {} THEN None ELSE CHOOSE p \in Holders(k) : TRUE
  BY Zenon DEF Holder, Holders, Has
<1> QED BY <1>1, Zenon

\* The same of the next state.
LEMMA NextIs == ASSUME BioInv' PROVE VisibleOK'
<1>1. (BioInv => VisibleOK)'
  BY VisibleIs, PTL
<1> QED BY <1>1, Zenon

\* The same after a step.
LEMMA NextHolderIs ==
  ASSUME NEW k
  PROVE  /\ Holders(k)' = {} => Holder(k)' = None
         /\ \A p : Holders(k)' = {p} => Holder(k)' = p
         /\ Holders(k)' = Holders(k) => Holder(k)' = Holder(k)
<1>1. Holder(k) = IF Holders(k) = {} THEN None ELSE CHOOSE p \in Holders(k) : TRUE
  BY Zenon DEF Holder, Holders, Has
<1>2. Holder(k)' = IF Holders(k)' = {} THEN None ELSE CHOOSE p \in Holders(k)' : TRUE
  BY Zenon DEF Holder, Holders, Has
<1>3. Holders(k)' = Holders(k) => Holder(k)' = Holder(k)
  <2> SUFFICES ASSUME Holders(k)' = Holders(k) PROVE Holder(k)' = Holder(k)
    BY Zenon
  <2>1. PICK S : S = Holders(k)
    BY Zenon
  <2>2. Holder(k) = IF S = {} THEN None ELSE CHOOSE p \in S : TRUE
    BY <1>1, <2>1, Zenon
  <2>3. Holder(k)' = IF S = {} THEN None ELSE CHOOSE p \in S : TRUE
    BY <1>2, <2>1, Zenon
  <2> QED BY <2>2, <2>3, Zenon
<1> QED BY <1>2, <1>3, Zenon

\* A step of the store as its users see it, ...
StoreStep == [Store!Next]_<<[k \in Good |-> Visible(k)], [k \in Good |-> Holder(k)]>>

\* ... which is none when each block has the same content and holder as before, ...
LEMMA StoreKept ==
  ASSUME \A k \in Good : Visible(k)' = Visible(k) /\ Holders(k)' = Holders(k)
  PROVE  StoreStep
<1>1. \A k \in Good : Holder(k)' = Holder(k)
  BY NextHolderIs, Zenon
<1>2. [k \in Good |-> Visible(k)]' = [k \in Good |-> Visible(k)]
  BY Zenon
<1>3. [k \in Good |-> Holder(k)]' = [k \in Good |-> Holder(k)]
  BY <1>1, Zenon
<1> QED BY <1>2, <1>3, Zenon DEF StoreStep

\* ... bread() when a process gets a block that nobody had, ...
LEMMA StoreGet ==
  ASSUME NEW p \in Procs, NEW k \in Good, Holders(k) = {}, Holders(k)' = {p},
         \A j \in Good : j # k => Holders(j)' = Holders(j),
         \A j \in Good : Visible(j)' = Visible(j)
  PROVE  StoreStep
<1>1. Holder(k) = None /\ Holder(k)' = p /\ \A j \in Good : j # k => Holder(j)' = Holder(j)
  BY HolderIs, NextHolderIs, Zenon
<1>2. [j \in Good |-> Visible(j)]' = [j \in Good |-> Visible(j)]
  BY Zenon
<1>3. [j \in Good |-> Holder(j)]' = [[j \in Good |-> Holder(j)] EXCEPT ![k] = p]
  BY <1>1, Zenon
<1>4. Store!Get(p, k)
  BY <1>1, <1>2, <1>3, Zenon DEF Store!Get
<1> QED BY <1>4, Zenon DEF StoreStep, Store!Next

\* ... brelse() when it gives the block up, ...
LEMMA StoreRelease ==
  ASSUME NEW p \in Procs, NEW k \in Good, Holders(k) = {p}, Holders(k)' = {},
         \A j \in Good : j # k => Holders(j)' = Holders(j),
         \A j \in Good : Visible(j)' = Visible(j)
  PROVE  StoreStep
<1>1. Holder(k) = p /\ Holder(k)' = None /\ \A j \in Good : j # k => Holder(j)' = Holder(j)
  BY HolderIs, NextHolderIs, Zenon
<1>2. [j \in Good |-> Visible(j)]' = [j \in Good |-> Visible(j)]
  BY Zenon
<1>3. [j \in Good |-> Holder(j)]' = [[j \in Good |-> Holder(j)] EXCEPT ![k] = None]
  BY <1>1, Zenon
<1>4. Store!Release(p, k)
  BY <1>1, <1>2, <1>3, Zenon DEF Store!Release
<1> QED BY <1>4, Zenon DEF StoreStep, Store!Next

\* ... and bwrite() or log_write() when its holder changes it.
LEMMA StorePut ==
  ASSUME NEW p \in Procs, NEW k \in Good, NEW v \in Vals, Holders(k) = {p}, Visible(k)' = v,
         \A j \in Good : Holders(j)' = Holders(j),
         \A j \in Good : j # k => Visible(j)' = Visible(j)
  PROVE  StoreStep
<1>1. Holder(k) = p /\ \A j \in Good : Holder(j)' = Holder(j)
  BY HolderIs, NextHolderIs, Zenon
<1>2. [j \in Good |-> Holder(j)]' = [j \in Good |-> Holder(j)]
  BY <1>1, Zenon
<1>3. [j \in Good |-> Visible(j)]' = [[j \in Good |-> Visible(j)] EXCEPT ![k] = v]
  BY Zenon
<1>4. Store!Put(p, k, v)
  BY <1>1, <1>2, <1>3, Zenon DEF Store!Put
<1> QED BY <1>4, Zenon DEF StoreStep, Store!Next

\* A block's content stays when no buffer changes its block and the buffer or
\* the disk, whichever has the block, keeps it.
LEMMA VisibleKept ==
  ASSUME VisibleOK, VisibleOK', NEW k \in Good, blockno' = blockno,
         (\A b \in Bufs : blockno[b] # k) => disk'[k] = disk[k],
         \A b \in Bufs : blockno[b] = k =>
           (IF "VALID" \in flags'[b] THEN data'[b] ELSE disk'[k])
             = (IF "VALID" \in flags[b] THEN data[b] ELSE disk[k])
  PROVE  Visible(k)' = Visible(k)
<1>1. CASE \A b \in Bufs : blockno[b] # k
  BY <1>1, Zenon DEF VisibleOK
<1>2. ASSUME NEW b \in Bufs, blockno[b] = k PROVE Visible(k)' = Visible(k)
  <2>1. Visible(k) = IF "VALID" \in flags[b] THEN data[b] ELSE disk[k]
    BY <1>2, Zenon DEF VisibleOK
  <2>2. Visible(k)' = IF "VALID" \in flags'[b] THEN data'[b] ELSE disk'[k]
    BY <1>2, Zenon DEF VisibleOK
  <2> QED BY <1>2, <2>1, <2>2, Zenon
<1> QED BY <1>1, <1>2, Zenon

\* bget() changes the buffer of a block and not what a user finds in it.
LEMMA Ref_bget ==
  ASSUME BioInv, BioInv', NEW p \in Procs, NEW k \in Blocks, bget(p, k)
  PROVE  StoreStep
<1>1. pc[p] = "idle" /\ disk' = disk /\ lock' = lock /\ want' = [want EXCEPT ![p] = k]
  BY Zenon DEF bget, idevars
<1>2. bp[p] = None /\ \A b \in Bufs : lock[b] # p
  BY <1>1 DEF BioInv, PcInv, LockInv, Holds
<1>3. VisibleOK /\ VisibleOK'
  BY VisibleIs, NextIs, Zenon
<1>4. CASE bget_hit(p, k)
  <2>1. PICK b \in Bufs : bp' = [bp EXCEPT ![p] = b] /\ UNCHANGED bufvars
    BY <1>4, Zenon DEF bget_hit
  <2>2. flags' = flags /\ blockno' = blockno /\ data' = data
    BY <2>1, Zenon DEF bufvars
  <2>3. /\ bp'[p] = b /\ \A q \in Procs : q # p => bp'[q] = bp[q] /\ want'[q] = want[q]
    BY <1>1, <2>1, Zenon DEF BioInv, TypeOK
  <2>4. \A q \in Procs, j \in Good : Has(q, j)' <=> Has(q, j)
    BY <1>1, <1>2, <2>2, <2>3, Zenon DEF Has
  <2>5. \A j \in Good : Holders(j)' = Holders(j)
    BY <2>4, Zenon DEF Holders
  <2>6. \A j \in Good : Visible(j)' = Visible(j)
    BY <1>1, <1>3, <2>2, VisibleKept, Zenon
  <2> QED BY <2>5, <2>6, StoreKept, Zenon
<1>5. CASE bget_recycle(p, k)
  <2>1. PICK b \in Bufs : /\ victim(b) /\ bp' = [bp EXCEPT ![p] = b]
                          /\ blockno' = [blockno EXCEPT ![b] = k]
                          /\ flags' = [flags EXCEPT ![b] = {}] /\ data' = data
    BY <1>5, Zenon DEF bget_recycle
  <2>2. refcnt[b] = 0 /\ "DIRTY" \notin flags[b] /\ \A c \in Bufs : blockno[c] # k
    BY <1>5, <2>1, Zenon DEF victim, unused, bget_recycle
  <2>3. \A q \in Procs : bp[q] # b
    BY <2>2, Unused, Zenon
  <2>4. /\ bp'[p] = b /\ \A q \in Procs : q # p => bp'[q] = bp[q] /\ want'[q] = want[q]
        /\ blockno'[b] = k /\ flags'[b] = {}
        /\ \A c \in Bufs : c # b => blockno'[c] = blockno[c] /\ flags'[c] = flags[c]
    BY <1>1, <2>1 DEF BioInv, TypeOK
  <2>5. \A q \in Procs, j \in Good : Has(q, j)' <=> Has(q, j)
    <3>1. \A q \in Procs : bp[q] # None => bp[q] \in Bufs /\ bp[q] # b
      BY <2>3, Zenon DEF BioInv, TypeOK
    <3> QED BY <1>1, <1>2, <2>4, <3>1 DEF Has
  <2>6. \A j \in Good : Holders(j)' = Holders(j)
    BY <2>5, Zenon DEF Holders
  <2>7. ASSUME NEW j \in Good PROVE Visible(j)' = Visible(j)
    <3>1. CASE j = k
      <4>1. Visible(j) = disk[j]
        BY <1>3, <2>2, <3>1, Zenon DEF VisibleOK
      <4>2. Visible(j)' = disk'[j]
        BY <1>3, <2>4, <3>1, Zenon DEF VisibleOK
      <4> QED BY <1>1, <4>1, <4>2, Zenon
    <3>2. CASE j # k /\ blockno[b] = j
      <4>1. \A c \in Bufs : blockno'[c] # j
        <5>1. j # None
          BY IdeAssumption, Zenon DEF Good
        <5> QED BY <2>4, <3>2, <5>1 DEF BioInv, OneBufPerBlock
      <4>2. Visible(j)' = disk'[j]
        BY <1>3, <4>1, Zenon DEF VisibleOK
      <4>3. Visible(j) = IF "VALID" \in flags[b] THEN data[b] ELSE disk[j]
        BY <1>3, <3>2, Zenon DEF VisibleOK
      <4>4. "VALID" \in flags[b] => flags[b] = {"VALID"}
        BY <2>2 DEF BioInv, TypeOK
      <4>5. "VALID" \in flags[b] => data[b] = disk[j]
        BY <3>2, <4>4, Zenon DEF BioInv, CleanInv
      <4> QED BY <1>1, <4>2, <4>3, <4>5, Zenon
    <3>3. CASE j # k /\ blockno[b] # j /\ \E c \in Bufs : blockno[c] = j
      <4>1. PICK c \in Bufs : blockno[c] = j
        BY <3>3, Zenon
      <4>2. c # b /\ blockno'[c] = j /\ flags'[c] = flags[c] /\ data'[c] = data[c]
        BY <2>1, <2>4, <3>3, <4>1, Zenon
      <4>3. Visible(j) = IF "VALID" \in flags[c] THEN data[c] ELSE disk[j]
        BY <1>3, <4>1, Zenon DEF VisibleOK
      <4>4. Visible(j)' = IF "VALID" \in flags'[c] THEN data'[c] ELSE disk'[j]
        BY <1>3, <4>2, Zenon DEF VisibleOK
      <4> QED BY <1>1, <4>2, <4>3, <4>4, Zenon
    <3>4. CASE j # k /\ \A c \in Bufs : blockno[c] # j
      <4>1. \A c \in Bufs : blockno'[c] # j
        BY <2>4, <3>4, Zenon
      <4> QED BY <1>1, <1>3, <3>4, <4>1, Zenon DEF VisibleOK
    <3> QED BY <3>1, <3>2, <3>3, <3>4, Zenon
  <2> QED BY <2>6, <2>7, StoreKept, Zenon
<1>6. CASE ~bget_hit(p, k) /\ ~bget_recycle(p, k)
  <2>1. flags' = flags /\ blockno' = blockno /\ data' = data /\ bp' = bp
    BY <1>6, Zenon DEF bget, bufvars
  <2>2. \A q \in Procs : q # p => want'[q] = want[q]
    BY <1>1, Zenon DEF BioInv, TypeOK
  <2>3. \A q \in Procs, j \in Good : Has(q, j)' <=> Has(q, j)
    BY <1>1, <1>2, <2>1, <2>2, Zenon DEF Has
  <2>4. \A j \in Good : Holders(j)' = Holders(j)
    BY <2>3, Zenon DEF Holders
  <2>5. \A j \in Good : Visible(j)' = Visible(j)
    BY <1>1, <1>3, <2>1, VisibleKept, Zenon
  <2> QED BY <2>4, <2>5, StoreKept, Zenon
<1> QED BY <1>4, <1>5, <1>6, Zenon

\* A step that changes neither the data nor their place.
LEMMA DataKept ==
  ASSUME BioInv, BioInv', UNCHANGED bufvars, disk' = disk
  PROVE  \A k \in Good : Visible(k)' = Visible(k)
<1>1. VisibleOK /\ VisibleOK' /\ flags' = flags /\ blockno' = blockno /\ data' = data
  BY VisibleIs, NextIs, Zenon DEF bufvars
<1> QED BY <1>1, VisibleKept, Zenon

\* acquiresleep() ends bread() when the buffer has the data.
LEMMA Ref_acquiresleep ==
  ASSUME BioInv, BioInv', NEW p \in Procs, acquiresleep(p)
  PROVE  StoreStep
<1>1. pc[p] = "acquire" /\ UNCHANGED <<idevars, bufvars, bp, cachevars>>
  BY Zenon DEF acquiresleep
<1>2. PICK b \in Bufs : b = bp[p]
  BY <1>1, Using, Zenon
<1>3. disk' = disk /\ flags' = flags /\ blockno' = blockno /\ bp' = bp /\ want' = want
  BY <1>1, Zenon DEF bufvars, idevars, cachevars
<1>4. \A k \in Good : Visible(k)' = Visible(k)
  BY <1>1, <1>3, DataKept, Zenon
<1>5. lock[b] # p /\ None \notin Procs /\ b # None /\ blockno[b] = want[p]
  BY <1>1, <1>2, Using, IdeAssumption DEF BioInv, LockInv, Holds
<1>6. CASE lock[b] # None \/ "VALID" \notin flags[b]
  <2>1. lock' = lock \/ (lock' = [lock EXCEPT ![b] = p] /\ lock[b] = None /\ "VALID" \notin flags[b])
    BY <1>2, <1>6, Zenon DEF acquiresleep
  <2>2. \A q \in Procs : q # p /\ bp[q] # None => bp[q] \in Bufs
    BY Zenon DEF BioInv, TypeOK
  <2>3. \A q \in Procs, j \in Good : Has(q, j)' <=> Has(q, j)
    <3>1. CASE lock' = lock
      BY <1>3, <3>1, Zenon DEF Has
    <3>2. CASE lock' = [lock EXCEPT ![b] = p] /\ lock[b] = None /\ "VALID" \notin flags[b]
      <4>1. lock'[b] = p /\ \A c \in Bufs : c # b => lock'[c] = lock[c]
        BY <3>2, Zenon DEF BioInv, TypeOK
      <4> QED BY <1>2, <1>3, <1>5, <2>2, <3>2, <4>1 DEF Has
    <3> QED BY <2>1, <3>1, <3>2, Zenon
  <2>4. \A j \in Good : Holders(j)' = Holders(j)
    BY <2>3, Zenon DEF Holders
  <2> QED BY <1>4, <2>4, StoreKept, Zenon
<1>7. CASE lock[b] = None /\ "VALID" \in flags[b]
  <2>1. lock' = [lock EXCEPT ![b] = p]
    BY <1>2, <1>7, Zenon DEF acquiresleep
  <2>2. lock'[b] = p /\ \A c \in Bufs : c # b => lock'[c] = lock[c]
    BY <2>1, Zenon DEF BioInv, TypeOK
  <2>3. \A q \in Procs : bp[q] # None => bp[q] \in Bufs
    BY Zenon DEF BioInv, TypeOK
  <2>4. \A q \in Procs, j \in Good : q # p => (Has(q, j)' <=> Has(q, j))
    BY <1>3, <1>5, <1>7, <2>2, <2>3, Zenon DEF Has
  <2>5. \A j \in Good : ~Has(p, j) /\ (Has(p, j)' <=> j = want[p])
    BY <1>2, <1>3, <1>5, <1>7, <2>2, Zenon DEF Has
  <2>6. CASE want[p] \in Good
    <3>1. PICK k \in Good : k = want[p]
      BY <2>6, Zenon
    <3>2. Holders(k) = {}
      <4>1. ASSUME NEW q \in Holders(k) PROVE FALSE
        <5>1. bp[q] \in Bufs /\ blockno[bp[q]] = k /\ lock[bp[q]] = q /\ q \in Procs
          BY OneOwner, Zenon DEF Holders, Has
        <5>2. bp[q] = b
          BY <1>5, <3>1, <5>1, IdeAssumption, Zenon DEF BioInv, OneBufPerBlock, Good
        <5> QED BY <1>5, <1>7, <5>1, <5>2, Zenon
      <4> QED BY <4>1, Zenon
    <3>3. Holders(k)' = {p}
      <4>1. \A q \in Procs : Has(q, k)' <=> q = p
        BY <2>4, <2>5, <3>1, <3>2, Zenon DEF Holders
      <4> QED BY <4>1, Zenon DEF Holders
    <3>4. \A j \in Good : j # k => Holders(j)' = Holders(j)
      <4>1. \A q \in Procs, j \in Good : j # k => (Has(q, j)' <=> Has(q, j))
        BY <2>4, <2>5, <3>1, Zenon
      <4> QED BY <4>1, Zenon DEF Holders
    <3> QED BY <1>4, <3>2, <3>3, <3>4, StoreGet, Zenon
  <2>7. CASE want[p] \notin Good
    <3>1. \A q \in Procs, j \in Good : Has(q, j)' <=> Has(q, j)
      BY <2>4, <2>5, <2>7, Zenon
    <3>2. \A j \in Good : Holders(j)' = Holders(j)
      BY <3>1, Zenon DEF Holders
    <3> QED BY <1>4, <3>2, StoreKept, Zenon
  <2> QED BY <2>6, <2>7, Zenon
<1> QED BY <1>6, <1>7, Zenon

\* bwrite() and log_write() store what the holder writes.
LEMMA Ref_write ==
  ASSUME BioInv, BioInv', NEW p \in Procs, NEW v \in Vals, bwrite(p, v) \/ log_write(p, v)
  PROVE  StoreStep
<1>1. pc[p] = "hold" /\ UNCHANGED <<idevars, blockno, lock, bp, cachevars>>
  BY Zenon DEF bwrite, log_write
<1>2. PICK b \in Bufs : b = bp[p]
  BY <1>1, Using, Zenon
<1>3. disk' = disk /\ blockno' = blockno /\ lock' = lock /\ bp' = bp /\ want' = want
  BY <1>1, Zenon DEF idevars, cachevars
<1>4. data' = [data EXCEPT ![b] = v] /\ flags' = [flags EXCEPT ![b] = @ \cup {"DIRTY"}]
  <2>1. lock[bp[p]] = p
    BY <1>1, OneHolder, Zenon DEF Holds
  <2> QED BY <1>2, <2>1, Zenon DEF bwrite, log_write
<1>5. /\ data'[b] = v /\ flags'[b] = flags[b] \cup {"DIRTY"}
      /\ \A c \in Bufs : c # b => flags'[c] = flags[c] /\ data'[c] = data[c]
  BY <1>4, Zenon DEF BioInv, TypeOK
<1>6. "VALID" \in flags[b] /\ lock[b] = p /\ b # None /\ blockno[b] = want[p]
  BY <1>1, <1>2, Using, OneHolder, Zenon DEF BioInv, FlagInv, Holds
<1>7. \A c \in Bufs : "VALID" \in flags'[c] <=> "VALID" \in flags[c]
  BY <1>5
<1>8. \A j \in Good : Holders(j)' = Holders(j)
  <2>1. \A q \in Procs : bp[q] # None => bp[q] \in Bufs
    BY Zenon DEF BioInv, TypeOK
  <2>2. \A q \in Procs, j \in Good : Has(q, j)' <=> Has(q, j)
    BY <1>3, <1>7, <2>1, Zenon DEF Has
  <2> QED BY <2>2, Zenon DEF Holders
<1>9. VisibleOK /\ VisibleOK'
  BY VisibleIs, NextIs, Zenon
<1>10. \A j \in Good : j # blockno[b] => Visible(j)' = Visible(j)
  <2>1. ASSUME NEW j \in Good, j # blockno[b] PROVE Visible(j)' = Visible(j)
    <3>1. \A c \in Bufs : blockno[c] = j => flags'[c] = flags[c] /\ data'[c] = data[c]
      BY <1>5, <2>1, Zenon
    <3> QED BY <1>3, <1>9, <3>1, VisibleKept, Zenon
  <2> QED BY <2>1, Zenon
<1>11. CASE want[p] \in Good
  <2>1. PICK k \in Good : k = want[p]
    BY <1>11, Zenon
  <2>2. Holders(k) = {p}
    <3>1. p \in Holders(k)
      BY <1>2, <1>6, <2>1, Zenon DEF Holders, Has
    <3> QED BY <3>1, OneOwner, Zenon
  <2>3. Visible(k)' = v
    <3>1. Visible(k)' = IF "VALID" \in flags'[b] THEN data'[b] ELSE disk'[k]
      BY <1>3, <1>6, <1>9, <2>1, Zenon DEF VisibleOK
    <3> QED BY <1>5, <1>6, <1>7, <3>1, Zenon
  <2> QED BY <1>6, <1>8, <1>10, <2>1, <2>2, <2>3, StorePut, Zenon
<1>12. CASE want[p] \notin Good
  BY <1>6, <1>8, <1>10, <1>12, StoreKept, Zenon
<1> QED BY <1>11, <1>12, Zenon

\* releasesleep() gives the block to whoever comes next.
LEMMA Ref_releasesleep ==
  ASSUME BioInv, BioInv', NEW p \in Procs, releasesleep(p)
  PROVE  StoreStep
<1>1. pc[p] = "hold" /\ UNCHANGED <<idevars, bufvars, bp, cachevars>>
  BY Zenon DEF releasesleep
<1>2. PICK b \in Bufs : b = bp[p]
  BY <1>1, Using, Zenon
<1>3. disk' = disk /\ flags' = flags /\ blockno' = blockno /\ bp' = bp /\ want' = want
  BY <1>1, Zenon DEF bufvars, idevars, cachevars
<1>4. \A k \in Good : Visible(k)' = Visible(k)
  BY <1>1, <1>3, DataKept, Zenon
<1>5. /\ "VALID" \in flags[b] /\ lock[b] = p /\ None \notin Procs /\ b # None /\ blockno[b] = want[p]
  BY <1>1, <1>2, Using, OneHolder, IdeAssumption, Zenon DEF BioInv, FlagInv, Holds
<1>6. lock' = [lock EXCEPT ![b] = None]
  BY <1>2, <1>5, Zenon DEF releasesleep
<1>7. lock'[b] = None /\ \A c \in Bufs : c # b => lock'[c] = lock[c]
  BY <1>6, Zenon DEF BioInv, TypeOK
<1>8. \A q \in Procs : bp[q] # None => bp[q] \in Bufs
  BY Zenon DEF BioInv, TypeOK
<1>9. \A q \in Procs, j \in Good : q # p => (Has(q, j)' <=> Has(q, j))
  BY <1>3, <1>5, <1>7, <1>8, Zenon DEF Has
<1>10. \A j \in Good : ~Has(p, j)' /\ (Has(p, j) <=> j = want[p])
  BY <1>2, <1>3, <1>5, <1>7 DEF Has
<1>11. CASE want[p] \in Good
  <2>1. PICK k \in Good : k = want[p]
    BY <1>11, Zenon
  <2>2. Holders(k) = {p}
    <3>1. p \in Holders(k)
      BY <1>10, <2>1, Zenon DEF Holders
    <3> QED BY <3>1, OneOwner, Zenon
  <2>3. Holders(k)' = {}
    <3>1. \A q \in Procs : ~Has(q, k)'
      BY <1>9, <1>10, <2>2 DEF Holders
    <3> QED BY <3>1, Zenon DEF Holders
  <2>4. \A j \in Good : j # k => Holders(j)' = Holders(j)
    <3>1. \A q \in Procs, j \in Good : j # k => (Has(q, j)' <=> Has(q, j))
      BY <1>9, <1>10, <2>1, Zenon
    <3> QED BY <3>1, Zenon DEF Holders
  <2> QED BY <1>4, <2>2, <2>3, <2>4, StoreRelease, Zenon
<1>12. CASE want[p] \notin Good
  <2>1. \A q \in Procs, j \in Good : Has(q, j)' <=> Has(q, j)
    BY <1>9, <1>10, <1>12, Zenon
  <2>2. \A j \in Good : Holders(j)' = Holders(j)
    BY <2>1, Zenon DEF Holders
  <2> QED BY <1>4, <2>2, StoreKept, Zenon
<1> QED BY <1>11, <1>12, Zenon

\* The other steps of a process are not seen by the users of the store.
LEMMA Ref_brelse ==
  ASSUME BioInv, BioInv', NEW p \in Procs, brelse(p)
  PROVE  StoreStep
<1>1. /\ pc[p] = "brelse" /\ UNCHANGED <<idevars, bufvars, lock>>
      /\ bp' = [bp EXCEPT ![p] = None] /\ want' = [want EXCEPT ![p] = None]
  BY Zenon DEF brelse
<1>2. disk' = disk /\ flags' = flags /\ lock' = lock
  BY <1>1, Zenon DEF bufvars, idevars
<1>3. \A k \in Good : Visible(k)' = Visible(k)
  BY <1>1, <1>2, DataKept, Zenon
<1>4. bp'[p] = None /\ \A q \in Procs : q # p => bp'[q] = bp[q] /\ want'[q] = want[q]
  BY <1>1, Zenon DEF BioInv, TypeOK
<1>5. lock[bp[p]] # p
  BY <1>1, Using DEF BioInv, LockInv, Holds
<1>6. \A q \in Procs, j \in Good : Has(q, j)' <=> Has(q, j)
  BY <1>2, <1>4, <1>5 DEF Has
<1>7. \A j \in Good : Holders(j)' = Holders(j)
  BY <1>6, Zenon DEF Holders
<1> QED BY <1>3, <1>7, StoreKept, Zenon

\* iderw() and its return change no block that a reader sees.
LEMMA Ref_io ==
  ASSUME BioInv, BioInv', NEW p \in Procs, io(p)
  PROVE  StoreStep
<1>1. disk' = disk /\ UNCHANGED bufvars /\ bp' = bp /\ want' = want /\ lock' = lock
  BY Zenon DEF io, iderw, iderw_done, idevars, cachevars
<1>2. \A k \in Good : Visible(k)' = Visible(k)
  BY <1>1, DataKept, Zenon
<1>3. \A j \in Good : Holders(j)' = Holders(j)
  BY <1>1, Zenon DEF Holders, Has, bufvars
<1> QED BY <1>2, <1>3, StoreKept, Zenon

\* A write reaches the disk while its buffer still has the block.
LEMMA Ref_complete ==
  ASSUME BioInv, BioInv', complete, UNCHANGED cachevars
  PROVE  StoreStep
<1>1. /\ cmd # None /\ cmd # Halted
      /\ disk' = IF cmd.write THEN [disk EXCEPT ![cmd.block] = cmd.val] ELSE disk
      /\ flags' = flags /\ blockno' = blockno /\ data' = data /\ lock' = lock
      /\ bp' = bp /\ want' = want
  BY Zenon DEF complete, bufvars, cachevars
<1>2. idequeue # <<>> /\ cmd = idestart(Head(idequeue))
  BY <1>1, Zenon DEF BioInv, DriveInv, DriveServesHead
<1>3. PICK b \in Bufs : b = Head(idequeue)
  BY <1>2, QueueHead, Zenon
<1>4. cmd.block = blockno[b] /\ (cmd.write <=> "DIRTY" \in flags[b])
  BY <1>1, <1>2, <1>3, Zenon DEF idestart
<1>5. \A j \in Good : Holders(j)' = Holders(j)
  BY <1>1, Zenon DEF Holders, Has
<1>6. ASSUME NEW j \in Good PROVE Visible(j)' = Visible(j)
  <2>1. j # blockno[b] \/ ~cmd.write => disk'[j] = disk[j]
    BY <1>1, <1>4, Zenon DEF BioInv, TypeOK, Good
  <2>2. cmd.write => "VALID" \in flags[b]
    BY <1>4, Zenon DEF BioInv, FlagInv
  <2>3. j # None
    BY IdeAssumption, Zenon DEF Good
  <2>4. \A c \in Bufs : blockno[c] = j => c = b \/ j # blockno[b]
    BY <2>3, Zenon DEF BioInv, OneBufPerBlock
  <2>5. VisibleOK /\ VisibleOK'
    BY VisibleIs, NextIs, Zenon
  <2>6. (\A c \in Bufs : blockno[c] # j) => disk'[j] = disk[j]
    BY <2>1, Zenon
  <2>7. \A c \in Bufs : blockno[c] = j =>
          (IF "VALID" \in flags'[c] THEN data'[c] ELSE disk'[j])
            = (IF "VALID" \in flags[c] THEN data[c] ELSE disk[j])
    BY <1>1, <2>1, <2>2, <2>4, Zenon
  <2> QED BY <1>1, <2>5, <2>6, <2>7, VisibleKept, Zenon
<1> QED BY <1>5, <1>6, StoreKept, Zenon

\* ideintr() ends bread() for the process asleep when the buffer had no data.
LEMMA Ref_ideintr ==
  ASSUME BioInv, BioInv', ideintr, UNCHANGED cachevars
  PROVE  StoreStep
<1>1. /\ irq /\ idequeue # <<>> /\ disk' = disk /\ blockno' = blockno /\ lock' = lock
      /\ bp' = bp /\ want' = want
  BY Zenon DEF ideintr, cachevars
<1>2. PICK b \in Bufs : b = Head(idequeue)
  BY <1>1, QueueHead, Zenon
<1>3. /\ flags' = [flags EXCEPT ![b] = {"VALID"}]
      /\ data' = IF "DIRTY" \notin flags[b] /\ cmd.block \notin BadBlocks
                 THEN [data EXCEPT ![b] = disk[cmd.block]] ELSE data
  BY <1>2, Zenon DEF ideintr
<1>4. cmd.block = blockno[b]
  BY <1>1, <1>2, Zenon DEF BioInv, DriveInv, DriveServesHead, idestart
<1>5. PICK p \in Procs : pc[p] = "iosleep" /\ bp[p] = b
  BY <1>1, <1>2, QueueHead, Zenon
<1>6. lock[b] = p /\ b # None /\ blockno[b] = want[p] /\ want[p] # None
  BY <1>5, Using, OneHolder, Zenon DEF Holds
<1>7. /\ "VALID" \in flags'[b]
      /\ \A c \in Bufs : c # b => flags'[c] = flags[c] /\ data'[c] = data[c]
  BY <1>3, Zenon DEF BioInv, TypeOK
<1>8. VisibleOK /\ VisibleOK'
  BY VisibleIs, NextIs, Zenon
<1>9. blockno[b] \in Good =>
        data'[b] = IF "VALID" \in flags[b] THEN data[b] ELSE disk[blockno[b]]
  <2>1. CASE "DIRTY" \in flags[b]
    BY <1>3, <2>1, Zenon DEF BioInv, FlagInv
  <2>2. CASE "DIRTY" \notin flags[b]
    <3>1. blockno[b] \in Good => data'[b] = disk[blockno[b]]
      BY <1>3, <1>4, <2>2, Zenon DEF BioInv, TypeOK, Good
    <3>2. "VALID" \in flags[b] => flags[b] = {"VALID"}
      BY <2>2, Zenon DEF BioInv, TypeOK
    <3> QED BY <3>1, <3>2, Zenon DEF BioInv, CleanInv
  <2> QED BY <2>1, <2>2, Zenon
<1>10. ASSUME NEW j \in Good PROVE Visible(j)' = Visible(j)
  <2>1. \A c \in Bufs : blockno[c] = j =>
          (IF "VALID" \in flags'[c] THEN data'[c] ELSE disk'[j])
            = (IF "VALID" \in flags[c] THEN data[c] ELSE disk[j])
    BY <1>1, <1>7, <1>9, Zenon
  <2> QED BY <1>1, <1>8, <2>1, VisibleKept, Zenon
<1>11. \A q \in Procs : bp[q] # None => bp[q] \in Bufs
  BY Zenon DEF BioInv, TypeOK
<1>12. \A q \in Procs, j \in Good : q # p => (Has(q, j)' <=> Has(q, j))
  <2>1. \A q \in Procs : q # p => lock[b] # q
    BY <1>6, Zenon
  <2> QED BY <1>1, <1>7, <1>11, <2>1, Zenon DEF Has
<1>13. \A j \in Good : Has(p, j)' <=> j = want[p]
  BY <1>1, <1>5, <1>6, <1>7, Zenon DEF Has
<1>14. \A j \in Good : Has(p, j) <=> j = want[p] /\ "VALID" \in flags[b]
  BY <1>5, <1>6, Zenon DEF Has
<1>15. CASE want[p] \in Good /\ "VALID" \notin flags[b]
  <2>1. PICK k \in Good : k = want[p]
    BY <1>15, Zenon
  <2>2. Holders(k) = {}
    <3>1. ASSUME NEW q \in Holders(k) PROVE FALSE
      <4>1. bp[q] \in Bufs /\ blockno[bp[q]] = k /\ "VALID" \in flags[bp[q]]
        BY OneOwner, Zenon DEF Holders, Has
      <4>2. bp[q] = b
        BY <1>6, <2>1, <4>1, Zenon DEF BioInv, OneBufPerBlock
      <4> QED BY <1>15, <4>1, <4>2, Zenon
    <3> QED BY <3>1, Zenon
  <2>3. Holders(k)' = {p}
    <3>1. \A q \in Procs : Has(q, k)' <=> q = p
      BY <1>12, <1>13, <2>1, <2>2, Zenon DEF Holders
    <3> QED BY <3>1, Zenon DEF Holders
  <2>4. \A j \in Good : j # k => Holders(j)' = Holders(j)
    <3>1. \A q \in Procs, j \in Good : j # k => (Has(q, j)' <=> Has(q, j))
      BY <1>12, <1>13, <1>14, <2>1, Zenon
    <3> QED BY <3>1, Zenon DEF Holders
  <2> QED BY <1>10, <2>2, <2>3, <2>4, StoreGet, Zenon
<1>16. CASE ~(want[p] \in Good /\ "VALID" \notin flags[b])
  <2>1. \A q \in Procs, j \in Good : Has(q, j)' <=> Has(q, j)
    BY <1>12, <1>13, <1>14, <1>16, Zenon
  <2>2. \A j \in Good : Holders(j)' = Holders(j)
    BY <2>1, Zenon DEF Holders
  <2> QED BY <1>10, <2>2, StoreKept, Zenon
<1> QED BY <1>15, <1>16, Zenon

\* The buffer cache over the disk driver implements the locked store of blocks, for any number
\* of processes, buffers and blocks: bread() gives a block to one process at a time, with
\* what bwrite() or log_write() stored last, wherever the block has been meanwhile.
THEOREM CacheIsStore == Spec => IsBlockStore
<1>1. Init => Store!Init
  <2> SUFFICES ASSUME Init PROVE Store!Init
    BY Zenon
  <2>1. BioInv
    BY Inv_Init, Zenon
  <2>2. /\ disk \in [Blocks -> Vals] /\ \A p \in Procs : bp[p] = None
        /\ \A b \in Bufs : blockno[b] = None
    BY Zenon DEF Init, IdeInit
  <2>3. \A k \in Good : Visible(k) \in Vals
    <3>1. \A k \in Good : Visible(k) = disk[k]
      BY <2>1, <2>2, VisibleIs, IdeAssumption DEF VisibleOK, Good
    <3> QED BY <2>2, <3>1, Zenon DEF Good
  <2>4. \A k \in Good : Holder(k) = None
    <3>1. \A k \in Good : Holders(k) = {}
      BY <2>2, Zenon DEF Holders, Has
    <3> QED BY <3>1, HolderIs, Zenon
  <2> QED BY <2>3, <2>4, Zenon DEF Store!Init
<1>2. BioInv /\ BioInv' /\ [Next]_vars => StoreStep
  <2> SUFFICES ASSUME BioInv, BioInv', [Next]_vars PROVE StoreStep
    BY Zenon
  <2>1. CASE UNCHANGED vars
    <3>1. UNCHANGED bufvars /\ disk' = disk /\ bp' = bp /\ want' = want /\ lock' = lock
      BY <2>1, Zenon DEF vars, idevars, cachevars
    <3>2. \A k \in Good : Visible(k)' = Visible(k)
      BY <3>1, DataKept, Zenon
    <3>3. \A k \in Good : Holders(k)' = Holders(k)
      BY <3>1, Zenon DEF Holders, Has, bufvars
    <3> QED BY <3>2, <3>3, StoreKept, Zenon
  <2>2. ASSUME NEW p \in Procs, NEW k \in Blocks, bget(p, k) PROVE StoreStep
    BY <2>2, Ref_bget, Zenon
  <2>3. ASSUME NEW p \in Procs, NEW v \in Vals, bwrite(p, v) \/ log_write(p, v) PROVE StoreStep
    BY <2>3, Ref_write, Zenon
  <2>4. ASSUME NEW p \in Procs, Step(p) PROVE StoreStep
    BY <2>4, Ref_acquiresleep, Ref_io, Ref_releasesleep, Ref_brelse, Zenon DEF Step
  <2>5. CASE Drive
    BY <2>5, Ref_complete, Ref_ideintr, Zenon DEF Drive
  <2> QED BY <2>1, <2>2, <2>3, <2>4, <2>5, Zenon DEF Next
<1> QED BY <1>1, <1>2, BioInvariant, PTL DEF Spec, IsBlockStore, Store!Spec, StoreStep
====
