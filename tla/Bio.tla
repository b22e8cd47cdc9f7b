-------------------------------- MODULE Bio --------------------------------
(***************************************************************************)
(* The buffer cache (src/bio.c) with its sleep locks (src/sleeplock.c) on  *)
(* top of the disk driver.  A process uses one buffer at a time: bread(),  *)
(* then any number of changes, then brelse().  One action is one critical  *)
(* section of bcache.lock, of a sleep lock or of idelock.                  *)
(***************************************************************************)
EXTENDS Ide, Functions

ASSUME BioAssumption == IsFiniteSet(Procs) /\ IsFiniteSet(Bufs)

VARIABLES refcnt,
          lru,      \* the list of buffers, most recently used first
          want      \* the block each process asked for

cachevars == <<refcnt, lru, want>>
vars == <<idevars, bufvars, lock, pc, bp, cachevars>>

\* binit(): no buffer has a device, so none is found by bget().  The order of
\* the list is that of the array, whatever the buffers are called.
Init == /\ IdeInit
        /\ flags = [b \in Bufs |-> {}]
        /\ blockno = [b \in Bufs |-> None]
        /\ \E zero \in Vals : data = [b \in Bufs |-> zero]
        /\ lock = [b \in Bufs |-> None]
        /\ refcnt = [b \in Bufs |-> 0]
        /\ lru \in Bijection(1..Cardinality(Bufs), Bufs)
        /\ pc = [p \in Procs |-> "idle"]
        /\ bp = [p \in Procs |-> None]
        /\ want = [p \in Procs |-> None]
-----------------------------------------------------------------------------
\* Mutants of unused: a buffer that the log has pinned, or one that is waited for, is
\* taken; a buffer with a block in it is not.
unused_dirty(b) == refcnt[b] = 0
unused_waited(b) == lock[b] = None /\ "DIRTY" \notin flags[b]
unused_valid(b) == refcnt[b] = 0 /\ flags[b] = {}

unused(b) == refcnt[b] = 0 /\ "DIRTY" \notin flags[b]

\* The least recently used of the unused buffers.
victim(b) == \E i \in DOMAIN lru : /\ lru[i] = b /\ unused(b)
                                   /\ \A j \in DOMAIN lru : j > i => ~unused(lru[j])

\* bget(), under bcache.lock: the block is cached, ...
bget_hit(p, k) ==
  \E b \in Bufs :
    /\ blockno[b] = k
    /\ refcnt' = [refcnt EXCEPT ![b] = @ + 1]
    /\ bp' = [bp EXCEPT ![p] = b]
    /\ pc' = [pc EXCEPT ![p] = "acquire"]
    /\ UNCHANGED bufvars

\* ... or an unused buffer is recycled, ...
bget_recycle(p, k) ==
  /\ \A b \in Bufs : blockno[b] # k
  /\ \E b \in Bufs :
       /\ victim(b)
       /\ blockno' = [blockno EXCEPT ![b] = k]
       /\ flags' = [flags EXCEPT ![b] = {}]
       /\ refcnt' = [refcnt EXCEPT ![b] = 1]
       /\ bp' = [bp EXCEPT ![p] = b]
       /\ pc' = [pc EXCEPT ![p] = "acquire"]
       /\ UNCHANGED data

\* The panic() of bget() is called with bcache.lock held.
bcache_free == \A q \in Procs : pc[q] # "nobuf"

\* ... or there is none, and bget() panics.
bget(p, k) ==
  /\ pc[p] = "idle" /\ bcache_free
  /\ want' = [want EXCEPT ![p] = k]
  /\ IF \A b \in Bufs : blockno[b] # k /\ ~unused(b)
     THEN /\ pc' = [pc EXCEPT ![p] = "nobuf"]
          /\ UNCHANGED <<bufvars, refcnt, bp>>
     ELSE bget_hit(p, k) \/ bget_recycle(p, k)
  /\ UNCHANGED <<idevars, lock, lru>>

\* acquiresleep(); its caller bread() then reads the block if it must.
acquiresleep(p) ==
  LET b == bp[p] IN
  /\ pc[p] = "acquire"
  /\ IF lock[b] # None
     THEN pc' = [pc EXCEPT ![p] = "sleep"] /\ UNCHANGED lock
     ELSE /\ lock' = [lock EXCEPT ![b] = p]
          /\ pc' = [pc EXCEPT ![p] = IF "VALID" \in flags[b] THEN "hold" ELSE "iderw"]
  /\ UNCHANGED <<idevars, bufvars, bp, cachevars>>

woken(b) == [p \in Procs |-> IF pc[p] = "sleep" /\ bp[p] = b THEN "acquire" ELSE pc[p]]

\* The caller changes the block and writes it through ...
bwrite(p, v) ==
  LET b == bp[p] IN
  /\ pc[p] = "hold"
  /\ data' = [data EXCEPT ![b] = v]
  /\ IF lock[b] = p
     THEN /\ flags' = [flags EXCEPT ![b] = @ \cup {"DIRTY"}]
          /\ pc' = [pc EXCEPT ![p] = "iderw"]
     ELSE pc' = [pc EXCEPT ![p] = "panic"] /\ UNCHANGED flags
  /\ UNCHANGED <<idevars, blockno, lock, bp, cachevars>>

\* ... or leaves it to the log, which pins it and will call bwrite() later.  The rest of
\* log_write() is in Log.
log_write(p, v) ==
  LET b == bp[p] IN
  /\ pc[p] = "hold"
  /\ data' = [data EXCEPT ![b] = v]
  /\ flags' = [flags EXCEPT ![b] = @ \cup {"DIRTY"}]
  /\ UNCHANGED <<idevars, blockno, lock, pc, bp, cachevars>>

\* brelse(): releasesleep(), unless the caller does not have the lock, ...
releasesleep(p) ==
  LET b == bp[p] IN
  /\ pc[p] = "hold"
  /\ IF lock[b] = p
     THEN /\ lock' = [lock EXCEPT ![b] = None]
          /\ pc' = [woken(b) EXCEPT ![p] = "brelse"]
     ELSE pc' = [pc EXCEPT ![p] = "panic"] /\ UNCHANGED lock
  /\ UNCHANGED <<idevars, bufvars, bp, cachevars>>

\* The list with b taken out of its place and put before the others.
toFront(b) == LET n == CHOOSE i \in DOMAIN lru : lru[i] = b IN
              [i \in DOMAIN lru |-> IF i = 1 THEN b ELSE IF i <= n THEN lru[i-1] ELSE lru[i]]

\* ... and, under bcache.lock, the last user moves b to the head of the list.
brelse(p) ==
  LET b == bp[p] IN
  /\ pc[p] = "brelse" /\ bcache_free
  /\ refcnt' = [refcnt EXCEPT ![b] = @ - 1]
  /\ lru' = IF refcnt[b] = 1 THEN toFront(b) ELSE lru
  /\ pc' = [pc EXCEPT ![p] = "idle"]
  /\ bp' = [bp EXCEPT ![p] = None]
  /\ want' = [want EXCEPT ![p] = None]
  /\ UNCHANGED <<idevars, bufvars, lock>>

io(p) == (iderw(p) \/ iderw_done(p)) /\ UNCHANGED cachevars

Step(p) == acquiresleep(p) \/ io(p) \/ releasesleep(p) \/ brelse(p)

Drive == (complete \/ ideintr) /\ UNCHANGED cachevars

Next == \/ \E p \in Procs : \/ \E k \in Blocks : bget(p, k)
                            \/ \E v \in Vals : bwrite(p, v) \/ log_write(p, v)
                            \/ Step(p)
        \/ Drive

Spec == Init /\ [][Next]_vars
-----------------------------------------------------------------------------
Points == {"idle", "acquire", "sleep", "iderw", "iosleep", "iowoken", "hold", "brelse",
           "panic", "nobuf"}

TypeOK == /\ disk \in [Blocks -> Vals]
          /\ idequeue \in Seq(Bufs) /\ IsInjective(idequeue)
          /\ flags \in [Bufs -> SUBSET {"VALID", "DIRTY"}]
          /\ blockno \in [Bufs -> Blocks \cup {None}]
          /\ data \in [Bufs -> Vals]
          /\ lock \in [Bufs -> Procs \cup {None}]
          /\ refcnt \in [Bufs -> 0..Cardinality(Procs)]
          /\ lru \in Bijection(1..Cardinality(Bufs), Bufs)
          /\ pc \in [Procs -> Points]
          /\ bp \in [Procs -> Bufs \cup {None}]
          /\ want \in [Procs -> Blocks \cup {None}]

\* No block is ever cached in two buffers, however the lookups, recyclings
\* and releases of several processes interleave (bget(), bcache.lock).
OneBufPerBlock == \A b, c \in Bufs : (blockno[b] = blockno[c] /\ b # c) => blockno[b] = None

\* A process is given the block it asked for: the buffer it waits for is not
\* recycled between bget()'s release of bcache.lock and acquiresleep().
GotWhatItAsked == \A p \in Procs : bp[p] # None => blockno[bp[p]] = want[p]

\* refcnt counts the processes that use or wait for a buffer, so none is
\* recycled under them and none is lost to the cache for ever.
RefcntExact == \A b \in Bufs : refcnt[b] = Cardinality({p \in Procs : bp[p] = b})

\* A process asleep for a buffer's lock will be woken: somebody has the lock
\* and has yet to call releasesleep().
SleepersHaveHolder == \A p \in Procs : pc[p] = "sleep" => lock[bp[p]] \notin {None, p}

\* bget(), brelse(), acquiresleep() and iderw() together: each block has one buffer, which
\* stays with its users and is counted, and all who sleep for a lock or for the drive
\* have somebody, or the drive unless it was halted, at work for them.
CacheSafe == /\ TypeOK /\ OneBufPerBlock /\ GotWhatItAsked /\ RefcntExact
             /\ SleepersHaveHolder /\ QueueIsSleepers /\ DriveServesHead

\* No assertion of bwrite(), brelse() or iderw() fails.  bget() finds a buffer whenever the
\* block is cached or one is neither in use nor pinned by the log, and panics only when all
\* of them are; idestart() panics only on a block that somebody asked for beyond FSSIZE.
PanicOnlyWhenFull ==
  /\ \A p \in Procs : pc[p] # "panic"
  /\ \A p \in Procs, b \in Bufs :
       pc[p] = "nobuf" => blockno[b] # want[p] /\ (refcnt[b] > 0 \/ "DIRTY" \in flags[b])
  /\ cmd = Halted => \E p \in Procs : want[p] \in Beyond

\* What the next holder of block k finds.
Visible(k) == IF \E b \in Bufs : blockno[b] = k /\ "VALID" \in flags[b]
              THEN data[CHOOSE b \in Bufs : blockno[b] = k] ELSE disk[k]

\* The process that has block k: it holds the lock of its buffer, and the data are there.
Holder(k) == LET H == {p \in Procs : /\ bp[p] # None /\ want[p] = k
                                     /\ lock[bp[p]] = p /\ "VALID" \in flags[bp[p]]}
             IN IF H = {} THEN None ELSE CHOOSE p \in H : TRUE

Good == Blocks \ (BadBlocks \cup Beyond)
Store == INSTANCE BlockStore WITH Blocks <- Good, store <- [k \in Good |-> Visible(k)],
                                  owner <- [k \in Good |-> Holder(k)]

\* bread(), bwrite(), log_write() and brelse() are a locked store of blocks: a
\* holder excludes the others and finds what the last one left, whether it was
\* cached, pinned, written through, recycled or read again.
IsBlockStore == Store!Spec

=============================================================================
