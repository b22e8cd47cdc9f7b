-------------------------------- MODULE Pipe --------------------------------
(***************************************************************************)
(* One pipe (src/pipe.c) and the processes that share it, after fork() has *)
(* given each its end.  nread and nwrite are uints that wrap; the ring is  *)
(* indexed modulo PIPESIZE.                                                *)
(*                                                                         *)
(* One action is one stretch of code under p->lock.  kill() does not take  *)
(* that lock, so a stretch ends between the test of killed and sleep().    *)
(***************************************************************************)
EXTENDS Integers, Sequences

CONSTANTS Readers, Writers,  \* processes with the read, the write end
          PIPESIZE,
          UINT,              \* number of values of a uint
          Bytes,
          MaxWrite,          \* bound: bytes of one write()
          Killable,          \* processes that kill() may be called for
          None               \* nobody holds p->lock

ASSUME PipeAssumption == /\ PIPESIZE \in Nat \ {0} /\ MaxWrite \in Nat \ {0}
                         /\ UINT \in Nat /\ UINT % PIPESIZE = 0 /\ UINT > PIPESIZE
                         /\ Readers \cap Writers = {}
                         /\ None \notin Readers \cup Writers

Procs == Readers \cup Writers

VARIABLES data, nread, nwrite, readopen, writeopen,  \* struct pipe
          freed,    \* the pipe's page was returned to kalloc
          lock,     \* holder of p->lock, or None
          pc,       \* where each process is
          rest,     \* pipewrite(): bytes still to write, <<>> outside a call
          n,        \* piperead(): its n, 0 outside a call
          got,      \* what each reader's last read returned
          open,     \* processes that still have their descriptor
          killed

pipe == <<data, nread, nwrite, readopen, writeopen, freed>>
vars == <<pipe, lock, pc, rest, n, got, open, killed>>

Init == /\ data \in [0..PIPESIZE-1 -> Bytes]
        /\ nread = 0 /\ nwrite = 0
        /\ readopen = TRUE /\ writeopen = TRUE
        /\ freed = FALSE
        /\ lock = None
        /\ pc = [p \in Procs |-> "user"]
        /\ rest = [p \in Writers |-> <<>>]
        /\ n = [p \in Readers |-> 0]
        /\ got = [p \in Readers |-> <<>>]
        /\ open = Procs
        /\ killed = [p \in Procs |-> FALSE]
-----------------------------------------------------------------------------
\* Mutant of uint: the counters wrap one step early.
uint_early(x) == x % (UINT - 1)

uint(x) == x % UINT

Count == uint(nwrite - nread)

\* Mutant of wakeup: no sleeper is found.
wakeup_lost(S, at) == at

\* wakeup() of a channel on which the processes S sleep.
wakeup(S, at) == [p \in Procs |-> IF p \in S /\ at[p] = "sleep" THEN "run" ELSE at[p]]

Least(a, b) == IF a < b THEN a ELSE b

\* write() and read() of a process that trap() found alive.
write(p, s) ==
  /\ pc[p] = "user" /\ p \in open /\ ~killed[p]
  /\ rest' = [rest EXCEPT ![p] = s]
  /\ pc' = [pc EXCEPT ![p] = "run"]
  /\ UNCHANGED <<pipe, lock, n, got, open, killed>>

read(p, k) ==
  /\ pc[p] = "user" /\ p \in open /\ ~killed[p]
  /\ n' = [n EXCEPT ![p] = k]
  /\ pc' = [pc EXCEPT ![p] = "run"]
  /\ UNCHANGED <<pipe, lock, rest, got, open, killed>>

\* pipewrite(), from acquire() or the return of sleep(): bytes are copied
\* until all are written or the pipe is full.
put(k, s) ==
  [j \in 0..PIPESIZE-1 |->
     IF \E m \in 1..k : uint(nwrite + m - 1) % PIPESIZE = j
       THEN s[CHOOSE m \in 1..k : uint(nwrite + m - 1) % PIPESIZE = j]
       ELSE data[j]]

room == PIPESIZE - Count

pipewrite(p) ==
  LET s == rest[p]
      k == Least(Len(s), room) IN
  /\ pc[p] = "run" /\ lock = None
  /\ data' = put(k, s)
  /\ nwrite' = uint(nwrite + k)
  /\ \/ /\ k = Len(s)
        /\ rest' = [rest EXCEPT ![p] = <<>>]
        /\ pc' = wakeup(Readers, [pc EXCEPT ![p] = "user"])
        /\ UNCHANGED lock
     \/ /\ k < Len(s) /\ (~readopen \/ killed[p])
        /\ rest' = [rest EXCEPT ![p] = <<>>]
        /\ pc' = [pc EXCEPT ![p] = "user"]
        /\ UNCHANGED lock
     \/ /\ k < Len(s) /\ readopen /\ ~killed[p]
        /\ rest' = [rest EXCEPT ![p] = SubSeq(s, k + 1, Len(s))]
        /\ pc' = wakeup(Readers, [pc EXCEPT ![p] = "sleeping"])
        /\ lock' = p
  /\ UNCHANGED <<nread, readopen, writeopen, freed, n, got, open, killed>>

\* piperead(), from acquire() or the return of sleep(): nothing to read yet, ...
piperead_wait(p) ==
  /\ pc[p] = "run" /\ lock = None
  /\ nread = nwrite /\ writeopen
  /\ IF killed[p]
       THEN /\ pc' = [pc EXCEPT ![p] = "user"]
            /\ n' = [n EXCEPT ![p] = 0]
            /\ UNCHANGED lock
       ELSE pc' = [pc EXCEPT ![p] = "sleeping"] /\ lock' = p /\ UNCHANGED n
  /\ UNCHANGED <<pipe, rest, got, open, killed>>

\* ... or up to n bytes, none at the end of the file.
piperead(p) ==
  LET k == Least(n[p], Count) IN
  /\ pc[p] = "run" /\ lock = None
  /\ ~(nread = nwrite /\ writeopen)
  /\ got' = [got EXCEPT ![p] = [i \in 1..k |-> data[uint(nread + i - 1) % PIPESIZE]]]
  /\ nread' = uint(nread + k)
  /\ n' = [n EXCEPT ![p] = 0]
  /\ pc' = wakeup(Writers, [pc EXCEPT ![p] = "user"])
  /\ UNCHANGED <<data, nwrite, readopen, writeopen, freed, lock, rest, open, killed>>

\* sleep(): released and asleep in one step, as wakeup() sees it.
sleep(p) ==
  /\ pc[p] = "sleeping"
  /\ pc' = [pc EXCEPT ![p] = "sleep"]
  /\ lock' = None
  /\ UNCHANGED <<pipe, rest, n, got, open, killed>>

\* Mutant of pipeclose: the wrong channel is woken.
pipeclose_same(p) ==
  LET ro == readopen /\ open' \cap Readers # {}
      wo == writeopen /\ open' \cap Writers # {} IN
  /\ readopen' = ro /\ writeopen' = wo
  /\ freed' = (~ro /\ ~wo)
  /\ pc' = wakeup(IF p \in Writers THEN Writers ELSE Readers, pc)

\* fileclose() of the last descriptor of an end calls pipeclose().
pipeclose(p) ==
  LET ro == readopen /\ open' \cap Readers # {}
      wo == writeopen /\ open' \cap Writers # {} IN
  /\ readopen' = ro
  /\ writeopen' = wo
  /\ freed' = (~ro /\ ~wo)
  /\ pc' = wakeup(IF p \in Writers THEN Readers ELSE Writers, pc)

close_end(p) ==
  /\ pc[p] = "user" /\ p \in open /\ lock = None
  /\ open' = open \ {p}
  /\ IF open' \cap (IF p \in Readers THEN Readers ELSE Writers) = {}
       THEN pipeclose(p)
       ELSE UNCHANGED <<readopen, writeopen, freed, pc>>
  /\ UNCHANGED <<data, nread, nwrite, lock, rest, n, got, killed>>

kill(p) ==
  /\ ~killed[p]
  /\ killed' = [killed EXCEPT ![p] = TRUE]
  /\ pc' = [pc EXCEPT ![p] = IF @ = "sleep" THEN "run" ELSE @]
  /\ UNCHANGED <<pipe, lock, rest, n, got, open>>
-----------------------------------------------------------------------------
Writes == UNION {[1..k -> Bytes] : k \in 1..MaxWrite}

Next == \/ \E p \in Writers : (\E s \in Writes : write(p, s)) \/ pipewrite(p)
        \/ \E p \in Readers : \/ \E k \in 1..PIPESIZE : read(p, k)
                              \/ piperead_wait(p) \/ piperead(p)
        \/ \E p \in Procs : sleep(p) \/ close_end(p)
        \/ \E p \in Killable : kill(p)

Spec == Init /\ [][Next]_vars
-----------------------------------------------------------------------------
TypeOK == /\ data \in [0..PIPESIZE-1 -> Bytes]
          /\ nread \in 0..UINT-1 /\ nwrite \in 0..UINT-1
          /\ Count <= PIPESIZE
          /\ readopen \in BOOLEAN /\ writeopen \in BOOLEAN /\ freed \in BOOLEAN
          /\ lock \in Procs \cup {None}
          /\ pc \in [Procs -> {"user", "run", "sleeping", "sleep"}]
          /\ rest \in [Writers -> Seq(Bytes)]
          /\ n \in [Readers -> 0..PIPESIZE]
          /\ got \in [Readers -> Seq(Bytes)]
          /\ open \subseteq Procs
          /\ killed \in [Procs -> BOOLEAN]

Contents == [i \in 1..Count |-> data[uint(nread + i - 1) % PIPESIZE]]

Queue == INSTANCE Fifo WITH q <- Contents, wopen <- writeopen, N <- PIPESIZE

\* The ring with wrapping counters is a bounded FIFO queue: no byte is lost,
\* repeated or reordered when several readers and writers block half way, and
\* a read returns 0 only at the end of the file.
IsFifo == Queue!Spec

\* pipeclose() frees the pipe only when no call on it is under way or asleep.
NotInUseWhenFreed == freed => \A p \in Procs : pc[p] = "user" /\ p \notin open

\* "while(p->nread == p->nwrite && p->writeopen) //DOC: pipe-empty" (pipe.c):
\* readers sleep only while the pipe is empty and can still be written.
ReadersSleepOnEmpty ==
  \A p \in Readers : pc[p] = "sleep" => lock # None \/ (nread = nwrite /\ writeopen)

\* Likewise writers sleep only while the pipe is full and can still be read.
WritersSleepOnFull ==
  \A p \in Writers : pc[p] = "sleep" => lock # None \/ (room = 0 /\ readopen)

\* The pipe is not used after pipeclose() freed it, and pipewrite(), piperead() and
\* pipeclose() leave nobody asleep who could go on.
PipeSafe == TypeOK /\ NotInUseWhenFreed /\ ReadersSleepOnEmpty /\ WritersSleepOnFull

\* Closing the write end lets every reader return.
ReadersSeeClose == \A p \in Readers : ~writeopen /\ pc[p] # "user" ~> pc[p] = "user"
=============================================================================
