-------------------------------- MODULE Ide --------------------------------
(***************************************************************************)
(* The disk driver (src/ide.c): the queue of buffers under idelock, the    *)
(* drive, which serves one command at a time and interrupts when it is     *)
(* done, and the processes asleep in iderw().  One action is one critical  *)
(* section of idelock.                                                     *)
(***************************************************************************)
EXTENDS Integers, Sequences, FiniteSets

CONSTANTS Procs, Bufs, Blocks, Vals,
          BadBlocks,  \* blocks that the drive answers with IDE_ERR
          Beyond,     \* block numbers of FSSIZE and more
          None, Halted

ASSUME IdeAssumption == /\ BadBlocks \cup Beyond \subseteq Blocks
                        /\ None \notin Procs \cup Bufs \cup Blocks \cup {Halted}
                        /\ Halted \notin [write : BOOLEAN, block : Blocks, val : Vals]

VARIABLES disk,      \* contents of each block on the drive
          cmd,       \* the command the drive is executing, or None; Halted when
                     \* idestart() has panicked, with idelock held
          irq,       \* the drive has raised its interrupt
          idequeue,
          flags, blockno, data,  \* struct buf; flags is a subset of {"VALID", "DIRTY"}
          lock,      \* holder of b->lock, or None
          pc, bp     \* where each process is, and the buffer it uses

idevars == <<disk, cmd, irq, idequeue>>
bufvars == <<flags, blockno, data>>

IdeInit == /\ disk \in [Blocks -> Vals]
           /\ cmd = None /\ irq = FALSE
           /\ idequeue = <<>>

\* idestart(): the command the drive gets, with the data of a write, or panic().
idestart(b) == IF blockno[b] \in Beyond THEN Halted
               ELSE [write |-> "DIRTY" \in flags[b], block |-> blockno[b], val |-> data[b]]

append(b) == Append(idequeue, b)

\* Mutant of done: B_VALID alone ends the wait of a write.
done_valid(b) == "VALID" \in flags[b]

done(b) == flags[b] = {"VALID"}

\* iderw(): append b, start the drive if it is the only request, sleep.
iderw(p) ==
  LET b == bp[p] IN
  /\ pc[p] = "iderw"
  /\ IF lock[b] # p \/ done(b)
     THEN /\ pc' = [pc EXCEPT ![p] = "panic"]
          /\ UNCHANGED <<idevars, bufvars>>
     ELSE /\ cmd # Halted
          /\ idequeue' = append(b)
          /\ cmd' = IF idequeue = <<>> THEN idestart(b) ELSE cmd
          /\ pc' = [pc EXCEPT ![p] = "iosleep"]
          /\ UNCHANGED <<disk, irq, bufvars>>
  /\ UNCHANGED <<lock, bp>>

\* The turn of iderw()'s loop that finds the request finished.
iderw_done(p) ==
  /\ pc[p] = "iowoken" /\ done(bp[p]) /\ cmd # Halted
  /\ pc' = [pc EXCEPT ![p] = "hold"]
  /\ UNCHANGED <<idevars, bufvars, lock, bp>>

\* The drive finishes a command: a write is on the disk, a read is ready.
complete ==
  /\ cmd \notin {None, Halted} /\ ~irq
  /\ irq' = TRUE
  /\ disk' = IF cmd.write THEN [disk EXCEPT ![cmd.block] = cmd.val] ELSE disk
  /\ UNCHANGED <<cmd, idequeue, bufvars, lock, pc, bp>>

wakeup(b) == [p \in Procs |-> IF pc[p] = "iosleep" /\ bp[p] = b THEN "iowoken" ELSE pc[p]]

\* ideintr(): finish the first request and start the next.  A read that the
\* drive could not do leaves the data as it was, and sets B_VALID all the same.
ideintr ==
  LET b == Head(idequeue) IN
  /\ irq /\ idequeue # <<>>
  /\ irq' = FALSE
  /\ idequeue' = Tail(idequeue)
  /\ data' = IF "DIRTY" \notin flags[b] /\ cmd.block \notin BadBlocks
             THEN [data EXCEPT ![b] = disk[cmd.block]] ELSE data
  /\ flags' = [flags EXCEPT ![b] = {"VALID"}]
  /\ pc' = wakeup(b)
  /\ cmd' = IF Len(idequeue) > 1 THEN idestart(idequeue[2]) ELSE None
  /\ UNCHANGED <<disk, blockno, lock, bp>>
-----------------------------------------------------------------------------
\* The drive works for the first buffer of the queue, whenever there is one: a
\* request queued while the interrupt of the last one is handled is not left
\* behind without a command (idestart() in iderw() and in ideintr()).
DriveServesHead == cmd = IF idequeue = <<>> THEN None ELSE idestart(Head(idequeue))

\* Every buffer in the queue has its process waiting in iderw() with b->lock,
\* and every such process has its buffer in the queue exactly once.
QueueIsSleepers ==
  /\ \A p \in Procs : pc[p] = "iosleep" =>
       Cardinality({i \in DOMAIN idequeue : idequeue[i] = bp[p]}) = 1
  /\ \A i \in DOMAIN idequeue : \E p \in Procs : /\ pc[p] = "iosleep" /\ bp[p] = idequeue[i]
                                                 /\ lock[bp[p]] = p
=============================================================================
