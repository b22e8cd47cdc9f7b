-------------------------------- MODULE Boot --------------------------------
(***************************************************************************)
(* The page allocator (kalloc.c) and the start of the processors           *)
(* (main.c).  The boot processor fills the free list in two parts, starts  *)
(* the other processors in between, and only then turns the allocator's    *)
(* lock on: kmem.use_lock is 0 while other processors already run.         *)
(*                                                                         *)
(* kalloc() and kfree() are four steps: the lock if it is used, the read   *)
(* of the list, the write of the list, and the unlock.  A page is its      *)
(* number; a free page holds the link of struct run.  What main() builds   *)
(* without the allocator (interrupt controllers, tables) is left out; each *)
(* of kvmalloc() and userinit() stands by one of the pages it takes.       *)
(***************************************************************************)
EXTENDS Naturals, FiniteSets, Sequences, SequencesExt

CONSTANTS
  Processors,  \* cpus[0..ncpu-1]
  BootCpu,     \* the one that runs main()
  NLow,        \* pages 1..NLow lie below 4 Mbyte, in reach of entrypgdir
  NPages,      \* pages NLow+1..NPages are the rest, up to PHYSTOP
  NoCpu

Pages == 1..NPages

\* The boot processor takes a page for kpgdir and one for each processor's stack.
ASSUME BootAssumption ==
  BootCpu \in Processors /\ NLow \in Nat /\ NPages \in Nat /\ Cardinality(Processors) <= NLow /\ NLow < NPages

VARIABLES
  next,      \* r->next of the pages that are free; 0 is the end of the list
  freelist,  \* kmem.freelist
  kmemLock,  \* the holder of kmem.lock
  use_lock,  \* kmem.use_lock
  job,       \* the call of kalloc() or kfree() each processor is in
  kpages,      \* pages from kalloc(), by the processor that took them; main()'s, NoCpu's, stay
  bpc,       \* how far main() is
  todo,      \* pages that freerange() has still to free
  aps,       \* processors that startothers() has still to start
  entry,     \* the word at code-4: the stack the next processor shall use
  apc,       \* "off", "entry" (entryother.S), "up" (started, in scheduler())
  stack      \* the stack a processor was given by entryother.S

bootvars == <<next, freelist, kmemLock, use_lock, job, kpages, bpc, todo, aps, entry, apc, stack>>
main_vars == <<bpc, todo, aps, entry, apc, stack>>
kmem_vars == <<next, freelist, kmemLock, use_lock, job, kpages>>

NoJob == [op |-> "none", at |-> "", r |-> 0]
kalloc == [op |-> "kalloc", at |-> "acquire", r |-> 0]
kfree(v) == [op |-> "kfree", at |-> IF v \in Pages THEN "acquire" ELSE "panic", r |-> v]

BootInit ==
  /\ next = [v \in Pages |-> 0] /\ freelist = 0
  /\ kmemLock = NoCpu /\ use_lock = FALSE
  /\ job = [c \in Processors |-> NoJob] /\ kpages = [c \in Processors \cup {NoCpu} |-> {}]
  /\ bpc = "kinit1" /\ todo = [v \in 1..NLow |-> v]
  /\ aps = Processors \ {BootCpu} /\ entry = 0
  /\ apc = [c \in Processors |-> "off"] /\ stack = [c \in Processors |-> 0]

-----------------------------------------------------------------------------
\* The allocator.

step(c, j) == job' = [job EXCEPT ![c] = j]

locks(c) == use_lock
kmem_acquire(c) ==
  /\ job[c].at = "acquire"
  /\ IF locks(c) THEN kmemLock = NoCpu /\ kmemLock' = c ELSE UNCHANGED kmemLock
  /\ step(c, [job[c] EXCEPT !.at = "read"])
  /\ UNCHANGED <<next, freelist, use_lock, kpages, main_vars>>

\* kalloc: r = kmem.freelist.  kfree: r->next = kmem.freelist.
kmem_read(c) ==
  /\ job[c].at = "read"
  /\ IF job[c].op = "kalloc"
       THEN step(c, [job[c] EXCEPT !.at = "write", !.r = freelist]) /\ UNCHANGED next
       ELSE step(c, [job[c] EXCEPT !.at = "write"]) /\ next' = [next EXCEPT ![job[c].r] = freelist]
  /\ UNCHANGED <<freelist, kmemLock, use_lock, kpages, main_vars>>

\* kalloc: kmem.freelist = r->next, if there is a page.  kfree: kmem.freelist = r.
kmem_write(c) ==
  LET r == job[c].r IN
  /\ job[c].at = "write"
  /\ freelist' = (IF job[c].op = "kfree" THEN r ELSE IF r = 0 THEN 0 ELSE next[r])
  /\ step(c, [job[c] EXCEPT !.at = "release"])
  /\ UNCHANGED <<next, kmemLock, use_lock, kpages, main_vars>>

owner(c) == IF bpc = "mpmain" THEN c ELSE NoCpu
kmem_release(c) ==
  LET j == job[c] IN
  /\ j.at = "release"
  /\ kmemLock' = (IF use_lock THEN NoCpu ELSE kmemLock)
  /\ kpages' = [kpages EXCEPT ![owner(c)] = IF j.op = "kalloc" THEN @ \cup ({j.r} \ {0}) ELSE @]
  \* a page that is not free has user data in place of the link
  /\ next' = (IF j.op = "kalloc" /\ j.r # 0 THEN [next EXCEPT ![j.r] = 0] ELSE next)
  /\ step(c, [NoJob EXCEPT !.r = IF bpc = "lapicstartap" THEN j.r ELSE 0])
  /\ UNCHANGED <<freelist, use_lock, main_vars>>

-----------------------------------------------------------------------------
\* main() and the other processors.

returned(c) == job[c].op = "none"
goes(s) == bpc' = s

\* freerange(): one kfree() for each page of the range.
freerange(at) ==
  /\ bpc = at /\ returned(BootCpu) /\ todo # <<>>
  /\ step(BootCpu, kfree(Head(todo))) /\ todo' = Tail(todo)
  /\ UNCHANGED <<next, freelist, kmemLock, use_lock, kpages, bpc, aps, entry, apc, stack>>

kinit1 == freerange("kinit1")
kvmalloc ==
  /\ bpc = "kinit1" /\ returned(BootCpu) /\ todo = <<>>
  /\ step(BootCpu, kalloc) /\ goes("startothers")
  /\ UNCHANGED <<next, freelist, kmemLock, use_lock, kpages, todo, aps, entry, apc, stack>>

\* stack = kalloc(), for one processor after the other.
startothers ==
  /\ bpc = "startothers" /\ returned(BootCpu) /\ aps # {}
  /\ step(BootCpu, kalloc) /\ goes("lapicstartap")
  /\ UNCHANGED <<next, freelist, kmemLock, use_lock, kpages, todo, aps, entry, apc, stack>>

\* The stack is written for entryother.S to find and the processor is started.
lapicstartap(c) ==
  /\ bpc = "lapicstartap" /\ returned(BootCpu) /\ c \in aps
  /\ entry' = job[BootCpu].r
  /\ apc' = [apc EXCEPT ![c] = "entry"]
  /\ aps' = aps \ {c} /\ goes("started")
  /\ UNCHANGED <<todo, stack, kmem_vars>>

\* Mutant of ap_started: the next processor is started at once.
ap_started_unasked(c) == TRUE
ap_started(c) == apc[c] = "up"
startothers_wait ==
  /\ bpc = "started"
  /\ \A c \in Processors \ (aps \cup {BootCpu}) : ap_started(c)
  /\ goes("startothers")
  /\ UNCHANGED <<todo, aps, entry, apc, stack, kmem_vars>>

\* mpenter(), mpmain(): the processor takes its stack and comes to its scheduler.
mpenter(c) ==
  /\ apc[c] = "entry" /\ stack[c] = 0
  /\ stack' = [stack EXCEPT ![c] = entry]
  /\ UNCHANGED <<bpc, todo, aps, entry, apc, kmem_vars>>
mpmain(c) ==
  /\ apc[c] = "entry" /\ stack[c] # 0
  /\ apc' = [apc EXCEPT ![c] = "up"]
  /\ UNCHANGED <<bpc, todo, aps, entry, stack, kmem_vars>>

startothers_done ==
  /\ bpc = "startothers" /\ returned(BootCpu) /\ aps = {}
  /\ todo' = [i \in 1..(NPages - NLow) |-> NLow + i]
  /\ goes("kinit2")
  /\ UNCHANGED <<aps, entry, apc, stack, kmem_vars>>
kinit2 == freerange("kinit2")
kinit2_done ==
  /\ bpc = "kinit2" /\ returned(BootCpu) /\ todo = <<>>
  /\ use_lock' = TRUE /\ goes("userinit")
  /\ UNCHANGED <<next, freelist, kmemLock, job, kpages, todo, aps, entry, apc, stack>>

\* The first process: from its p->state = RUNNABLE on, every processor may have one to run.
userinit ==
  /\ bpc = "userinit" /\ step(BootCpu, kalloc) /\ goes("userinit_done")
  /\ UNCHANGED <<next, freelist, kmemLock, use_lock, kpages, todo, aps, entry, apc, stack>>
userinit_done ==
  /\ bpc = "userinit_done" /\ returned(BootCpu)
  /\ goes("mpmain") /\ apc' = [apc EXCEPT ![BootCpu] = "up"]
  /\ UNCHANGED <<todo, aps, entry, stack, kmem_vars>>

\* A process in the kernel on processor c takes a page or gives one back.
kernel(c) ==
  /\ bpc = "mpmain" /\ apc[c] = "up" /\ returned(c)
  /\ \/ step(c, kalloc) /\ UNCHANGED kpages
     \/ \E d \in Processors : \E v \in kpages[d] :
          step(c, kfree(v)) /\ kpages' = [kpages EXCEPT ![d] = @ \ {v}]
  /\ UNCHANGED <<next, freelist, kmemLock, use_lock, main_vars>>

BootNext ==
  \/ kinit1 \/ kvmalloc \/ startothers \/ startothers_wait \/ startothers_done
  \/ kinit2 \/ kinit2_done \/ userinit \/ userinit_done
  \/ \E c \in Processors :
       \/ kmem_acquire(c) \/ kmem_read(c) \/ kmem_write(c) \/ kmem_release(c)
       \/ lapicstartap(c) \/ mpenter(c) \/ mpmain(c) \/ kernel(c)

BootSpec == BootInit /\ [][BootNext]_bootvars

-----------------------------------------------------------------------------
\* Pages the list comes by in k links, 0 after its end.
Link[k \in 0..NPages] == IF k = 0 THEN freelist ELSE IF Link[k-1] = 0 THEN 0 ELSE next[Link[k-1]]
Listed == {Link[k] : k \in 0..NPages} \ {0}
Busy == {job[c].r : c \in {d \in Processors : job[d].op # "none"}} \ {0}
Unfreed == ToSet(todo) \cup (IF bpc \in {"kinit1", "kvmalloc", "startothers", "lapicstartap", "started"}
                              THEN (NLow + 1)..NPages ELSE {})

\* kfree() and kalloc() of any processors, with the lock not yet in use during boot: a page is
\* on the free list or has one owner, none is lost, and the list ends; kfree() is given
\* nothing but pages.
FreeListExact ==
  /\ \A c \in Processors : job[c].at # "panic"
  /\ Link[NPages] = 0
  /\ \A c, d \in DOMAIN kpages : c # d => kpages[c] \cap kpages[d] = {}
  /\ Listed \cap UNION Range(kpages) = {}
  /\ Listed \cup UNION Range(kpages) \cup Busy \cup Unfreed = Pages

\* startothers() passes every processor its stack in the same word: no two run on one
\* stack, and none on a page that is free.
OwnStack ==
  \A c \in Processors : stack[c] # 0 =>
    /\ stack[c] \in kpages[NoCpu]
    /\ \A d \in Processors : d # c => stack[d] # stack[c]

\* From the first kfree() of the boot on, every page has one use: on the free list, with
\* one owner, or as the stack of one processor.
OneUsePerPage == FreeListExact /\ OwnStack
=============================================================================
