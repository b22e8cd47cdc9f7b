--------------------------------- MODULE Vm ---------------------------------
(***************************************************************************)
(* Address spaces: vm.c, exec(), fork() and growproc() as far as they      *)
(* build, extend, copy and drop page tables while other processes take     *)
(* the last free pages.                                                    *)
(*                                                                         *)
(* Every kalloc() is a step of its own and may find no page.  The pages    *)
(* are only counted: which one kalloc() returns is the business of Boot.   *)
(* A run of kfree() is one step.  An address space is the record of its    *)
(* page directory: the kernel's page tables it has (KTABS when complete),  *)
(* the user page tables, and for every user page none, "user" or "guard"   *)
(* (PTE_U cleared).  Sizes are bytes of which PGSIZE make a page, so that  *)
(* sizes need not be aligned.                                              *)
(***************************************************************************)
EXTENDS Integers, FiniteSets, Sequences, FiniteSetsExt

CONSTANTS
  VProcs,     \* slots of the process table
  VInit,      \* the first process
  NFREE,      \* pages on the free list once the first process runs
  PGSIZE,     \* bytes in a page
  NPTENTRIES, \* pages that one page table maps
  KTABS,      \* page tables of the kernel part, the same in every address space
  UKERNBASE,  \* first byte above user memory
  Programs,   \* the files exec() is given: sequences of loadable segments
  Deltas,     \* arguments of sbrk()
  NoAs

VARIABLES
  nfree,      \* length of kmem.freelist
  vproc,      \* ptable: state, kstack, size and page directory
  vjob        \* the system call each process is in

vmvars == <<nfree, vproc, vjob>>

UPages == 0..((UKERNBASE \div PGSIZE) - 1)
PGROUNDUP(sz) == ((sz + PGSIZE - 1) \div PGSIZE) * PGSIZE
PDX(pg) == pg \div NPTENTRIES
pageAfter(sz) == PGROUNDUP(sz) \div PGSIZE
pagesBelow(sz) == {pg \in UPages : pg * PGSIZE < sz}

EmptyAs == [ktabs |-> 0, tabs |-> {}, pte |-> [pg \in UPages |-> "none"]]
present(as) == {pg \in UPages : as.pte[pg] # "none"}

\* Pages an address space takes: the directory, the page tables and the user's pages.
pagesOf(as) == IF as = NoAs THEN 0 ELSE 1 + as.ktabs + Cardinality(as.tabs) + Cardinality(present(as))

\* as |-> the address space that is built or extended, a |-> the next page, new |-> the size
\* it shall have, old |-> the size it had, mem |-> pages in a local variable, ret |-> where
\* allocuvm() and setupkvm() return to, segs |-> segments still to load, child |-> fork()'s.
NoCall == [at |-> "user", as |-> NoAs, a |-> 0, new |-> 0, old |-> 0, mem |-> 0, ret |-> "",
           segs |-> <<>>, child |-> VInit]
Unused == [state |-> "UNUSED", kstack |-> 0, sz |-> 0, pgdir |-> NoAs, parent |-> VInit]

firstAs == [ktabs |-> KTABS, tabs |-> {0}, pte |-> [EmptyAs.pte EXCEPT ![0] = "user"]]
VmInit ==
  /\ nfree = NFREE
  /\ vproc = [p \in VProcs |-> IF p = VInit
                THEN [Unused EXCEPT !.state = "RUNNABLE", !.kstack = 1, !.sz = PGSIZE, !.pgdir = firstAs]
                ELSE Unused]
  /\ vjob = [p \in VProcs |-> NoCall]

call(p, j) == vjob' = [vjob EXCEPT ![p] = j]

-----------------------------------------------------------------------------
\* deallocuvm(): frees the present pages from PGROUNDUP(new) up to old; page tables stay.
deallocuvm(as, old, new) ==
  [as EXCEPT !.pte = [pg \in UPages |->
     IF PGROUNDUP(new) <= pg * PGSIZE /\ pg * PGSIZE < old THEN "none" ELSE as.pte[pg]]]
givenBack(as, b) == pagesOf(as) - pagesOf(b)

\* allocuvm() fails: mem is what it has of the page it could not map.
allocuvm_bad(p, mem) ==
  LET j == vjob[p]
      b == deallocuvm(j.as, j.new, j.old)
  IN /\ call(p, [j EXCEPT !.at = j.ret, !.as = b, !.mem = 0, !.new = 0])
     /\ nfree' = nfree + givenBack(j.as, b) + mem

\* allocuvm(): the call, then kalloc() and mappages() for each page.
allocuvm(j, old, new, ret) ==
  IF new >= UKERNBASE THEN [j EXCEPT !.at = ret, !.new = 0]
  ELSE IF new < old THEN [j EXCEPT !.at = ret, !.new = old]
  ELSE [j EXCEPT !.at = "allocuvm", !.a = pageAfter(old), !.new = new, !.old = old, !.ret = ret]
allocuvm_kalloc(p) ==
  LET j == vjob[p] IN
  /\ j.at = "allocuvm" /\ UNCHANGED vproc
  /\ IF j.a * PGSIZE >= j.new THEN call(p, [j EXCEPT !.at = j.ret]) /\ UNCHANGED nfree
     ELSE IF nfree = 0 THEN allocuvm_bad(p, 0)
     ELSE call(p, [j EXCEPT !.at = "allocuvm_map", !.mem = 1]) /\ nfree' = nfree - 1

\* walkpgdir(): the page table of page pg, allocated when it is not there.
needsTab(as, pg) == IF PDX(pg) \in as.tabs THEN 0 ELSE 1
mapped(as, pg, perm) == [as EXCEPT !.tabs = @ \cup {PDX(pg)}, !.pte[pg] = perm]
remap(j) == j.as.pte[j.a] # "none"

allocuvm_map(p) ==
  LET j == vjob[p] IN
  /\ j.at = "allocuvm_map" /\ UNCHANGED vproc
  /\ IF nfree < needsTab(j.as, j.a) THEN allocuvm_bad(p, j.mem)
     ELSE IF remap(j) THEN call(p, [j EXCEPT !.at = "panic"]) /\ UNCHANGED nfree
     ELSE /\ call(p, [j EXCEPT !.at = "allocuvm", !.as = mapped(j.as, j.a, "user"), !.a = @ + 1, !.mem = 0])
          /\ nfree' = nfree - needsTab(j.as, j.a)

\* setupkvm(): the directory, then the kernel's page tables; freevm() when there is no page.
setupkvm(p) ==
  LET j == vjob[p] IN
  /\ j.at = "setupkvm" /\ UNCHANGED vproc
  /\ IF j.as # NoAs /\ j.as.ktabs = KTABS THEN call(p, [j EXCEPT !.at = j.ret]) /\ UNCHANGED nfree
     ELSE IF nfree = 0 THEN call(p, [j EXCEPT !.at = j.ret, !.as = NoAs]) /\ nfree' = nfree + pagesOf(j.as)
     ELSE /\ call(p, [j EXCEPT !.as = IF j.as = NoAs THEN EmptyAs ELSE [j.as EXCEPT !.ktabs = @ + 1]])
          /\ nfree' = nfree - 1

-----------------------------------------------------------------------------
\* A process makes system calls as long as its code is there; when it has none it
\* can only fault, and trap() makes it exit.
inUser(p) == vproc[p].state = "RUNNABLE" /\ vjob[p].at = "user"
canCall(p) == inUser(p) /\ present(vproc[p].pgdir) # {}

\* growproc(n), from sys_sbrk(): sz + n wraps below zero.
sbrk(p, n) ==
  LET P == vproc[p]
      b == deallocuvm(P.pgdir, P.sz, P.sz + n)
  IN /\ canCall(p)
     /\ IF n >= 0 THEN /\ call(p, allocuvm([NoCall EXCEPT !.as = P.pgdir], P.sz, P.sz + n, "sbrk_done"))
                       /\ UNCHANGED <<nfree, vproc>>
        ELSE IF P.sz + n < 0 THEN UNCHANGED vmvars
        ELSE /\ vproc' = [vproc EXCEPT ![p].pgdir = b, ![p].sz = IF P.sz + n = 0 THEN P.sz ELSE P.sz + n]
             /\ nfree' = nfree + givenBack(P.pgdir, b) /\ UNCHANGED vjob
sbrk_done(p) ==
  LET j == vjob[p] IN
  /\ j.at = "sbrk_done" /\ UNCHANGED nfree
  /\ vproc' = [vproc EXCEPT ![p].pgdir = j.as, ![p].sz = IF j.new = 0 THEN @ ELSE j.new]
  /\ call(p, NoCall)

\* fork(): allocproc() takes the slot and the kernel stack, copyuvm() copies the pages.
fork_vm(p, q) ==
  /\ canCall(p) /\ vproc[q].state = "UNUSED"
  /\ IF nfree = 0 THEN UNCHANGED vmvars
     ELSE /\ vproc' = [vproc EXCEPT ![q].state = "EMBRYO", ![q].kstack = 1]
          /\ nfree' = nfree - 1
          /\ call(p, [NoCall EXCEPT !.at = "setupkvm", !.ret = "copyuvm", !.child = q])

\* copyuvm() or setupkvm() fails: mem is the page that could not be mapped.
copyuvm_bad(p, mem) ==
  LET j == vjob[p] IN
  /\ vproc' = [vproc EXCEPT ![j.child] = Unused]
  /\ nfree' = nfree + pagesOf(j.as) + mem + vproc[j.child].kstack
  /\ call(p, NoCall)
copyuvm(p) ==
  LET j == vjob[p]
      P == vproc[p]
  IN /\ j.at = "copyuvm"
     /\ IF j.as = NoAs THEN copyuvm_bad(p, 0)
        ELSE IF j.a * PGSIZE >= P.sz
          THEN /\ vproc' = [vproc EXCEPT ![j.child] =
                    [@ EXCEPT !.state = "RUNNABLE", !.sz = P.sz, !.pgdir = j.as, !.parent = p]]
               /\ call(p, NoCall) /\ UNCHANGED nfree
        ELSE IF P.pgdir.pte[j.a] = "none" THEN call(p, [j EXCEPT !.at = "panic"]) /\ UNCHANGED <<nfree, vproc>>
        ELSE IF nfree = 0 THEN copyuvm_bad(p, 0)
        ELSE call(p, [j EXCEPT !.at = "copyuvm_map", !.mem = 1]) /\ nfree' = nfree - 1 /\ UNCHANGED vproc

flags(pte) == pte
copyuvm_map(p) ==
  LET j == vjob[p] IN
  /\ j.at = "copyuvm_map"
  /\ IF nfree < needsTab(j.as, j.a) THEN copyuvm_bad(p, j.mem)
     ELSE /\ call(p, [j EXCEPT !.at = "copyuvm", !.mem = 0, !.a = @ + 1,
                               !.as = mapped(j.as, j.a, flags(vproc[p].pgdir.pte[j.a]))])
          /\ nfree' = nfree - needsTab(j.as, j.a) /\ UNCHANGED vproc

-----------------------------------------------------------------------------
\* exec(): the new image is built beside the old one, which it replaces at the end.
exec_vm(p, prog) ==
  /\ canCall(p)
  /\ call(p, [NoCall EXCEPT !.at = "setupkvm", !.ret = "exec_seg", !.segs = prog])
  /\ UNCHANGED <<nfree, vproc>>

\* Mutant of exec_bad: the new address space is not freed.
exec_bad_kept(p) == call(p, NoCall) /\ UNCHANGED <<nfree, vproc>>
exec_bad(p) == call(p, NoCall) /\ nfree' = nfree + pagesOf(vjob[p].as) /\ UNCHANGED vproc

\* Whether the file has all the bytes of the segment.
loaduvm(seg) == seg.loads
clearpteu(as, pg) == [as EXCEPT !.pte[pg] = "guard"]

\* One loadable segment, or the two pages of the stack after the last; new is the size so
\* far, 0 when allocuvm() failed.
exec_seg(p) ==
  LET j == vjob[p] IN
  /\ j.at \in {"exec_seg", "exec_load"}
  /\ IF j.as = NoAs \/ (j.at = "exec_load" /\ (j.new = 0 \/ ~loaduvm(Head(j.segs)))) THEN exec_bad(p)
     ELSE LET rest == IF j.at = "exec_load" THEN Tail(j.segs) ELSE j.segs
              next == [j EXCEPT !.segs = rest]
          IN /\ call(p, IF rest = <<>>
                 THEN allocuvm(next, PGROUNDUP(j.new), PGROUNDUP(j.new) + (2 * PGSIZE), "exec_stack")
                 ELSE allocuvm(next, j.new, Head(rest).end, "exec_load"))
             /\ UNCHANGED <<nfree, vproc>>

\* clearpteu(); copyout() of the arguments, which fails when they do not fit; the commit.
exec_stack(p, fits) ==
  LET j == vjob[p]
      guard == (j.new \div PGSIZE) - 2
      P == vproc[p]
  IN /\ j.at = "exec_stack"
     /\ IF j.new = 0 \/ ~fits THEN exec_bad(p)
        ELSE /\ vproc' = [vproc EXCEPT ![p].pgdir = clearpteu(j.as, guard), ![p].sz = j.new]
             /\ nfree' = nfree + pagesOf(P.pgdir)
             /\ call(p, NoCall)

exit_vm(p) ==
  /\ inUser(p) /\ p # VInit
  /\ vproc' = [q \in VProcs |-> IF q = p THEN [vproc[p] EXCEPT !.state = "ZOMBIE"]
                 ELSE IF vproc[q].parent = p THEN [vproc[q] EXCEPT !.parent = VInit] ELSE vproc[q]]
  /\ UNCHANGED <<nfree, vjob>>
wait_vm(p, q) ==
  /\ canCall(p) /\ vproc[q].state = "ZOMBIE" /\ vproc[q].parent = p
  /\ nfree' = nfree + vproc[q].kstack + pagesOf(vproc[q].pgdir)
  /\ vproc' = [vproc EXCEPT ![q] = Unused]
  /\ UNCHANGED vjob

VmNext ==
  \E p \in VProcs :
    \/ allocuvm_kalloc(p) \/ allocuvm_map(p) \/ setupkvm(p)
    \/ copyuvm(p) \/ copyuvm_map(p) \/ exec_seg(p) \/ sbrk_done(p) \/ exit_vm(p)
    \/ \E n \in Deltas : sbrk(p, n)
    \/ \E q \in VProcs : fork_vm(p, q) \/ wait_vm(p, q)
    \/ \E prog \in Programs : exec_vm(p, prog)
    \/ \E fits \in BOOLEAN : exec_stack(p, fits)

VmSpec == VmInit /\ [][VmNext]_vmvars

-----------------------------------------------------------------------------
\* The address space a call has built and not yet installed; sbrk() extends the process's own,
\* of which vproc keeps the pages until sbrk() returns.
growing(p) == vjob[p].at = "sbrk_done" \/ vjob[p].ret = "sbrk_done"
inUse(p) ==
  vproc[p].kstack + vjob[p].mem
  + (IF growing(p) THEN 0 ELSE pagesOf(vproc[p].pgdir))
  + pagesOf(vjob[p].as)

\* Whatever fails half way in fork(), exec() or sbrk(), and whoever takes the last page
\* meanwhile: no page is lost and none is freed twice.
PagesExact == MapThenSumSet(inUse, VProcs) + nfree = NFREE + 1 + pagesOf(firstAs)

\* A process in user mode has exactly the pages below its size, as copyuvm() and the checks
\* of system call arguments suppose -- unless sbrk() took them all, which growproc() reports
\* as a failure without changing the size; such a process does not run again.
SizeIsMapped ==
  \A p \in VProcs : inUser(p) => present(vproc[p].pgdir) \in {pagesBelow(vproc[p].sz), {}}

\* mappages() meets no page that is mapped, copyuvm() none that is missing.
NoVmPanic == \A p \in VProcs : vjob[p].at # "panic"

\* The page below the user stack stays out of the user's reach in the copy that fork()
\* makes: copyuvm() copies the access rights of each page as it comes to it.
ForkCopies ==
  \A p \in VProcs : vjob[p].at \in {"copyuvm", "copyuvm_map"} /\ vjob[p].as # NoAs =>
    \A pg \in UPages : vjob[p].as.pte[pg] = IF pg < vjob[p].a THEN vproc[p].pgdir.pte[pg] ELSE "none"

\* User memory is accounted for to the page, in the free list and in the page tables,
\* through every failure of fork(), exec() and sbrk().
MemoryExact == PagesExact /\ SizeIsMapped /\ NoVmPanic /\ ForkCopies
=============================================================================
