------------------------------- MODULE Malloc -------------------------------
(***************************************************************************)
(* The user-level allocator (src/umalloc.c): a circular list of free       *)
(* blocks in address order, base first, that starts anywhere (freep).      *)
(* Addresses count units of sizeof(Header); the header of a block is its   *)
(* first unit.  base is at 0 and the heap grows from 2, so base is never   *)
(* next to a block of the heap.  Units that are no header, and the pointer *)
(* of an allocated block, count as 0: they are the program's data.  A call *)
(* is one step: the allocator belongs to one process.                      *)
(***************************************************************************)
EXTENDS Integers, FiniteSets

CONSTANTS HeapEnd,   \* bound: sbrk() fails past it
          MinUnits,  \* 4096 in morecore()
          HSIZE,     \* sizeof(Header)
          MUINT,     \* 2^32, the values of a uint
          Requests   \* bytes asked for

\* Between the two sets of requests, morecore()'s size is not an int that sbrk() takes for
\* what it is; no such request is modelled.
ASSUME MallocAssumption ==
  /\ HeapEnd > 2 /\ HSIZE \in Nat \ {0} /\ MUINT \in Nat
  /\ Requests \subseteq 0..MUINT-1
  /\ \A n \in Requests : n + 2 * HSIZE <= MUINT \div 2 \/ n + HSIZE > MUINT

VARIABLES heap,  \* the pointers and sizes in the headers, freep and the break
         allocated   \* blocks the program has: address -> bytes it asked for

mallocvars == <<heap, allocated>>

base == 0
NoBlock == -1
HeapStart == 2
Addrs == 0..HeapEnd

MallocInit == /\ heap = [ptr |-> [a \in Addrs |-> 0], size |-> [a \in Addrs |-> 0],
                         freep |-> NoBlock, brk |-> HeapStart]
              /\ allocated = [a \in {} |-> 0]

\* Where free() stops: bp belongs after p, or at one end of the list.
fits(h, p, bp) == \/ bp > p /\ bp < h.ptr[p]
                  \/ p >= h.ptr[p] /\ (bp > p \/ bp < h.ptr[p])

\* Join bp to the block above it, or link them.
joinUpper(h, p, bp) ==
  LET q == h.ptr[p] IN
  IF bp + h.size[bp] = q
  THEN [h EXCEPT !.size[bp] = @ + h.size[q], !.ptr[bp] = h.ptr[q],
                 !.size[q] = 0, !.ptr[q] = 0]
  ELSE [h EXCEPT !.ptr[bp] = q]

\* Join bp to p below it, or link them; freep = p.
joinLower(h, p, bp) ==
  IF p + h.size[p] = bp
  THEN [h EXCEPT !.size[p] = @ + h.size[bp], !.ptr[p] = h.ptr[bp], !.freep = p,
                 !.size[bp] = 0, !.ptr[bp] = 0]
  ELSE [h EXCEPT !.ptr[p] = bp, !.freep = p]

\* free(): walk the list from freep to the place of bp.
freed(h, bp) ==
  LET walk[p \in Addrs] == IF fits(h, p, bp) THEN p ELSE walk[h.ptr[p]]
      p == walk[h.freep]
  IN joinLower(joinUpper(h, p, bp), p, bp)

\* morecore(): at least MinUnits more, put on the list by free().
morecore(h, nu) ==
  LET n == IF nu < MinUnits THEN MinUnits ELSE nu
  IN IF h.brk + n > HeapEnd THEN h
     ELSE freed([h EXCEPT !.size[h.brk] = n, !.brk = @ + n], h.brk)

\* The first block of at least n units from freep on, by its predecessor.
search(h, n) ==
  LET look[q \in Addrs] == IF h.size[h.ptr[q]] >= n THEN q
                           ELSE IF h.ptr[q] = h.freep THEN NoBlock
                           ELSE look[h.ptr[q]]
  IN look[h.freep]

\* Mutant of taken: the header keeps the size it had before the cut.
taken_uncut(h, prevp, n) ==
  LET p == h.ptr[prevp] IN
  IF h.size[p] = n
  THEN [block |-> p, heap |-> [h EXCEPT !.ptr[prevp] = h.ptr[p], !.ptr[p] = 0, !.freep = prevp]]
  ELSE LET b == p + h.size[p] - n
       IN [block |-> b, heap |-> [h EXCEPT !.size[b] = n, !.freep = prevp]]

\* Take the block after prevp, or its last n units.
taken(h, prevp, n) ==
  LET p == h.ptr[prevp] IN
  IF h.size[p] = n
  THEN [block |-> p, heap |-> [h EXCEPT !.ptr[prevp] = h.ptr[p], !.ptr[p] = 0, !.freep = prevp]]
  ELSE LET b == p + h.size[p] - n
       IN [block |-> b,
           heap |-> [h EXCEPT !.size[p] = @ - n, !.size[b] = n, !.freep = prevp]]

\* The units for nbytes and a header, in the arithmetic of a uint.
nunits(nbytes) == ((nbytes + HSIZE - 1) % MUINT) \div HSIZE + 1

\* malloc(), which leaves the heap as it was when sbrk() fails.
malloc(nbytes) ==
  LET n == nunits(nbytes)
      h0 == IF heap.freep = NoBlock
            THEN [heap EXCEPT !.ptr[base] = base, !.freep = base, !.size[base] = 0]
            ELSE heap
      h1 == IF search(h0, n) = NoBlock THEN morecore(h0, n) ELSE h0
      prevp == search(h1, n)
      t == taken(h1, prevp, n)
  IN IF prevp = NoBlock
     THEN heap' = h1 /\ UNCHANGED allocated
     ELSE /\ heap' = t.heap
          /\ allocated' = [a \in DOMAIN allocated \cup {t.block} |-> IF a = t.block THEN nbytes ELSE allocated[a]]

free(bp) ==
  /\ heap' = freed(heap, bp)
  /\ allocated' = [a \in DOMAIN allocated \ {bp} |-> allocated[a]]

MallocNext == \/ \E nbytes \in Requests : malloc(nbytes)
              \/ \E bp \in DOMAIN allocated : free(bp)

MallocSpec == MallocInit /\ [][MallocNext]_mallocvars
-----------------------------------------------------------------------------
\* The blocks on the list, found by following the pointers from base.
FreeList ==
  LET from[q \in Addrs] == IF heap.ptr[q] = base THEN {q} ELSE {q} \cup from[heap.ptr[q]]
  IN from[base] \ {base}

\* The block b is as large as nbytes and a header need, to the unit.  Of the requests, only
\* those so near 2^32 that the sum of malloc() wraps get less.
LargeEnough(b, nbytes) ==
  LET room == (heap.size[b] - 1) * HSIZE
  IN (room >= nbytes /\ room < nbytes + HSIZE) \/ nbytes + HSIZE > MUINT

\* Every unit of the heap is in exactly one block, free or allocated, and a
\* block the program has is as large as it asked: malloc() and free() neither lose
\* memory nor give it out twice, whatever the order of the calls.
HeapTiled ==
  heap.freep # NoBlock =>
    LET Holders(u) == {b \in FreeList \cup DOMAIN allocated : b <= u /\ u < b + heap.size[b]}
    IN /\ FreeList \cap DOMAIN allocated = {}
       /\ \A u \in HeapStart..heap.brk-1 : Cardinality(Holders(u)) = 1
       /\ \A b \in DOMAIN allocated : LargeEnough(b, allocated[b])

\* Neighbours are joined: no free block ends where another begins, so memory that
\* is all given back is one block again.
Coalesced ==
  heap.freep # NoBlock => \A b, c \in FreeList : b + heap.size[b] # c

\* After any calls of malloc() and free(), the heap is tiled by blocks, free neighbours joined.
HeapExact == HeapTiled /\ Coalesced
=============================================================================
