------------------------------ MODULE Content -------------------------------
(***************************************************************************)
(* The contents of inodes and their blocks (fs.c: balloc, bfree, bmap,     *)
(* readi, writei, itrunc).  Calls on different inodes interleave; the      *)
(* caller has the lock of its inode.  balloc() and bfree() hold the buffer *)
(* of the bitmap: each is a step; bzero() comes after the bitmap's buffer  *)
(* is released and is another.  A block is BSIZE cells; a cell holds a     *)
(* piece of data or, in an indirect block, the number of a block.  A block *)
(* keeps its cells when it is freed.                                       *)
(***************************************************************************)
EXTENDS FsLayout, FiniteSets, Sequences, SequencesExt

CONSTANTS
  CInodes,   \* inodes in use
  CBlocks,   \* bound: data blocks 1..CBlocks; sb.size
  Data(_),   \* bound: what the callers of writei() on an inode write, told apart ...
  Byte(_, _, _), \* ... in each cell: what data v has at offset k of inode i
  Lengths(_), \* bound: cells of one readi() or writei() on an inode
  Offsets(_), \* bound: where a file of a size is written
  CReads     \* bound: inodes that are read

VARIABLES
  bmapped,   \* blocks marked in the bitmap
  cells,     \* the disk
  cino,      \* size and addrs[] of the inodes
  cop,       \* the call on each inode
  wrote,     \* what a file should hold: all that was written to it
  oops       \* panic()

contentvars == <<bmapped, cells, cino, cop, wrote, oops>>

CBlock == 1..CBlocks
Zeroes == [k \in 0..BSIZE-1 |-> 0]
Fresh == [size |-> 0, addrs |-> [k \in 0..NDIRECT |-> 0]]
NoOp == [do |-> "none", off |-> 0, n |-> 0, v |-> 0, b |-> 0, first |-> 0, got |-> <<>>]

ContentInit ==
  /\ bmapped = {} /\ cells = [b \in CBlock |-> Zeroes]
  /\ cino = [i \in CInodes |-> Fresh] /\ cop = [i \in CInodes |-> NoOp]
  /\ wrote = [i \in CInodes |-> <<>>] /\ oops = FALSE

does(i, o) == cop' = [cop EXCEPT ![i] = o]
idle(i) == cop[i].do = "none" /\ ~oops

-----------------------------------------------------------------------------
writei(i, off, n, v) ==
  /\ idle(i) /\ off <= cino[i].size /\ off + n <= MAXFILE * BSIZE
  /\ does(i, [NoOp EXCEPT !.do = "writei", !.off = off, !.n = n, !.v = v, !.first = off])
  /\ UNCHANGED <<bmapped, cells, cino, wrote, oops>>

clipped(i, off, n) == IF off + n > cino[i].size THEN cino[i].size - off ELSE n
readi(i, off, n) ==
  /\ idle(i) /\ off <= cino[i].size /\ clipped(i, off, n) > 0
  /\ does(i, [NoOp EXCEPT !.do = "readi", !.off = off, !.n = clipped(i, off, n), !.first = off])
  /\ UNCHANGED <<bmapped, cells, cino, wrote, oops>>

\* bmap(): where the block of index bn, or the indirect block before it, has no number yet.
missing(i, bn) ==
  LET a == cino[i].addrs IN
  CASE bn < NDIRECT /\ a[bn] = 0 -> <<"addrs", bn>>
    [] bn >= NDIRECT /\ a[NDIRECT] = 0 -> <<"addrs", NDIRECT>>
    [] bn >= NDIRECT /\ a[NDIRECT] # 0 /\ blockAt(a, cells, bn) = 0 -> <<"indirect", bn - NDIRECT>>
    [] OTHER -> <<"none">>
transfers(i) == cop[i].do \in {"readi", "writei"} /\ ~oops
bnAt(i) == cop[i].off \div BSIZE

freeBlocks == CBlock \ bmapped
first(S) == CHOOSE b \in S : \A c \in S : b <= c
balloc(i) ==
  /\ transfers(i) /\ cop[i].b = 0 /\ missing(i, bnAt(i))[1] # "none"
  /\ IF freeBlocks = {} THEN oops' = TRUE /\ UNCHANGED <<bmapped, cop>>
     ELSE bmapped' = bmapped \cup {first(freeBlocks)} /\ does(i, [cop[i] EXCEPT !.b = first(freeBlocks)]) /\ UNCHANGED oops
  /\ UNCHANGED <<cells, cino, wrote>>

\* bzero(), and the number goes to addrs[] or to the indirect block.
\* Mutant of zeroed: a new block keeps what it held.
zeroed_not(b) == cells
zeroed(b) == [cells EXCEPT ![b] = Zeroes]
bzero(i) ==
  LET b == cop[i].b
      m == missing(i, bnAt(i))
  IN /\ transfers(i) /\ b # 0
     /\ IF m[1] = "addrs"
          THEN cells' = zeroed(b) /\ cino' = [cino EXCEPT ![i].addrs[m[2]] = b]
          ELSE cells' = [zeroed(b) EXCEPT ![cino[i].addrs[NDIRECT]][m[2]] = b] /\ UNCHANGED cino
     /\ does(i, [cop[i] EXCEPT !.b = 0])
     /\ UNCHANGED <<bmapped, wrote, oops>>

\* What the file holds once n cells of v are written at off.
spliced(i, off, n, v) ==
  LET w == wrote[i] IN
  [k \in 1..(IF off + n > Len(w) THEN off + n ELSE Len(w)) |->
     IF k \in (off+1)..(off+n) THEN Byte(i, k - 1, v) ELSE w[k]]

\* One turn of the loop of readi() or writei(), and at the end the size.
xfer(i) ==
  LET o == cop[i]
      b == blockAt(cino[i].addrs, cells, bnAt(i))
      from == o.off % BSIZE
      m == IF o.n < BSIZE - from THEN o.n ELSE BSIZE - from
      next == [o EXCEPT !.off = @ + m, !.n = @ - m]
      got == [k \in 1..m |-> cells[b][from + k - 1]]
  IN /\ transfers(i) /\ o.b = 0 /\ missing(i, bnAt(i))[1] = "none"
     /\ IF o.do = "readi"
        THEN /\ does(i, [(IF next.n = 0 THEN [NoOp EXCEPT !.do = "read", !.first = o.first] ELSE next)
                         EXCEPT !.got = o.got \o got])
             /\ UNCHANGED <<cells, cino, wrote>>
        ELSE /\ cells' = [cells EXCEPT ![b] = [k \in 0..BSIZE-1 |->
                            IF from <= k /\ k < from + m THEN Byte(i, o.off + k - from, o.v) ELSE @[k]]]
             /\ IF next.n > 0 THEN does(i, next) /\ UNCHANGED <<cino, wrote>>
                ELSE /\ does(i, NoOp)
                     /\ cino' = [cino EXCEPT ![i].size = IF next.off > @ THEN next.off ELSE @]
                     /\ wrote' = [wrote EXCEPT ![i] = spliced(i, o.first, next.off - o.first, o.v)]
     /\ UNCHANGED <<bmapped, oops>>

\* readi() returns: the caller has the data.
readi_done(i) ==
  /\ cop[i].do = "read" /\ ~oops /\ does(i, NoOp)
  /\ UNCHANGED <<bmapped, cells, cino, wrote, oops>>

-----------------------------------------------------------------------------
\* itrunc(), for an inode without links and references, which is then free for another
\* file: the direct blocks, those of the indirect block, the indirect block.
itrunc(i) ==
  /\ idle(i) /\ cino[i].size > 0
  /\ does(i, [NoOp EXCEPT !.do = "itrunc"])
  /\ UNCHANGED <<bmapped, cells, cino, wrote, oops>>

toFree(i, k) ==
  LET a == cino[i].addrs IN
  CASE k < NDIRECT -> a[k]
    [] k >= NDIRECT /\ k < NDIRECT + NINDIRECT -> blockAt(a, cells, k)
    [] OTHER -> a[NDIRECT]
bfree(i) ==
  LET k == cop[i].off
      b == toFree(i, k)
  IN /\ cop[i].do = "itrunc" /\ ~oops
     /\ IF k > NDIRECT + NINDIRECT
        THEN /\ does(i, NoOp) /\ cino' = [cino EXCEPT ![i] = Fresh] /\ wrote' = [wrote EXCEPT ![i] = <<>>]
             /\ UNCHANGED <<bmapped, oops>>
        ELSE /\ oops' = (b # 0 /\ b \notin bmapped)
             /\ bmapped' = bmapped \ {b}
             /\ cino' = (IF k < NDIRECT THEN [cino EXCEPT ![i].addrs[k] = 0] ELSE cino)
             /\ does(i, [cop[i] EXCEPT !.off = k + 1]) /\ UNCHANGED wrote
     /\ UNCHANGED cells

ContentNext ==
  \E i \in CInodes :
    \/ balloc(i) \/ bzero(i) \/ xfer(i) \/ readi_done(i) \/ itrunc(i) \/ bfree(i)
    \/ \E off \in 0..cino[i].size, n \in Lengths(i) :
         \/ \E v \in Data(i) : off \in Offsets(cino[i].size) /\ writei(i, off, n, v)
         \/ i \in CReads /\ readi(i, off, n)

ContentSpec == ContentInit /\ [][ContentNext]_contentvars

-----------------------------------------------------------------------------
\* Blocks of inode i that itrunc() has not yet freed, and the one balloc() has just returned.
has(i) ==
  IF cop[i].do = "itrunc" THEN {toFree(i, k) : k \in cop[i].off..(NDIRECT + NINDIRECT)} \ {0}
  ELSE blocksOf(cino[i].addrs, cells) \cup ({cop[i].b} \ {0})

\* Whatever calls on other inodes do meanwhile, the bitmap marks the blocks the inodes
\* have and no other, and no block is in two places.
BlocksExact ==
  /\ bmapped = UNION {has(i) : i \in CInodes}
  /\ \A i, j \in CInodes : i # j => has(i) \cap has(j) = {}

\* readi() returns what writei() wrote, cut at the end of the file, with other files'
\* blocks allocated, freed and used again around it.
ReadsWhatWasWritten ==
  \A i \in CInodes : LET o == cop[i] IN
    o.do \in {"readi", "read"} =>
      /\ o.first + Len(o.got) <= Len(wrote[i])
      /\ o.got = SubSeq(wrote[i], o.first + 1, o.first + Len(o.got))

\* The blocks of files are theirs alone, and hold what was written to them.
FilesIntact == BlocksExact /\ ReadsWhatWasWritten
=============================================================================
