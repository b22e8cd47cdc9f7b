------------------------------ MODULE FsLayout ------------------------------
(***************************************************************************)
(* How fs.h lays a file out on the disk, as the kernel (Content) and mkfs  *)
(* (Mkfs) both use it.                                                     *)
(***************************************************************************)
EXTENDS Integers

CONSTANTS BSIZE, NDIRECT, NINDIRECT

ASSUME FsLayoutAssumption == BSIZE \in Nat \ {0} /\ NDIRECT \in Nat /\ NINDIRECT \in Nat

MAXFILE == NDIRECT + NINDIRECT

\* The block of index bn of a file whose addrs are given, where indirect[b] is what the block b
\* lists: 0 when it has none.
blockAt(addrs, indirect, bn) ==
  CASE bn < NDIRECT -> addrs[bn]
    [] bn >= NDIRECT /\ addrs[NDIRECT] # 0 -> indirect[addrs[NDIRECT]][bn - NDIRECT]
    [] OTHER -> 0

\* The blocks of a file, the indirect block included.
blocksOf(addrs, indirect) ==
  ({addrs[i] : i \in 0..NDIRECT}
   \cup (IF addrs[NDIRECT] = 0 THEN {} ELSE {indirect[addrs[NDIRECT]][i] : i \in 0..NINDIRECT-1}))
  \ {0}
=============================================================================
