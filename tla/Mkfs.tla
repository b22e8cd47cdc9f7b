-------------------------------- MODULE Mkfs --------------------------------
(***************************************************************************)
(* mkfs (src/mkfs.c) writes the first file system image: the root, a       *)
(* directory entry and an inode for each file, blocks in the order they    *)
(* are needed, and last the bitmap.  Sizes count directory entries; a      *)
(* position of a block holds <<inode, offset>>, the data written there.    *)
(***************************************************************************)
EXTENDS FsLayout, FiniteSets, SequencesExt

CONSTANTS nmeta,       \* first block of the data
          MkBlocks,    \* bound: data blocks of the image, enough for the files
          BPB,         \* blocks that the bitmap, one block, can mark: BSIZE*8
          MaxFiles,    \* bound: files
          MaxLen       \* bound: length of a file

MkRoot == 1
Blank == <<0, 0>>

VARIABLES phase,   \* "start", "files", "done", or "assert" when one failed
          image,   \* freeinode, freeblock and the blocks on disk
          rest,    \* what is left to read of the current file
          rootLen, \* size of the root before it was rounded, or 0
          bitmap   \* blocks marked in the bitmap

mkfsvars == <<phase, image, rest, rootLen, bitmap>>

MkInums == 1..MaxFiles + 1
DataBlocks == nmeta..nmeta + MkBlocks - 1
NoInode == [type |-> "none", size |-> 0, addrs |-> [i \in 0..NDIRECT |-> 0]]

MkfsInit ==
  /\ phase = "start" /\ rest = 0 /\ rootLen = 0 /\ bitmap = {}
  /\ image = [freeinode |-> MkRoot, freeblock |-> nmeta,
              dinode |-> [i \in MkInums |-> NoInode],
              indirect |-> [b \in DataBlocks |-> [i \in 0..NINDIRECT-1 |-> 0]],
              data |-> [b \in DataBlocks |-> [i \in 0..BSIZE-1 |-> Blank]]]

mk_ialloc(im, type) == [im EXCEPT !.dinode[im.freeinode].type = type, !.freeinode = @ + 1]

\* The block of index fbn is allocated unless it is there, the indirect block first.
reserve(im, inum, fbn) ==
  IF fbn < NDIRECT
  THEN IF im.dinode[inum].addrs[fbn] # 0 THEN im
       ELSE [im EXCEPT !.dinode[inum].addrs[fbn] = im.freeblock, !.freeblock = @ + 1]
  ELSE LET im1 == IF im.dinode[inum].addrs[NDIRECT] # 0 THEN im
                  ELSE [im EXCEPT !.dinode[inum].addrs[NDIRECT] = im.freeblock,
                                  !.freeblock = @ + 1]
           ib == im1.dinode[inum].addrs[NDIRECT]
       IN IF im1.indirect[ib][fbn - NDIRECT] # 0 THEN im1
          ELSE [im1 EXCEPT !.indirect[ib][fbn - NDIRECT] = im1.freeblock, !.freeblock = @ + 1]

blockOf(im, inum, fbn) == blockAt(im.dinode[inum].addrs, im.indirect, fbn)

\* A turn of the loop of iappend(): n1 positions that fit in one block.
appendPiece(inum, im, n1) ==
  LET off == im.dinode[inum].size
      im1 == reserve(im, inum, off \div BSIZE)
      x == blockOf(im1, inum, off \div BSIZE)
      o == off % BSIZE
  IN [im1 EXCEPT !.data[x] = [i \in 0..BSIZE-1 |->
                                IF i >= o /\ i < o + n1 THEN <<inum, off - o + i>> ELSE @[i]],
                 !.dinode[inum].size = off + n1]

\* Mutant of pieces: the room is that of a whole block.
pieces_whole(off, n) == <<n>>

\* How iappend() cuts n <= BSIZE positions at the end of a block.
pieces(off, n) == LET room == BSIZE - (off % BSIZE)
                  IN IF n <= room THEN <<n>> ELSE <<room, n - room>>

iappend(im, inum, n) ==
  FoldLeft(LAMBDA i, n1 : appendPiece(inum, i, n1), im, pieces(im.dinode[inum].size, n))

\* iappend() has assert(fbn < MAXFILE).
tooLong(im, inum, n) == im.dinode[inum].size + n > MAXFILE * BSIZE

\* main() up to the loop over the files: the root with . and ..
mkroot ==
  /\ phase = "start"
  /\ image' = iappend(iappend(mk_ialloc(image, "T_DIR"), MkRoot, 1), MkRoot, 1)
  /\ phase' = "files"
  /\ UNCHANGED <<rest, rootLen, bitmap>>

\* The loop over the files, up to its read().
addfile(len) ==
  LET im == mk_ialloc(image, "T_FILE") IN
  /\ phase = "files" /\ rest = 0 /\ image.freeinode <= MaxFiles + 1
  /\ IF tooLong(im, MkRoot, 1)
     THEN phase' = "assert" /\ UNCHANGED <<image, rest>>
     ELSE image' = iappend(im, MkRoot, 1) /\ rest' = len /\ UNCHANGED phase
  /\ UNCHANGED <<rootLen, bitmap>>

\* read() returned cc > 0 positions of the file.
copy(cc) ==
  LET inum == image.freeinode - 1 IN
  /\ phase = "files" /\ cc <= rest
  /\ IF tooLong(image, inum, cc)
     THEN phase' = "assert" /\ UNCHANGED <<image, rest>>
     ELSE image' = iappend(image, inum, cc) /\ rest' = rest - cc /\ UNCHANGED phase
  /\ UNCHANGED <<rootLen, bitmap>>

\* balloc() marks the blocks below used, unless its assert() fails.
mk_balloc(used) ==
  IF used < BPB THEN phase' = "done" /\ bitmap' = 0..used - 1
  ELSE phase' = "assert" /\ UNCHANGED bitmap

\* The end of main(): the size of the root is rounded, to one block more when its entries
\* fill the last one, and the bitmap written.
finish ==
  LET off == image.dinode[MkRoot].size IN
  /\ phase = "files" /\ rest = 0
  /\ rootLen' = off
  /\ image' = [image EXCEPT !.dinode[MkRoot].size = ((off \div BSIZE) + 1) * BSIZE]
  /\ mk_balloc(image.freeblock)
  /\ UNCHANGED rest

MkfsNext == \/ mkroot \/ finish
            \/ \E len \in 0..MaxLen : addfile(len)
            \/ \E cc \in 1..BSIZE : copy(cc)

MkfsSpec == MkfsInit /\ [][MkfsNext]_mkfsvars
-----------------------------------------------------------------------------
UsedBy(inum) == blocksOf(image.dinode[inum].addrs, image.indirect)

\* How much of an inode was written: its size, which for the root is then rounded.
Length(inum) == IF inum = MkRoot /\ rootLen > 0 THEN rootLen ELSE image.dinode[inum].size

\* Every file reads back as it was written, wherever read() and the ends of the
\* blocks cut it: position k of an inode is where the kernel's bmap() looks for it.
ReadsBack ==
  \A inum \in MkInums : \A k \in 0..Length(inum)-1 :
    LET b == blockOf(image, inum, k \div BSIZE)
    IN b # 0 /\ image.data[b][k % BSIZE] = <<inum, k>>

\* The size that mkfs stores for the root takes in, besides its entries, less than a block
\* of blank ones, free for dirlink() -- or, when the entries fill their last block, one
\* block that is not there: the first readi() of the root to its end allocates it.
RootRounded ==
  rootLen > 0 =>
    \A k \in rootLen..image.dinode[MkRoot].size-1 :
      LET b == blockOf(image, MkRoot, k \div BSIZE)
      IN IF rootLen % BSIZE = 0 THEN b = 0 /\ k < rootLen + BSIZE
         ELSE b # 0 /\ image.data[b][k % BSIZE] = Blank

\* When mkfs is done the bitmap marks the blocks before the data and the blocks
\* in use and no other, so the kernel's balloc() gives out neither a block of a file nor
\* loses one; no two inodes share a block.
BitmapExact ==
  phase = "done" =>
    /\ bitmap = (0..nmeta-1) \cup UNION {UsedBy(i) : i \in MkInums}
    /\ \A i, j \in MkInums : i # j => UsedBy(i) \cap UsedBy(j) = {}

\* What the kernel finds in an image of mkfs: every file as written, the root rounded as
\* main() rounds it, and a bitmap of exactly the blocks in use.
ImageExact == ReadsBack /\ RootRounded /\ BitmapExact
=============================================================================
