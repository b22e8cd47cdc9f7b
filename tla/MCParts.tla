------------------------------ MODULE MCParts ------------------------------
(***************************************************************************)
(* The parts of the system that share no state in these models, in one     *)
(* model: the first state chooses a part, the others stand still.          *)
(***************************************************************************)
EXTENDS Spinlock, Boot, Console, Kbd, Vm, UserArgs, Content, Strings, Mkfs,
        Malloc, ShParse, Grep

VARIABLE part

Parts == {"spinlock", "boot", "console", "kbd", "vm", "args", "content", "strings", "mkfs",
          "malloc", "shparse", "grep"}

\* Sizes of sbrk(): up by more than a page, down within a page, by one and by two.
Sbrk == {3, -1, -2, -4}

\* Programs with one segment, with two, and with one that cannot be loaded.
Seg(top, ok) == [end |-> top, loads |-> ok]
Elf == {<<Seg(3, TRUE)>>, <<Seg(2, TRUE), Seg(1, TRUE)>>, <<Seg(2, FALSE)>>}

\* Calls of three cells, which cover two blocks, on the inode that is read, and of five
\* on the other, which fill the disk.
ThreeOrFive(inum) == IF inum \in CReads THEN {3} ELSE {5}

\* A file is written again from its start, or continued.
StartOrEnd(size) == {0, size}

\* Two versions of the data of the inode that is read.
TwoOrOne(inum) == IF inum \in CReads THEN {1, 2} ELSE {1}

\* Cells that tell the inode, the data and the offset, and are no numbers of blocks.
TaggedByte(inum, k, v) == 100 * inum + 10 * v + k

\* ^a tells a line from what follows a cut in it.
AtBegin == {<<"^", "a">>}

PartsInit ==
  /\ part \in Parts
  /\ Init /\ BootInit /\ ConInit /\ KbdInit /\ VmInit /\ ArgsInit /\ ContentInit
  /\ StringsInit /\ MkfsInit /\ MallocInit /\ ShParseInit /\ GrepInit
  /\ part # "args" => sz = 0
  /\ part # "console" => cursor = 0
  /\ part # "strings" => name = [k \in DOMAIN name |-> NULc]

PartsNext ==
  /\ UNCHANGED part
  /\ IF part = "spinlock" THEN Next ELSE UNCHANGED vars
  /\ IF part = "boot" THEN BootNext ELSE UNCHANGED bootvars
  /\ IF part = "console" THEN ConNext ELSE UNCHANGED convars
  /\ IF part = "kbd" THEN KbdNext ELSE UNCHANGED kbdvars
  /\ IF part = "vm" THEN VmNext ELSE UNCHANGED vmvars
  /\ IF part = "args" THEN ArgsNext ELSE UNCHANGED argvars
  /\ IF part = "content" THEN ContentNext ELSE UNCHANGED contentvars
  /\ IF part = "strings" THEN StringsNext ELSE UNCHANGED strvars
  /\ IF part = "mkfs" THEN MkfsNext ELSE UNCHANGED mkfsvars
  /\ IF part = "malloc" THEN MallocNext ELSE UNCHANGED mallocvars
  /\ IF part = "shparse" THEN ShParseNext ELSE UNCHANGED line
  /\ IF part = "grep" THEN GrepNext ELSE UNCHANGED grepvars

partsvars == <<part, vars, bootvars, convars, kbdvars, vmvars, argvars, contentvars, strvars,
               mkfsvars, mallocvars, line, grepvars>>

PartsSpec == PartsInit /\ [][PartsNext]_partsvars
=============================================================================
