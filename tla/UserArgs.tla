------------------------------ MODULE UserArgs ------------------------------
(***************************************************************************)
(* How a system call takes its arguments from user memory (src/syscall.c): *)
(* the words above the user's stack pointer, and the memory that pointers  *)
(* among them name.  Addresses are uints that wrap; a process has sz bytes *)
(* from 0 up, and the kernel lives above KERNBASE.  What the words hold is *)
(* the program's choice.                                                   *)
(***************************************************************************)
EXTENDS Integers

CONSTANTS KERNBASE,  \* half of the values of a uint
          WORD,      \* bytes of an int
          MaxArg     \* bound: arguments are numbered 0..MaxArg

ASSUME UserArgsAssumption == /\ KERNBASE \in Nat /\ WORD \in Nat /\ MaxArg \in Nat
                             /\ 1 <= WORD /\ WORD <= KERNBASE

UINT == 2 * KERNBASE
Uints == 0..UINT-1
Ints == -KERNBASE..KERNBASE-1
Refused == [ok |-> FALSE, first |-> 0, len |-> 0]

VARIABLES sz,    \* size of the process
          nul,   \* the bytes of its memory that are 0
          grant  \* what the last call granted the kernel: len bytes from first

argvars == <<sz, nul, grant>>

ArgsInit == /\ sz \in 0..KERNBASE /\ nul \in SUBSET (0..sz-1)
            /\ grant = Refused

\* A sum of two uints.
plus(a, b) == IF a + b < UINT THEN a + b ELSE a + b - UINT

fetchint(addr) == IF addr >= sz \/ plus(addr, WORD) > sz THEN Refused
                  ELSE [ok |-> TRUE, first |-> addr, len |-> WORD]

\* g is what fetchstr() grants: the bytes up to the first 0 byte from addr on.
fetchstr(addr, g) ==
  IF addr >= sz \/ \A s \in nul : s < addr THEN g = Refused
  ELSE \E s \in nul : /\ s >= addr /\ \A t \in nul : t >= addr => s <= t
                      /\ g = [ok |-> TRUE, first |-> addr, len |-> s - addr]

argint(esp, n) == fetchint((esp + WORD + WORD * n) % UINT)

\* Mutant of argptrOk: no test for a negative size.
argptrOk_negative(i, size) == ~(i >= sz \/ plus(i, size % UINT) > sz)

\* The test of argptr(): i is the word fetched, as a uint.
argptrOk(i, size) == ~(size < 0 \/ i >= sz \/ plus(i, size) > sz)

argptr(esp, n, i, size) ==
  IF ~argint(esp, n).ok \/ ~argptrOk(i, size) THEN Refused
  ELSE [ok |-> TRUE, first |-> i, len |-> size]

argstr(esp, n, i, g) == IF ~argint(esp, n).ok THEN g = Refused ELSE fetchstr(i, g)

ArgsNext == /\ \E esp \in Uints, n \in 0..MaxArg :
                 \/ grant' = argint(esp, n)
                 \/ \E i \in Uints, size \in Ints : grant' = argptr(esp, n, i, size)
                 \/ \E i \in Uints : argstr(esp, n, i, grant')
            /\ UNCHANGED <<sz, nul>>

ArgsSpec == ArgsInit /\ [][ArgsNext]_argvars
-----------------------------------------------------------------------------
\* What the system call then reads or writes is memory of the process, below its
\* size and so below the kernel, whatever esp, pointer and size the program gave: the
\* additions of the tests may wrap, but not so as to let a range pass.
GrantInside == grant.ok => /\ grant.len >= 0
                           /\ grant.first >= 0
                           /\ grant.first + grant.len <= sz
=============================================================================
