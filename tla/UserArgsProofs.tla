--------------------------- MODULE UserArgsProofs ---------------------------
(***************************************************************************)
(* The tests of syscall.c keep a system call inside its process's memory,  *)
(* for every size of int and of address space.                             *)
(***************************************************************************)
EXTENDS UserArgs, TLAPS

\* The size of the process and its 0 bytes never change, and the grant is inside.
ArgsInv == sz \in 0..KERNBASE /\ nul \subseteq 0..sz-1 /\ GrantInside

\* fetchint() refuses an int that sticks out: with sz <= KERNBASE the sum wraps
\* only for an address the first test has refused.
LEMMA FetchintInside ==
  ASSUME sz \in 0..KERNBASE, NEW addr \in Uints, fetchint(addr).ok
  PROVE  /\ fetchint(addr).len = WORD /\ fetchint(addr).first = addr
         /\ addr + WORD <= sz
  BY UserArgsAssumption DEF fetchint, plus, Uints, UINT, Refused

\* argptr() refuses a range that sticks out.
LEMMA ArgptrInside ==
  ASSUME sz \in 0..KERNBASE, NEW i \in Uints, NEW size \in Ints, argptrOk(i, size)
  PROVE  size >= 0 /\ i + size <= sz
  BY UserArgsAssumption DEF argptrOk, plus, Uints, Ints, UINT

\* A string is inside because its last byte is one of the process's.
LEMMA FetchstrInside ==
  ASSUME sz \in 0..KERNBASE, nul \subseteq 0..sz-1, NEW i \in Uints, NEW g, fetchstr(i, g), g.ok
  PROVE  g.len >= 0 /\ g.first >= 0 /\ g.first + g.len <= sz
  <1>1. PICK s \in nul : s >= i /\ g = [ok |-> TRUE, first |-> i, len |-> s - i]
    BY DEF fetchstr, Refused
  <1>. QED  BY <1>1, UserArgsAssumption DEF Uints, UINT

\* GrantInside holds of every call, for every KERNBASE and WORD.
THEOREM ArgsSafe == ArgsSpec => []GrantInside
  <1>1. ArgsInit => ArgsInv
    BY DEF ArgsInit, ArgsInv, GrantInside, Refused
  <1>2. ArgsInv /\ [ArgsNext]_argvars => ArgsInv'
    <2> SUFFICES ASSUME ArgsInv, [ArgsNext]_argvars  PROVE ArgsInv'
      OBVIOUS
    <2>1. CASE UNCHANGED argvars
      BY <2>1 DEF ArgsInv, GrantInside, argvars
    <2>2. CASE ArgsNext
      <3>1. sz' = sz /\ nul' = nul
        BY <2>2 DEF ArgsNext
      <3>2. PICK esp \in Uints, n \in 0..MaxArg :
              \/ grant' = argint(esp, n)
              \/ \E i \in Uints, size \in Ints : grant' = argptr(esp, n, i, size)
              \/ \E i \in Uints : argstr(esp, n, i, grant')
        BY <2>2 DEF ArgsNext
      <3>3. CASE grant' = argint(esp, n)
        <4>1. (esp + WORD + WORD * n) % UINT \in Uints
          <5>1. UINT \in Nat \ {0} /\ esp + WORD + WORD * n \in Nat
            BY UserArgsAssumption DEF UINT, Uints
          <5>. QED  BY <5>1 DEF Uints
        <4>. QED  BY <3>1, <3>3, <4>1, FetchintInside, UserArgsAssumption
                  DEF argint, ArgsInv, GrantInside, Uints
      <3>4. CASE \E i \in Uints, size \in Ints : grant' = argptr(esp, n, i, size)
        BY <3>1, <3>4, ArgptrInside DEF argptr, ArgsInv, GrantInside, Refused, Uints
      <3>5. CASE \E i \in Uints : argstr(esp, n, i, grant')
        BY <3>1, <3>5, FetchstrInside DEF argstr, ArgsInv, GrantInside, Refused
      <3>. QED  BY <3>2, <3>3, <3>4, <3>5
    <2>. QED  BY <2>1, <2>2
  <1>3. ArgsInv => GrantInside
    BY DEF ArgsInv
  <1>. QED  BY <1>1, <1>2, <1>3, PTL DEF ArgsSpec
=============================================================================
