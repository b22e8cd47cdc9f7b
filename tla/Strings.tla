------------------------------ MODULE Strings -------------------------------
(***************************************************************************)
(* The kernel's string functions (string.c), skipelem() (fs.c) and the     *)
(* names of directory entries that rest on them.  A buffer is a function   *)
(* from offsets to characters; the loops are folds that copy one cell      *)
(* after the other, so that overlapping buffers behave as they do.  The    *)
(* state is one path, looked up element by element with the name buffer    *)
(* namex() uses again for each, and one call of memmove() or safestrcpy(). *)
(***************************************************************************)
EXTENDS Integers, Sequences, SequencesExt, FiniteSetsExt, TLC

CONSTANTS
  Letters,   \* characters of names
  DIRSIZ,
  MaxPath,   \* bound: length of a path
  MemSize    \* bound: cells of the memory that memmove() is called on

VARIABLES
  path,      \* the path namex() was given
  left,     \* what is left of it
  name,      \* namex()'s name buffer
  elem,      \* history: the element name stands for
  passed,    \* history: the elements so far
  mem, moved \* a memory and the call made on it

strvars == <<path, left, name, elem, passed, mem, moved>>
pathvars == <<path, left, name, elem, passed>>

NULc == "nul"
Cell(k) == ToString(k)
PathChars == Letters \cup {"/"}
Cells == 0..MemSize-1
cstr(s, k) == IF k < Len(s) THEN s[k + 1] ELSE NULc

-----------------------------------------------------------------------------
\* copies(m, ps): the assignments m[p[1]] = m[p[2]], in order.
copies(m, ps) == FoldLeft(LAMBDA a, p : [a EXCEPT ![p[1]] = a[p[2]]], m, ps)
upward(d, s, n) == [k \in 1..n |-> <<d + k - 1, s + k - 1>>]
downward(d, s, n) == [k \in 1..n |-> <<d + n - k, s + n - k>>]
memmove(m, d, s, n) == copies(m, IF s < d /\ s + n > d THEN downward(d, s, n) ELSE upward(d, s, n))

\* strncpy(): t up to its NUL, then NULs.
strncpy(t, n) == [k \in 0..n-1 |-> cstr(t, k)]

\* safestrcpy(): at most n-1 characters of t, its NUL included, and a NUL after them;
\* nothing for n <= 0.
copyThenNul(m, t, c) == [k \in DOMAIN m |-> IF k < c THEN cstr(t, k) ELSE IF k = c THEN NULc ELSE m[k]]
safestrcpy(m, t, n) == IF n <= 0 THEN m ELSE copyThenNul(m, t, Min({n - 1, Len(t) + 1}))

\* strncmp(p, q, n) = 0: equal up to a NUL or n characters.
sameUpTo(p, q, n) ==
  \E j \in 0..n : /\ \A k \in 0..j-1 : p[k] = q[k] /\ p[k] # NULc
                  /\ j = n \/ (j < n /\ p[j] = NULc /\ q[j] = NULc)
namecmp(s, t) == sameUpTo(s, t, DIRSIZ)

\* skipelem(): name gets the first element, cut at DIRSIZ and ended by a NUL when shorter;
\* the result is the path after it and the slashes.
slashes(s) == CHOOSE j \in 0..Len(s) : (\A k \in 1..j : s[k] = "/") /\ (j = Len(s) \/ s[j + 1] # "/")
elemLen(s) == CHOOSE j \in 0..Len(s) : (\A k \in 1..j : s[k] # "/") /\ (j = Len(s) \/ s[j + 1] = "/")
after(s, k) == SubSeq(s, k + 1, Len(s))
\* Mutant of setName: no NUL after a short name.
setName_unended(nm, e) == [k \in 0..DIRSIZ-1 |-> IF k < Len(e) THEN e[k + 1] ELSE nm[k]]
setName(nm, e) ==
  [k \in 0..DIRSIZ-1 |-> IF k < Len(e) THEN e[k + 1] ELSE IF k = Len(e) THEN NULc ELSE nm[k]]
skipelem(s, nm) ==
  LET p == after(s, slashes(s))
      len == elemLen(p)
      e == SubSeq(p, 1, len)
      r == after(p, len)
  IN [found |-> p # <<>>, name |-> setName(nm, e), elem |-> e, rest |-> after(r, slashes(r))]

-----------------------------------------------------------------------------
NoMove == [op |-> "none", d |-> 0, s |-> 0, n |-> 0, t |-> <<>>]
StringsInit ==
  /\ path = <<>> /\ left = <<>> /\ elem = <<>> /\ passed = <<>>
  /\ name \in [0..DIRSIZ-1 -> Letters \cup {NULc}]
  /\ mem = [k \in Cells |-> Cell(k)] /\ moved = NoMove

\* The path is made up, a character at a time, before the lookup starts.
grow(c) ==
  /\ passed = <<>> /\ moved = NoMove /\ Len(path) < MaxPath
  /\ path' = Append(path, c) /\ left' = path'
  /\ UNCHANGED <<name, elem, passed, mem, moved>>

\* The loop of namex().
namex_elem ==
  LET r == skipelem(left, name) IN
  /\ r.found /\ moved = NoMove
  /\ left' = r.rest /\ name' = r.name /\ elem' = r.elem /\ passed' = Append(passed, r.elem)
  /\ UNCHANGED <<path, mem, moved>>

call_memmove(d, s, n) ==
  /\ path = <<>> /\ moved = NoMove /\ d + n <= MemSize /\ s + n <= MemSize
  /\ mem' = memmove(mem, d, s, n) /\ moved' = [NoMove EXCEPT !.op = "memmove", !.d = d, !.s = s, !.n = n]
  /\ UNCHANGED pathvars
call_safestrcpy(t, n) ==
  /\ path = <<>> /\ moved = NoMove
  /\ mem' = safestrcpy(mem, t, n) /\ moved' = [NoMove EXCEPT !.op = "safestrcpy", !.n = n, !.t = t]
  /\ UNCHANGED pathvars

Words(n) == UNION {[1..k -> Letters] : k \in 0..n}
StringsNext ==
  \/ \E c \in PathChars : grow(c)
  \/ namex_elem
  \/ \E d, s, n \in Cells : call_memmove(d, s, n)
  \/ \E n \in -1..MemSize : \E t \in Words(MemSize) : call_safestrcpy(t, n)

StringsSpec == StringsInit /\ [][StringsNext]_strvars

-----------------------------------------------------------------------------
\* The elements of a path: its longest runs of characters that are not slashes.
Elements(s) ==
  LET starts == {i \in 1..Len(s) : s[i] # "/" /\ (i = 1 \/ s[i - 1] = "/")}
      from(i) == SubSeq(s, i, i - 1 + elemLen(after(s, i - 1)))
  IN [k \in 1..Cardinality(starts) |->
        from(CHOOSE i \in starts : Cardinality({j \in starts : j <= i}) = k)]

\* namex() comes by every element of the path once, in order, however many slashes
\* are before, between and after them.
EveryElement == passed \o Elements(left) = Elements(path)

cut(e) == SubSeq(e, 1, Min({DIRSIZ, Len(e)}))

\* An entry that dirlink() made for a name is found by dirlookup() for an element exactly
\* when the two agree in their first DIRSIZ characters: with no NUL after a name of
\* DIRSIZ, and with what earlier elements left in the buffer.
EntryFound ==
  passed # <<>> =>
    \A w \in Words(DIRSIZ + 1) \ {<<>>} : namecmp(name, strncpy(w, DIRSIZ)) <=> cut(w) = cut(elem)

\* memmove() of overlapping areas, in either direction, leaves in the destination what was
\* in the source, and nothing else changes.
MoveExact ==
  moved.op = "memmove" =>
    mem = [k \in Cells |-> IF k \in moved.d..moved.d+moved.n-1 THEN Cell(moved.s + k - moved.d) ELSE Cell(k)]

\* safestrcpy() leaves a string within its n bytes, the beginning of t.
SafeEnds ==
  moved.op = "safestrcpy" =>
    /\ \A k \in Cells : k >= moved.n => mem[k] = Cell(k)
    /\ moved.n > 0 /\ moved.n <= MemSize =>
         \E j \in 0..moved.n-1 : /\ mem[j] = NULc /\ \A k \in 0..j-1 : mem[k] = cstr(moved.t, k)
                                 /\ j = moved.n - 1 \/ j = Len(moved.t)

\* The routines of string.c and skipelem() do what namex(), dirlink(), dirlookup() and exec()
\* rely on.
StringsExact == EveryElement /\ EntryFound /\ MoveExact /\ SafeEnds
=============================================================================
