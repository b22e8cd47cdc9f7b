------------------------------ MODULE Console ------------------------------
(***************************************************************************)
(* The console (src/console.c): the input ring, which consoleintr() fills  *)
(* and edits and consoleread() empties, and the cursor of the screen on    *)
(* which the input is echoed and consolewrite() prints.  One action is one *)
(* stretch of code under cons.lock.  kill() does not take that lock, so a  *)
(* stretch of consoleread() ends between the test of killed and sleep().   *)
(***************************************************************************)
EXTENDS Integers, Sequences, FiniteSetsExt

CONSTANTS Readers,
          Plain,       \* characters without a meaning of their own
          INPUT_BUF,
          CUINT,       \* number of values of a uint
          COLS, ROWS,  \* the screen scrolls when the cursor leaves row ROWS - 1
          MaxRead,     \* bound: the n of a read
          Killable,
          Nobody       \* cons.lock is free

NL == "\n"
EOF == "^D"
BACKSPACE == "^H"
Keys == Plain \cup {NL, "\r", EOF, BACKSPACE, "^U", "^P", "nul"}

ASSUME ConsoleAssumption == /\ INPUT_BUF > 0 /\ CUINT % INPUT_BUF = 0 /\ CUINT > INPUT_BUF
                            /\ COLS > 0 /\ ROWS > 0

VARIABLES buf, r, w, e,  \* input
          cursor,        \* the CRT's cursor
          holder,        \* who has cons.lock between two actions, or Nobody
          at,            \* where each reader is
          n, target,     \* of its consoleread()
          got,           \* what its current or last read has copied
          dead           \* killed

input == <<buf, r, w, e>>
convars == <<input, cursor, holder, at, n, target, got, dead>>

ConInit == /\ buf = [i \in 0..INPUT_BUF-1 |-> "nul"]
           /\ r = 0 /\ w = 0 /\ e = 0
           /\ cursor \in 0..(ROWS + 1) * COLS - 1  \* where the BIOS left it
           /\ holder = Nobody
           /\ at = [p \in Readers |-> "user"]
           /\ n = [p \in Readers |-> 0] /\ target = [p \in Readers |-> 0]
           /\ got = [p \in Readers |-> <<>>]
           /\ dead = {}
-----------------------------------------------------------------------------
\* Mutant of cu: the indices wrap one step early.
cu_early(x) == x % (CUINT - 1)

cu(x) == x % CUINT

scroll(pos) == IF pos \div COLS >= ROWS THEN pos - COLS ELSE pos

\* cgaputc(): the cursor after c.
cgaputc(pos, c) ==
  scroll(CASE c = NL -> pos + COLS - (pos % COLS)
           [] c = BACKSPACE -> IF pos > 0 THEN pos - 1 ELSE pos
           [] OTHER -> pos + 1)

\* The cursor after k calls of consputc(BACKSPACE).
erased(k) == LET back[i \in 0..k] == IF i = 0 THEN cursor ELSE cgaputc(back[i-1], BACKSPACE) IN back[k]

\* The characters that end a line, and the last place of the ring.
entered(c, e1) == c \in {NL, EOF} \/ e1 = cu(r + INPUT_BUF)

\* Mutant of conwakeup: nobody is woken.
conwakeup_lost == at

conwakeup == [p \in Readers |-> IF at[p] = "sleep" THEN "run" ELSE at[p]]

\* consoleintr(), one character: an ordinary one is stored and echoed, ...
store(k) ==
  LET c == IF k = "\r" THEN NL ELSE k IN
  /\ k \in Plain \cup {NL, "\r", EOF}
  /\ cu(e - r) < INPUT_BUF
  /\ buf' = [buf EXCEPT ![e % INPUT_BUF] = c]
  /\ e' = cu(e + 1)
  /\ cursor' = cgaputc(cursor, c)
  /\ IF entered(c, cu(e + 1)) THEN w' = cu(e + 1) /\ at' = conwakeup ELSE UNCHANGED <<w, at>>
  /\ UNCHANGED r

\* ... the last one of the line is erased, ...
erase(k) ==
  /\ k = BACKSPACE /\ e # w
  /\ e' = cu(e - 1)
  /\ cursor' = cgaputc(cursor, BACKSPACE)
  /\ UNCHANGED <<buf, r, w, at>>

\* ... or all of them.  The rest is ignored, and ^P only lists the processes.
killLine(k) ==
  LET len == Min({i \in 0..cu(e - w) : i = cu(e - w) \/ buf[cu(e - i - 1) % INPUT_BUF] = NL}) IN
  /\ k = "^U" /\ e # w
  /\ e' = cu(e - len)
  /\ cursor' = erased(len)
  /\ UNCHANGED <<buf, r, w, at>>

consoleintr(k) ==
  /\ holder = Nobody
  /\ store(k) \/ erase(k) \/ killLine(k)
  /\ UNCHANGED <<holder, n, target, got, dead>>
-----------------------------------------------------------------------------
\* read() of k bytes from the console, by a process that trap() found alive.
conread(p, k) ==
  /\ at[p] = "user" /\ p \notin dead
  /\ n' = [n EXCEPT ![p] = k] /\ target' = [target EXCEPT ![p] = k]
  /\ got' = [got EXCEPT ![p] = <<>>]
  /\ at' = [at EXCEPT ![p] = "run"]
  /\ UNCHANGED <<input, cursor, holder, dead>>

\* The characters from input.r up to input.w.
Avail == [i \in 1..cu(w - r) |-> buf[cu(r + i - 1) % INPUT_BUF]]

\* input.r--: an EOF is left for the next read if this one has copied something.
unread(p, taken) == IF n[p] - taken < target[p] THEN 0 ELSE 1

\* consoleread() copies characters until its line or its n ends, or none is left.
consoleread(p) ==
  LET ends == {i \in DOMAIN Avail : Avail[i] \in {NL, EOF}}
      last == IF ends = {} THEN Len(Avail) + 1 ELSE Min(ends)
      stop == last <= Len(Avail) /\ last <= n[p]
      eof == stop /\ Avail[last] = EOF
      taken == IF eof THEN last - 1 ELSE Min({last, n[p], Len(Avail)}) IN
  /\ at[p] = "run" /\ holder = Nobody
  /\ r' = cu(r + taken + IF eof THEN unread(p, taken) ELSE 0)
  /\ got' = [got EXCEPT ![p] = @ \o SubSeq(Avail, 1, taken)]
  /\ IF stop \/ taken = n[p] \/ p \in dead
     THEN /\ at' = [at EXCEPT ![p] = "user"]
          /\ n' = [n EXCEPT ![p] = 0] /\ target' = [target EXCEPT ![p] = 0]
          /\ UNCHANGED holder
     ELSE /\ at' = [at EXCEPT ![p] = "tested"]
          /\ n' = [n EXCEPT ![p] = @ - taken]
          /\ holder' = p /\ UNCHANGED target
  /\ UNCHANGED <<buf, w, e, cursor, dead>>

\* sleep(&input.r, &cons.lock).
consleep(p) ==
  /\ at[p] = "tested"
  /\ at' = [at EXCEPT ![p] = "sleep"]
  /\ holder' = Nobody
  /\ UNCHANGED <<input, cursor, n, target, got, dead>>

\* consolewrite() of one character.
consolewrite(c) ==
  /\ holder = Nobody
  /\ cursor' = cgaputc(cursor, c)
  /\ UNCHANGED <<input, holder, at, n, target, got, dead>>

conkill(p) ==
  /\ p \in Killable \ dead
  /\ dead' = dead \cup {p}
  /\ at' = [at EXCEPT ![p] = IF @ = "sleep" THEN "run" ELSE @]
  /\ UNCHANGED <<input, cursor, holder, n, target, got>>

ConNext == \/ \E k \in Keys : consoleintr(k)
           \/ \E p \in Readers : \/ \E k \in 1..MaxRead : conread(p, k)
                                 \/ consoleread(p) \/ consleep(p) \/ conkill(p)
           \/ \E c \in Plain \cup {NL} : consolewrite(c)

ConSpec == ConInit /\ [][ConNext]_convars
-----------------------------------------------------------------------------
\* The reader never overtakes the end of the entered input, nor that the end of
\* the edited input, and the edited input never overwrites what is still to be
\* read, while the three indices wrap.
RingOrder == cu(w - r) <= cu(e - r) /\ cu(e - r) <= INPUT_BUF

\* cgaputc() never meets its panic ("pos under/overflow") nor writes beyond the
\* screen's memory, from any cursor the BIOS may leave.
CursorOnScreen == cursor \in 0..(ROWS + 1) * COLS - 1

\* A reader sleeps only while no line is there: each entered line, and each part
\* that another reader or a saved EOF leaves behind, finds it awake.
ReadersSleepOnNoInput == \A p \in Readers : at[p] = "sleep" => r = w

\* consoleintr(), consoleread() and cgaputc() keep their indices in order and on the screen,
\* and leave no reader asleep beside a line.
InputRingSafe == RingOrder /\ CursorOnScreen /\ ReadersSleepOnNoInput

Terminal == INSTANCE Tty WITH Chars <- Plain \cup {NL, EOF}, Size <- INPUT_BUF,
              line <- [i \in 1..cu(e - w) |-> buf[cu(w + i - 1) % INPUT_BUF]], ready <- Avail

\* Characters reach the readers once, in the order typed, as edited, a line at
\* a time; "^D" is saved "to make sure caller gets a 0-byte result".
IsTty == Terminal!Spec
=============================================================================
