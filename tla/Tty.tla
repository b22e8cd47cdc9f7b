-------------------------------- MODULE Tty --------------------------------
(***************************************************************************)
(* What the console promises its readers: a line is edited until it is     *)
(* entered, entered characters are delivered once, in order and a line at  *)
(* a time, and an end-of-file mark is a read of its own.                   *)
(***************************************************************************)
EXTENDS Integers, Sequences

CONSTANTS Readers, Chars, NL, EOF, Size

VARIABLES line,   \* typed and still editable
          ready,  \* entered and not yet read
          got     \* what each reader's current or last read has delivered

Init == line = <<>> /\ ready = <<>> /\ got = [p \in Readers |-> <<>>]

Type(c) ==
  /\ Len(ready) + Len(line) < Size
  /\ IF c \in {NL, EOF} \/ Len(ready) + Len(line) + 1 = Size
     THEN ready' = ready \o Append(line, c) /\ line' = <<>>
     ELSE line' = Append(line, c) /\ UNCHANGED ready
  /\ UNCHANGED got

Erase == \E k \in 0..Len(line) : line' = SubSeq(line, 1, k) /\ UNCHANGED <<ready, got>>

Start(p) == got' = [got EXCEPT ![p] = <<>>] /\ UNCHANGED <<line, ready>>

\* A read takes characters up to the end of a line, or an EOF by itself.
Take(p) ==
  /\ \E k \in 1..Len(ready) :
       /\ \A i \in 1..k-1 : ready[i] # NL
       /\ \/ /\ \A i \in 1..k : ready[i] # EOF
             /\ got' = [got EXCEPT ![p] = @ \o SubSeq(ready, 1, k)]
          \/ k = 1 /\ ready[1] = EOF /\ got[p] = <<>> /\ UNCHANGED got
       /\ ready' = SubSeq(ready, k + 1, Len(ready))
  /\ UNCHANGED line

Next == Erase \/ (\E c \in Chars : Type(c)) \/ \E p \in Readers : Start(p) \/ Take(p)

Spec == Init /\ [][Next]_<<line, ready, got>>
=============================================================================
