-------------------------------- MODULE Fifo --------------------------------
(***************************************************************************)
(* What a pipe promises (src/pipe.c): a bounded queue of bytes.  A write   *)
(* moves bytes to its end as room comes free.  A read takes from its       *)
(* front, and returns nothing only when the queue is empty and nobody can  *)
(* write any more.                                                         *)
(***************************************************************************)
EXTENDS Integers, Sequences

CONSTANTS Readers, Writers,  \* processes that read, that write
          Bytes,
          N                  \* room for bytes

VARIABLES q,        \* the bytes written and not yet read
          wopen,    \* the write end is open
          rest,     \* what each writer has still to write
          got       \* what each reader's last read returned

vars == <<q, wopen, rest, got>>

Init == /\ q = <<>>
        /\ wopen = TRUE
        /\ rest = [p \in Writers |-> <<>>]
        /\ got = [p \in Readers |-> <<>>]

Begin(p) == /\ rest[p] = <<>>
            /\ rest'[p] \in Seq(Bytes)
            /\ rest' = [rest EXCEPT ![p] = rest'[p]]
            /\ UNCHANGED <<q, wopen, got>>

\* As much as fits; what does not fit is written later, or given up.
Put(p) == LET s == rest[p]
              k == IF Len(s) <= N - Len(q) THEN Len(s) ELSE N - Len(q) IN
          /\ wopen
          /\ q' = q \o SubSeq(s, 1, k)
          /\ \/ rest' = [rest EXCEPT ![p] = SubSeq(s, k + 1, Len(s))]
             \/ rest' = [rest EXCEPT ![p] = <<>>]
          /\ UNCHANGED <<wopen, got>>

Get(p) == /\ \E k \in 1..Len(q) : /\ got' = [got EXCEPT ![p] = SubSeq(q, 1, k)]
                                  /\ q' = SubSeq(q, k + 1, Len(q))
          /\ UNCHANGED <<wopen, rest>>

Eof(p) == /\ q = <<>> /\ ~wopen
          /\ got' = [got EXCEPT ![p] = <<>>]
          /\ UNCHANGED <<q, wopen, rest>>

CloseWrite == wopen' = FALSE /\ UNCHANGED <<q, rest, got>>

Next == \/ \E p \in Writers : Begin(p) \/ Put(p)
        \/ \E p \in Readers : Get(p) \/ Eof(p)
        \/ CloseWrite

Spec == Init /\ [][Next]_vars
=============================================================================
