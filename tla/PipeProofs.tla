----------------------------- MODULE PipeProofs -----------------------------
(***************************************************************************)
(* Proofs about pipes for any number of readers and writers, any size of   *)
(* the ring and any width of its counters: a pipe is a FIFO queue, kills   *)
(* included, and without kills nobody sleeps who could go on.              *)
(***************************************************************************)
EXTENDS Pipe, SequenceTheorems, TLAPS

-----------------------------------------------------------------------------
(***************************************************************************)
(* The ring of a pipe with wrapping counters: what one stretch of          *)
(* pipewrite() adds to the contents, and what one stretch of piperead()    *)
(* takes from them.                                                        *)
(***************************************************************************)
\* Arithmetic of % that the provers are given in small steps.

LEMMA DivMod ==
  ASSUME NEW P \in Nat \ {0}, NEW x \in Int
  PROVE  x \div P \in Int /\ x % P \in 0..P-1 /\ x = P * (x \div P) + (x % P)
  OBVIOUS

LEMMA ModSmall ==
  ASSUME NEW P \in Nat \ {0}, NEW x \in 0..P-1
  PROVE  x % P = x
  OBVIOUS

LEMMA ModNegative ==
  ASSUME NEW P \in Nat \ {0}, NEW x \in 1-P..-1
  PROVE  x % P = x + P
  OBVIOUS

LEMMA ModOnce ==
  ASSUME NEW P \in Nat \ {0}, NEW x \in P..2*P-1
  PROVE  x % P = x - P
  OBVIOUS

LEMMA OnlyMultiple ==
  ASSUME NEW P \in Nat \ {0}, NEW d \in Int, -P < P * d, P * d < P
  PROVE  d = 0
  OBVIOUS

\* A multiple of P makes no difference modulo P.
LEMMA ModPlus ==
  ASSUME NEW P \in Nat \ {0}, NEW x \in Int, NEW k \in Int
  PROVE  (x + P * k) % P = x % P
<1> DEFINE y == x + P * k
           q1 == x \div P
           r1 == x % P
           q2 == y \div P
           r2 == y % P
<1>1. y \in Int
  OBVIOUS
<1>2. q1 \in Int /\ r1 \in 0..P-1 /\ x = P * q1 + r1
  BY DivMod, Zenon
<1>3. q2 \in Int /\ r2 \in 0..P-1 /\ y = P * q2 + r2
  BY <1>1, DivMod, Zenon
<1>4. y = x + P * k
  BY Zenon
<1> HIDE DEF y, q1, r1, q2, r2
<1>5. P * (q1 + k - q2) = r2 - r1 /\ q1 + k - q2 \in Int
  BY <1>2, <1>3, <1>4
<1>6. q1 + k - q2 = 0
  BY <1>2, <1>3, <1>5, OnlyMultiple
<1>7. r1 = r2
  BY <1>2, <1>3, <1>5, <1>6
<1> QED BY <1>7, Zenon DEF y, r1, r2

\* The counters wrap at a multiple of the ring's size, so their slots do not jump.
LEMMA ModMod ==
  ASSUME NEW N \in Nat \ {0}, NEW P \in Nat \ {0}, N % P = 0, NEW x \in Int
  PROVE  (x % N) % P = x % P
<1> DEFINE m == N \div P
           d == x \div N
           r == x % N
<1>1. m \in Int /\ N = P * m
  BY DivMod
<1>2. d \in Int /\ r \in Int /\ x = N * d + r
  BY DivMod
<1>3. r = x % N
  BY Zenon
<1> HIDE DEF m, d, r
<1>4. x = r + P * (m * d) /\ m * d \in Int
  BY <1>1, <1>2
<1>5. (r + P * (m * d)) % P = r % P
  BY <1>2, <1>4, ModPlus, Zenon
<1> QED BY <1>3, <1>4, <1>5, Zenon

\* Two positions less than P apart are in different slots.
LEMMA ModInjective ==
  ASSUME NEW P \in Nat \ {0}, NEW x \in Int, NEW y \in Int,
         x <= y, y < x + P, x % P = y % P
  PROVE  x = y
<1> DEFINE q1 == x \div P
           q2 == y \div P
<1>1. q1 \in Int /\ x = P * q1 + (x % P) /\ x % P \in Int
  BY DivMod
<1>2. q2 \in Int /\ y = P * q2 + (x % P)
  BY DivMod, Zenon
<1> HIDE DEF q1, q2
<1>3. P * (q2 - q1) = y - x /\ q2 - q1 \in Int
  BY <1>1, <1>2
<1>4. q2 - q1 = 0
  BY <1>3, OnlyMultiple
<1> QED BY <1>3, <1>4

-----------------------------------------------------------------------------
\* The counters.

LEMMA CountValue ==
  ASSUME NEW a \in 0..UINT-1, NEW b \in 0..UINT-1
  PROVE  /\ uint(b - a) \in 0..UINT-1
         /\ b >= a => uint(b - a) = b - a
         /\ b < a => uint(b - a) = b - a + UINT
<1>1. UINT \in Nat \ {0}
  BY PipeAssumption
<1>2. CASE b >= a
  <2>1. b - a \in 0..UINT-1
    BY <1>1, <1>2
  <2> QED BY <1>1, <1>2, <2>1, ModSmall DEF uint
<1>3. CASE b < a
  <2>1. b - a \in 1-UINT..-1
    BY <1>1, <1>3
  <2> QED BY <1>1, <1>3, <2>1, ModNegative DEF uint
<1> QED BY <1>1, <1>2, <1>3

LEMMA Wrapped ==
  ASSUME NEW b \in 0..UINT-1, NEW k \in 0..PIPESIZE
  PROVE  /\ b + k < UINT => uint(b + k) = b + k
         /\ b + k >= UINT => uint(b + k) = b + k - UINT
         /\ uint(b + k) \in 0..UINT-1
<1>1. UINT \in Nat \ {0} /\ PIPESIZE \in Nat /\ PIPESIZE < UINT
  BY PipeAssumption
<1>2. CASE b + k < UINT
  <2>1. b + k \in 0..UINT-1
    BY <1>1, <1>2
  <2> QED BY <1>1, <1>2, <2>1, ModSmall DEF uint
<1>3. CASE b + k >= UINT
  <2>1. b + k \in UINT..2*UINT-1
    BY <1>1, <1>3
  <2> QED BY <1>1, <1>3, <2>1, ModOnce DEF uint
<1> QED BY <1>1, <1>2, <1>3

\* nwrite moves ahead by what is put, nread by what is taken.
LEMMA CountPut ==
  ASSUME NEW a \in 0..UINT-1, NEW b \in 0..UINT-1, NEW k \in Nat,
         uint(b - a) + k <= PIPESIZE
  PROVE  /\ uint(b + k) \in 0..UINT-1
         /\ uint(uint(b + k) - a) = uint(b - a) + k
<1>1. UINT \in Nat \ {0} /\ PIPESIZE \in Nat /\ PIPESIZE < UINT
  BY PipeAssumption
<1>2. uint(b - a) \in 0..UINT-1 /\ k \in 0..PIPESIZE
  BY <1>1, CountValue
<1> DEFINE c == uint(b + k)
<1>3. c \in 0..UINT-1 /\ (b + k < UINT => c = b + k) /\ (b + k >= UINT => c = b + k - UINT)
  BY <1>2, Wrapped, Zenon
<1> HIDE DEF c
<1> DEFINE u == uint(b - a)
           v == uint(c - a)
<1>4. (c >= a => v = c - a) /\ (c < a => v = c - a + UINT)
  BY <1>3, CountValue, Zenon
<1>5. u \in 0..UINT-1 /\ (b >= a => u = b - a) /\ (b < a => u = b - a + UINT) /\ u + k <= PIPESIZE
  BY CountValue, Zenon
<1> HIDE DEF u, v
<1>6. v = u + k
  BY <1>1, <1>2, <1>3, <1>4, <1>5
<1> QED BY <1>3, <1>6, Zenon DEF c, u, v

LEMMA CountGet ==
  ASSUME NEW a \in 0..UINT-1, NEW b \in 0..UINT-1, NEW k \in Nat,
         k <= uint(b - a), uint(b - a) <= PIPESIZE
  PROVE  /\ uint(a + k) \in 0..UINT-1
         /\ uint(b - uint(a + k)) = uint(b - a) - k
<1>1. UINT \in Nat \ {0} /\ PIPESIZE \in Nat /\ PIPESIZE < UINT
  BY PipeAssumption
<1>2. uint(b - a) \in 0..UINT-1 /\ k \in 0..PIPESIZE
  BY <1>1, CountValue
<1> DEFINE c == uint(a + k)
<1>3. c \in 0..UINT-1 /\ (a + k < UINT => c = a + k) /\ (a + k >= UINT => c = a + k - UINT)
  BY <1>2, Wrapped, Zenon
<1> HIDE DEF c
<1>4. (b >= c => uint(b - c) = b - c) /\ (b < c => uint(b - c) = b - c + UINT)
  BY <1>3, CountValue, Zenon
<1>5. (b >= a => uint(b - a) = b - a) /\ (b < a => uint(b - a) = b - a + UINT)
  BY CountValue, Zenon
<1>6. uint(b - c) = uint(b - a) - k
  BY <1>1, <1>2, <1>3, <1>4, <1>5
<1> QED BY <1>3, <1>6, Zenon DEF c

\* The slot of a position, whether or not the counter has wrapped before it.
LEMMA SlotOf ==
  ASSUME NEW x \in Int
  PROVE  uint(x) % PIPESIZE = x % PIPESIZE /\ x % PIPESIZE \in 0..PIPESIZE-1
<1>1. UINT \in Nat \ {0} /\ PIPESIZE \in Nat \ {0} /\ UINT % PIPESIZE = 0
  BY PipeAssumption
<1>2. (x % UINT) % PIPESIZE = x % PIPESIZE
  BY <1>1, ModMod, Zenon
<1>3. x % PIPESIZE \in 0..PIPESIZE-1
  BY <1>1, DivMod, Zenon
<1> QED BY <1>2, <1>3, Zenon DEF uint

LEMMA SlotAfterEnd ==
  ASSUME NEW a \in 0..UINT-1, NEW b \in 0..UINT-1, NEW m \in Int
  PROVE  uint(b + m - 1) % PIPESIZE = (a + uint(b - a) + m - 1) % PIPESIZE
<1>1. UINT \in Nat \ {0} /\ PIPESIZE \in Nat \ {0} /\ UINT % PIPESIZE = 0
  BY PipeAssumption
<1> DEFINE u == uint(b - a)
           x == b + m - 1
           y == a + u + m - 1
<1>2. x \in Int /\ x = b + m - 1
  BY <1>1
<1>3. u \in Int /\ (b >= a => u = b - a) /\ (b < a => u = b - a + UINT)
  BY <1>1, CountValue
<1>4. y = a + u + m - 1
  BY Zenon
<1> HIDE DEF u, x, y
<1>5. uint(x) % PIPESIZE = x % PIPESIZE
  BY <1>2, SlotOf, Zenon
<1>6. CASE b >= a
  <2>1. y = x
    BY <1>1, <1>2, <1>3, <1>4, <1>6
  <2> QED BY <1>5, <2>1, Zenon DEF u, x, y
<1>7. CASE b < a
  <2> DEFINE f == UINT \div PIPESIZE
  <2>1. f \in Int /\ UINT = PIPESIZE * f
    BY <1>1, DivMod
  <2> HIDE DEF f
  <2>2. y = x + UINT
    BY <1>1, <1>2, <1>3, <1>4, <1>7
  <2>3. y = x + PIPESIZE * f
    BY <2>1, <2>2, Zenon
  <2>4. y % PIPESIZE = x % PIPESIZE
    BY <1>1, <1>2, <2>1, <2>3, ModPlus, Zenon
  <2> QED BY <1>5, <2>4, Zenon DEF u, x, y
<1>8. b >= a \/ b < a
  BY <1>1
<1> QED BY <1>6, <1>7, <1>8, Zenon

-----------------------------------------------------------------------------
\* The ring.

Slot(x) == uint(x) % PIPESIZE

Ring(d, a, c) == [i \in 1..c |-> d[Slot(a + i - 1)]]

PutIn(d, b, k, s) ==
  [j \in 0..PIPESIZE-1 |->
     IF \E m \in 1..k : Slot(b + m - 1) = j
       THEN s[CHOOSE m \in 1..k : Slot(b + m - 1) = j]
       ELSE d[j]]

LEMMA RingIsSeq ==
  ASSUME NEW d \in [0..PIPESIZE-1 -> Bytes], NEW a \in 0..UINT-1, NEW c \in Nat
  PROVE  /\ Ring(d, a, c) \in Seq(Bytes) /\ Len(Ring(d, a, c)) = c
         /\ \A i \in 1..c : Ring(d, a, c)[i] = d[Slot(a + i - 1)]
<1>1. \A i \in 1..c : d[Slot(a + i - 1)] \in Bytes
  <2> SUFFICES ASSUME NEW i \in 1..c PROVE d[Slot(a + i - 1)] \in Bytes
    BY Zenon
  <2>1. a + i - 1 \in Int
    BY PipeAssumption
  <2>2. Slot(a + i - 1) \in 0..PIPESIZE-1
    BY <2>1, SlotOf, Zenon DEF Slot
  <2> QED BY <2>2, Zenon
<1>2. Ring(d, a, c) \in [1..c -> Bytes]
  BY <1>1, Zenon DEF Ring
<1>3. Ring(d, a, c) \in Seq(Bytes)
  BY <1>2, SeqDef, Zenon
<1>4. DOMAIN Ring(d, a, c) = 1..c
  BY Zenon DEF Ring
<1>5. Len(Ring(d, a, c)) = c
  BY <1>3, <1>4, LenProperties
<1> QED BY <1>3, <1>5, Zenon DEF Ring

\* Positions less than PIPESIZE apart have slots of their own.
LEMMA SlotsDiffer ==
  ASSUME NEW x \in Int, NEW y \in Int, Slot(x) = Slot(y), x <= y, y < x + PIPESIZE
  PROVE  x = y
<1>1. PIPESIZE \in Nat \ {0}
  BY PipeAssumption, Zenon
<1>2. x % PIPESIZE = y % PIPESIZE
  BY SlotOf, Zenon DEF Slot
<1> QED BY <1>1, <1>2, ModInjective, Zenon

\* c places behind a, in the ring, is b.
AtEnd(a, c, b) == \A m \in Int : Slot(b + m - 1) = Slot(a + c + m - 1)

LEMMA WriteAtEnd ==
  ASSUME NEW a \in 0..UINT-1, NEW b \in 0..UINT-1
  PROVE  AtEnd(a, uint(b - a), b)
<1> DEFINE c == uint(b - a)
<1>1. c \in Int /\ a \in Int
  <2>1. UINT \in Nat
    BY PipeAssumption, Zenon
  <2>2. c \in 0..UINT-1
    BY CountValue, Zenon
  <2> QED BY <2>1, <2>2
<1> SUFFICES ASSUME NEW m \in Int PROVE Slot(b + m - 1) = Slot(a + c + m - 1)
  BY Zenon DEF AtEnd
<1>2. Slot(b + m - 1) = (a + c + m - 1) % PIPESIZE
  BY SlotAfterEnd, Zenon DEF Slot
<1> HIDE DEF c
<1>3. a + c + m - 1 \in Int
  BY <1>1
<1>4. Slot(a + c + m - 1) = (a + c + m - 1) % PIPESIZE
  BY <1>3, SlotOf, Zenon DEF Slot
<1> QED BY <1>2, <1>4, Zenon

\* k bytes of s fit into the ring d, behind the c bytes from a on.
Fits(d, a, b, c, s, k) ==
  /\ d \in [0..PIPESIZE-1 -> Bytes] /\ a \in 0..UINT-1 /\ b \in 0..UINT-1
  /\ s \in Seq(Bytes) /\ k \in Nat /\ k <= Len(s)
  /\ c \in Nat /\ c + k <= PIPESIZE /\ AtEnd(a, c, b)

Appended(d, a, b, c, s, k) ==
  /\ PutIn(d, b, k, s) \in [0..PIPESIZE-1 -> Bytes]
  /\ Ring(PutIn(d, b, k, s), a, c + k) = Ring(d, a, c) \o SubSeq(s, 1, k)

\* Bytes copied behind the end of the contents become the end of the contents,
\* and overwrite none of them.
LEMMA RingPut ==
  ASSUME NEW d, NEW a, NEW b, NEW c, NEW s, NEW k, Fits(d, a, b, c, s, k)
  PROVE  Appended(d, a, b, c, s, k)
<1> USE DEF Fits
<1> DEFINE e == PutIn(d, b, k, s)
<1>0. e = [j \in 0..PIPESIZE-1 |->
             IF \E m \in 1..k : Slot(b + m - 1) = j
               THEN s[CHOOSE m \in 1..k : Slot(b + m - 1) = j]
               ELSE d[j]]
  BY Zenon DEF PutIn
<1> HIDE DEF e
<1>1. c \in Nat /\ c + k <= PIPESIZE /\ PIPESIZE \in Nat \ {0} /\ a \in Int /\ b \in Int
      /\ c + k \in Nat
  BY PipeAssumption
<1>2. Len(s) \in Nat /\ \A m \in 1..k : m \in 1..Len(s) /\ s[m] \in Bytes
  BY LenProperties, ElementOfSeq
<1>3. e \in [0..PIPESIZE-1 -> Bytes]
  <2> SUFFICES ASSUME NEW j \in 0..PIPESIZE-1 PROVE e[j] \in Bytes
    BY <1>0, Zenon
  <2>1. CASE \E m \in 1..k : Slot(b + m - 1) = j
    <3> DEFINE m0 == CHOOSE m \in 1..k : Slot(b + m - 1) = j
    <3>1. m0 \in 1..k
      BY <2>1, Zenon
    <3>2. e[j] = s[m0]
      BY <1>0, <2>1, Zenon
    <3> QED BY <1>2, <3>1, <3>2, Zenon
  <2>2. CASE ~ \E m \in 1..k : Slot(b + m - 1) = j
    BY <1>0, <2>2, Zenon
  <2> QED BY <2>1, <2>2, Zenon
<1>4. \A m \in Int : Slot(b + m - 1) = Slot(a + c + m - 1)
  BY Zenon DEF AtEnd
<1>5. \A i \in 1..c : e[Slot(a + i - 1)] = d[Slot(a + i - 1)]
  <2> SUFFICES ASSUME NEW i \in 1..c PROVE e[Slot(a + i - 1)] = d[Slot(a + i - 1)]
    BY Zenon
  <2>1. a + i - 1 \in Int
    BY <1>1
  <2>2. Slot(a + i - 1) \in 0..PIPESIZE-1
    BY <2>1, SlotOf, Zenon DEF Slot
  <2>3. ASSUME NEW m \in 1..k, Slot(b + m - 1) = Slot(a + i - 1) PROVE FALSE
    <3>1. m \in Int /\ a + c + m - 1 \in Int
      BY <1>1
    <3>2. Slot(a + c + m - 1) = Slot(a + i - 1)
      BY <1>4, <2>3, <3>1, Zenon
    <3>3. a + i - 1 <= a + c + m - 1 /\ a + c + m - 1 < a + i - 1 + PIPESIZE
      BY <1>1
    <3>4. a + i - 1 = a + c + m - 1
      BY <2>1, <3>1, <3>2, <3>3, SlotsDiffer, Zenon
    <3> QED BY <1>1, <3>4
  <2> QED BY <1>0, <2>2, <2>3, Zenon
<1>6. \A m \in 1..k : e[Slot(a + c + m - 1)] = s[m]
  <2> SUFFICES ASSUME NEW m \in 1..k PROVE e[Slot(a + c + m - 1)] = s[m]
    BY Zenon
  <2> DEFINE j == Slot(b + m - 1)
             m0 == CHOOSE x \in 1..k : Slot(b + x - 1) = j
  <2>1. m0 \in 1..k /\ Slot(b + m0 - 1) = j
    BY Zenon
  <2>2. b + m - 1 \in Int /\ j \in 0..PIPESIZE-1
    <3>1. b + m - 1 \in Int
      BY <1>1
    <3> QED BY <3>1, SlotOf, Zenon DEF Slot
  <2>3. e[j] = s[m0]
    BY <1>0, <2>1, <2>2, Zenon
  <2>4. j = Slot(a + c + m - 1)
    <3>1. m \in Int
      OBVIOUS
    <3> QED BY <1>4, <3>1, Zenon
  <2>5. Slot(b + m - 1) = j
    BY Zenon
  <2> HIDE DEF m0, j
  <2>6. b + m0 - 1 \in Int
    BY <1>1, <2>1
  <2>7. CASE m0 <= m
    <3>1. b + m0 - 1 <= b + m - 1 /\ b + m - 1 < b + m0 - 1 + PIPESIZE
      BY <1>1, <2>1, <2>7
    <3>2. b + m0 - 1 = b + m - 1
      BY <2>1, <2>2, <2>5, <2>6, <3>1, SlotsDiffer, Zenon
    <3> QED BY <1>1, <2>1, <2>3, <2>4, <3>2
  <2>8. CASE m0 > m
    <3>1. b + m - 1 <= b + m0 - 1 /\ b + m0 - 1 < b + m - 1 + PIPESIZE
      BY <1>1, <2>1, <2>8
    <3>2. b + m - 1 = b + m0 - 1
      BY <2>1, <2>2, <2>5, <2>6, <3>1, SlotsDiffer, Zenon
    <3>3. m = m0
      BY <1>1, <2>1, <3>2
    <3> QED BY <2>3, <2>4, <3>3, Zenon
  <2> QED BY <2>1, <2>7, <2>8
<1>7. /\ SubSeq(s, 1, k) \in Seq(Bytes) /\ Len(SubSeq(s, 1, k)) = k
      /\ \A m \in 1..k : SubSeq(s, 1, k)[m] = s[m]
  <2>1. /\ SubSeq(s, 1, k) \in Seq(Bytes)
        /\ Len(SubSeq(s, 1, k)) = IF 1 <= k THEN k - 1 + 1 ELSE 0
        /\ \A m \in 1..(k - 1 + 1) : SubSeq(s, 1, k)[m] = s[1 + m - 1]
    BY <1>2, SubSeqProperties
  <2> QED BY <2>1
<1>8. /\ Ring(d, a, c) \in Seq(Bytes) /\ Len(Ring(d, a, c)) = c
      /\ \A i \in 1..c : Ring(d, a, c)[i] = d[Slot(a + i - 1)]
  BY <1>1, RingIsSeq, Zenon
<1>9. /\ Ring(e, a, c + k) \in Seq(Bytes) /\ Len(Ring(e, a, c + k)) = c + k
      /\ \A i \in 1..(c + k) : Ring(e, a, c + k)[i] = e[Slot(a + i - 1)]
  BY <1>1, <1>3, RingIsSeq, Zenon
<1> DEFINE z == Ring(d, a, c) \o SubSeq(s, 1, k)
<1>10. /\ z \in Seq(Bytes) /\ Len(z) = c + k
       /\ \A i \in 1..(c + k) : z[i] = IF i <= c THEN Ring(d, a, c)[i] ELSE SubSeq(s, 1, k)[i - c]
  <2> DEFINE u == Ring(d, a, c)
             v == SubSeq(s, 1, k)
  <2>1. u \in Seq(Bytes) /\ v \in Seq(Bytes) /\ Len(u) = c /\ Len(v) = k
    BY <1>7, <1>8, Zenon
  <2> HIDE DEF u, v
  <2>2. /\ u \o v \in Seq(Bytes) /\ Len(u \o v) = Len(u) + Len(v)
        /\ \A i \in 1..(Len(u) + Len(v)) : (u \o v)[i] = IF i <= Len(u) THEN u[i] ELSE v[i - Len(u)]
    BY <2>1, ConcatProperties, Zenon
  <2>3. /\ u \o v \in Seq(Bytes) /\ Len(u \o v) = c + k
        /\ \A i \in 1..(c + k) : (u \o v)[i] = IF i <= c THEN u[i] ELSE v[i - c]
    BY <2>1, <2>2, Zenon
  <2> QED BY <2>3, Zenon DEF u, v
<1> HIDE DEF z
<1>11. ASSUME NEW i \in 1..(c + k) PROVE Ring(e, a, c + k)[i] = z[i]
  <2>1. CASE i <= c
    <3>1. i \in 1..c
      BY <1>1, <2>1
    <3> QED BY <1>5, <1>8, <1>9, <1>10, <2>1, <3>1, Zenon
  <2>2. CASE ~(i <= c)
    <3>1. i - c \in 1..k /\ a + i - 1 = a + c + (i - c) - 1
      BY <1>1, <2>2
    <3>2. e[Slot(a + i - 1)] = s[i - c]
      BY <1>6, <3>1, Zenon
    <3> QED BY <1>7, <1>9, <1>10, <2>2, <3>1, <3>2, Zenon
  <2> QED BY <2>1, <2>2, Zenon
<1>12. Ring(e, a, c + k) = z
  BY <1>9, <1>10, <1>11, SeqEqual, Zenon
<1> QED BY <1>3, <1>12, Zenon DEF z, e, Appended

\* Moving nread ahead takes bytes from the front.
LEMMA RingGet ==
  ASSUME NEW d \in [0..PIPESIZE-1 -> Bytes], NEW a \in 0..UINT-1, NEW c \in Nat,
         NEW k \in 0..c, c <= PIPESIZE
  PROVE  /\ Ring(d, a, k) = SubSeq(Ring(d, a, c), 1, k)
         /\ Ring(d, uint(a + k), c - k) = SubSeq(Ring(d, a, c), k + 1, c)
<1>1. k \in Nat /\ c - k \in Nat /\ k \in 0..PIPESIZE /\ UINT \in Nat /\ PIPESIZE \in Nat
  BY PipeAssumption
<1> DEFINE w == Ring(d, a, c)
           g == uint(a + k)
<1>2. g \in 0..UINT-1
  BY <1>1, Wrapped, Zenon
<1>3. w \in Seq(Bytes) /\ Len(w) = c /\ \A i \in 1..c : w[i] = d[Slot(a + i - 1)]
  BY RingIsSeq, Zenon
<1>4. \A i \in 1..(c - k) : Slot(g + i - 1) = Slot(a + k + i - 1)
  <2> SUFFICES ASSUME NEW i \in 1..(c - k) PROVE Slot(g + i - 1) = Slot(a + k + i - 1)
    BY Zenon
  <2>1. a + k + i - 1 \in Int /\ g + i - 1 \in Int
    BY <1>1, <1>2
  <2>2. /\ Slot(g + i - 1) = (g + i - 1) % PIPESIZE
        /\ Slot(a + k + i - 1) = (a + k + i - 1) % PIPESIZE
    BY <2>1, SlotOf, Zenon DEF Slot
  <2>3. (g + i - 1) % PIPESIZE = (a + k + i - 1) % PIPESIZE
    <3>1. CASE a + k < UINT
      <4>1. g = a + k
        BY <1>1, <3>1, Wrapped, Zenon
      <4> QED BY <4>1, Zenon
    <3>2. CASE a + k >= UINT
      <4> DEFINE f == UINT \div PIPESIZE
      <4>1. g = a + k - UINT
        BY <1>1, <3>2, Wrapped, Zenon
      <4>2. f \in Int /\ UINT = PIPESIZE * f /\ PIPESIZE \in Nat \ {0}
        BY DivMod, PipeAssumption
      <4> HIDE DEF g, f
      <4>3. a + k + i - 1 = (g + i - 1) + UINT
        BY <1>1, <1>2, <4>1
      <4>4. a + k + i - 1 = (g + i - 1) + PIPESIZE * f
        BY <4>2, <4>3, Zenon
      <4> QED BY <2>1, <4>2, <4>4, ModPlus, Zenon
    <3> QED BY <1>1, <3>1, <3>2
  <2> QED BY <2>2, <2>3, Zenon
<1> HIDE DEF w, g
<1>5. Ring(d, a, k) = SubSeq(w, 1, k)
  <2>1. /\ Ring(d, a, k) \in Seq(Bytes) /\ Len(Ring(d, a, k)) = k
        /\ \A i \in 1..k : Ring(d, a, k)[i] = d[Slot(a + i - 1)]
    BY <1>1, RingIsSeq, Zenon
  <2>2. \A i \in 1..k : w[i] \in Bytes
    BY <1>1, <1>3, ElementOfSeq
  <2>3. /\ SubSeq(w, 1, k) \in Seq(Bytes)
        /\ Len(SubSeq(w, 1, k)) = IF 1 <= k THEN k - 1 + 1 ELSE 0
        /\ \A i \in 1..(k - 1 + 1) : SubSeq(w, 1, k)[i] = w[1 + i - 1]
    BY <1>1, <2>2, SubSeqProperties
  <2>4. ASSUME NEW i \in 1..k PROVE Ring(d, a, k)[i] = SubSeq(w, 1, k)[i]
    <3>1. i \in 1..(k - 1 + 1) /\ 1 + i - 1 = i /\ i \in 1..c
      BY <1>1
    <3> QED BY <1>3, <2>1, <2>3, <3>1, Zenon
  <2>5. Len(SubSeq(w, 1, k)) = k
    BY <1>1, <2>3
  <2> QED BY <2>1, <2>3, <2>4, <2>5, SeqEqual, Zenon
<1>6. Ring(d, g, c - k) = SubSeq(w, k + 1, c)
  <2>1. /\ Ring(d, g, c - k) \in Seq(Bytes) /\ Len(Ring(d, g, c - k)) = c - k
        /\ \A i \in 1..(c - k) : Ring(d, g, c - k)[i] = d[Slot(g + i - 1)]
    BY <1>1, <1>2, RingIsSeq, Zenon
  <2>2. \A i \in (k + 1)..c : w[i] \in Bytes
    BY <1>1, <1>3, ElementOfSeq
  <2>3. /\ SubSeq(w, k + 1, c) \in Seq(Bytes)
        /\ Len(SubSeq(w, k + 1, c)) = IF k + 1 <= c THEN c - (k + 1) + 1 ELSE 0
        /\ \A i \in 1..(c - (k + 1) + 1) : SubSeq(w, k + 1, c)[i] = w[k + 1 + i - 1]
    BY <1>1, <2>2, SubSeqProperties, SMTT(30)
  <2>4. Len(SubSeq(w, k + 1, c)) = c - k
    BY <1>1, <2>3
  <2>5. ASSUME NEW i \in 1..(c - k) PROVE Ring(d, g, c - k)[i] = SubSeq(w, k + 1, c)[i]
    <3>1. i \in 1..(c - (k + 1) + 1) /\ k + 1 + i - 1 = k + i /\ k + i \in 1..c
          /\ a + (k + i) - 1 = a + k + i - 1
      BY <1>1
    <3>2. SubSeq(w, k + 1, c)[i] = w[k + i]
      BY <2>3, <3>1, Zenon
    <3>3. w[k + i] = d[Slot(a + k + i - 1)]
      BY <1>3, <3>1, Zenon
    <3> QED BY <1>4, <2>1, <3>2, <3>3, Zenon
  <2> QED BY <2>1, <2>3, <2>4, <2>5, SeqEqual, Zenon
<1> QED BY <1>5, <1>6, Zenon DEF w, g

-----------------------------------------------------------------------------
\* What one stretch of pipewrite() and of piperead() does to the contents.

LEMMA Types ==
  TypeOK => /\ Count \in Nat /\ Count <= PIPESIZE /\ room \in Nat
            /\ Contents = Ring(data, nread, Count)
            /\ Contents \in Seq(Bytes) /\ Len(Contents) = Count
            /\ PIPESIZE \in Nat \ {0} /\ UINT \in Nat
<1> SUFFICES ASSUME TypeOK PROVE Types!2
  BY Zenon
<1>1. PIPESIZE \in Nat \ {0} /\ UINT \in Nat
  BY PipeAssumption, Zenon
<1>2. Count \in 0..UINT-1 /\ Count <= PIPESIZE
  BY CountValue, Zenon DEF TypeOK, Count
<1>3. Count \in Nat /\ room \in Nat
  BY <1>1, <1>2 DEF room
<1>4. Contents = Ring(data, nread, Count)
  BY Zenon DEF Contents, Ring, Slot
<1> QED BY <1>1, <1>2, <1>3, <1>4, RingIsSeq, Zenon DEF TypeOK

LEMMA PutStretch ==
  ASSUME TypeOK, NEW p \in Writers, pipewrite(p), NEW s, s = rest[p],
         NEW k, k = Least(Len(s), room)
  PROVE  /\ s \in Seq(Bytes) /\ Len(s) \in Nat /\ k \in Nat /\ k <= Len(s) /\ k <= room
         /\ k < Len(s) => k = room
         /\ data' \in [0..PIPESIZE-1 -> Bytes] /\ nwrite' \in 0..UINT-1
         /\ Count' = Count + k /\ Count' <= PIPESIZE
         /\ Contents' = Contents \o SubSeq(s, 1, k)
<1>1. s \in Seq(Bytes) /\ Len(s) \in Nat
  BY LenProperties, Zenon DEF TypeOK
<1>2. room \in Nat /\ Count \in Nat /\ room = PIPESIZE - Count /\ PIPESIZE \in Nat
  BY Types, Zenon DEF room
<1>3. k \in Nat /\ k <= Len(s) /\ k <= room /\ (k < Len(s) => k = room)
  BY <1>1, <1>2 DEF Least
<1>4. Count + k <= PIPESIZE
  BY <1>2, <1>3
<1>5. data' = put(k, s) /\ nwrite' = uint(nwrite + k) /\ nread' = nread
  BY Zenon DEF pipewrite
<1>6. /\ data \in [0..PIPESIZE-1 -> Bytes] /\ nread \in 0..UINT-1 /\ nwrite \in 0..UINT-1
      /\ uint(nwrite - nread) = Count
  BY Zenon DEF TypeOK, Count
<1>7. uint(nwrite + k) \in 0..UINT-1 /\ uint(uint(nwrite + k) - nread) = Count + k
  BY <1>3, <1>4, <1>6, CountPut, Zenon
<1>8. Count' = Count + k
  BY <1>5, <1>7, Zenon DEF Count
<1>9. put(k, s) = PutIn(data, nwrite, k, s)
  BY Zenon DEF put, PutIn, Slot
<1>10. /\ put(k, s) \in [0..PIPESIZE-1 -> Bytes]
       /\ Ring(put(k, s), nread, Count + k) = Ring(data, nread, Count) \o SubSeq(s, 1, k)
  <2>1. Count \in Nat /\ k \in Nat /\ k <= Len(s)
    BY <1>2, <1>3, Zenon
  <2>2. AtEnd(nread, Count, nwrite)
    BY <1>6, WriteAtEnd, Zenon
  <2>3. /\ data \in [0..PIPESIZE-1 -> Bytes]
        /\ nread \in 0..UINT-1
        /\ nwrite \in 0..UINT-1
    BY <1>6, Zenon
  <2>4. Fits(data, nread, nwrite, Count, s, k)
    BY <1>1, <1>4, <2>1, <2>2, <2>3, Zenon DEF Fits
  <2>5. Appended(data, nread, nwrite, Count, s, k)
    BY <2>4, RingPut, Zenon
  <2> QED BY <1>9, <2>5, Zenon DEF Appended
<1>11. Contents' = Ring(data', nread', Count')
  BY Zenon DEF Contents, Ring, Slot, uint
<1>12. Contents' = Contents \o SubSeq(s, 1, k)
  BY <1>5, <1>8, <1>10, <1>11, Types, Zenon
<1> QED BY <1>1, <1>3, <1>4, <1>5, <1>7, <1>8, <1>10, <1>12, Zenon

LEMMA GetStretch ==
  ASSUME TypeOK, NEW p \in Readers, piperead(p), NEW k, k = Least(n[p], Count)
  PROVE  /\ k \in 0..Count /\ (n[p] >= 1 /\ Count >= 1 => k >= 1)
         /\ nread' \in 0..UINT-1
         /\ Count' = Count - k /\ Count' <= PIPESIZE
         /\ got' = [got EXCEPT ![p] = SubSeq(Contents, 1, k)]
         /\ got'[p] \in Seq(Bytes)
         /\ Contents' = SubSeq(Contents, k + 1, Len(Contents))
<1>1. n[p] \in Nat /\ Count \in Nat /\ Count <= PIPESIZE /\ PIPESIZE \in Nat
  BY Types DEF TypeOK
<1>2. k \in Nat /\ k <= Count /\ k \in 0..Count /\ (n[p] >= 1 /\ Count >= 1 => k >= 1)
  BY <1>1 DEF Least
<1>3. data' = data /\ nwrite' = nwrite /\ nread' = uint(nread + k)
  BY Zenon DEF piperead
<1>4. /\ data \in [0..PIPESIZE-1 -> Bytes] /\ nread \in 0..UINT-1 /\ nwrite \in 0..UINT-1
      /\ uint(nwrite - nread) = Count
  BY Zenon DEF TypeOK, Count
<1>5. uint(nread + k) \in 0..UINT-1 /\ uint(nwrite - uint(nread + k)) = Count - k
  BY <1>1, <1>2, <1>4, CountGet, Zenon
<1>6. Count' = Count - k
  BY <1>3, <1>5, Zenon DEF Count
<1>7. Contents' = Ring(data', nread', Count')
  BY Zenon DEF Contents, Ring, Slot, uint
<1>8. /\ Ring(data, nread, k) = SubSeq(Ring(data, nread, Count), 1, k)
      /\ Ring(data, uint(nread + k), Count - k) = SubSeq(Ring(data, nread, Count), k + 1, Count)
  BY <1>1, <1>2, <1>4, RingGet, ZenonT(40)
<1>9. Contents' = SubSeq(Contents, k + 1, Len(Contents))
  BY <1>3, <1>6, <1>7, <1>8, Types, Zenon
<1>10. got' = [got EXCEPT ![p] = Ring(data, nread, k)]
  BY Zenon DEF piperead, Ring, Slot
<1>11. got' = [got EXCEPT ![p] = SubSeq(Contents, 1, k)]
  BY <1>8, <1>10, Types, Zenon
<1>12. got'[p] \in Seq(Bytes)
  <2>1. got \in [Readers -> Seq(Bytes)]
    BY Zenon DEF TypeOK
  <2>2. Ring(data, nread, k) \in Seq(Bytes)
    BY <1>2, <1>4, RingIsSeq, Zenon
  <2> QED BY <1>10, <2>1, <2>2, Zenon
<1>13. Count' <= PIPESIZE
  BY <1>1, <1>2, <1>6
<1> QED BY <1>2, <1>3, <1>5, <1>6, <1>9, <1>11, <1>12, <1>13, Zenon

-----------------------------------------------------------------------------
(***************************************************************************)
(* The inductive invariant: p->lock and the processes between the test and *)
(* sleep(), who has which end, and the arguments of the calls under way.   *)
(***************************************************************************)
LockExact == \A p \in Procs : pc[p] = "sleeping" <=> lock = p

EndsExact == /\ \A p \in Procs : pc[p] # "user" => p \in open
             /\ open \cap Readers # {} => readopen
             /\ open \cap Writers # {} => writeopen
             /\ freed => open = {}

CallsExact == /\ \A p \in Readers : pc[p] # "user" => n[p] >= 1
              /\ \A p \in Writers : pc[p] = "user" => rest[p] = <<>>

PipeInv == TypeOK /\ LockExact /\ EndsExact /\ CallsExact

LEMMA InitInv == Init => PipeInv
<1> SUFFICES ASSUME Init PROVE PipeInv
  BY Zenon
<1>1. PIPESIZE \in Nat \ {0} /\ UINT \in Nat /\ UINT > PIPESIZE /\ None \notin Procs
  BY PipeAssumption, Zenon DEF Procs
<1>2. nread \in 0..UINT-1 /\ nwrite \in 0..UINT-1 /\ nwrite >= nread /\ nwrite - nread = 0
  BY <1>1 DEF Init
<1>3. Count = 0
  BY <1>2, CountValue, Zenon DEF Count
<1>4. <<>> \in Seq(Bytes)
  BY EmptySeq, Zenon
<1>5. rest \in [Writers -> Seq(Bytes)] /\ got \in [Readers -> Seq(Bytes)]
  BY <1>4, Zenon DEF Init
<1>6. TypeOK
  <2>1. /\ pc \in [Procs -> {"user", "run", "sleeping", "sleep"}]
        /\ open \subseteq Procs /\ killed \in [Procs -> BOOLEAN] /\ lock \in Procs \cup {None}
    BY Zenon DEF Init
  <2>2. readopen \in BOOLEAN /\ writeopen \in BOOLEAN /\ freed \in BOOLEAN
    BY Zenon DEF Init
  <2>3. n \in [Readers -> 0..PIPESIZE] /\ data \in [0..PIPESIZE-1 -> Bytes] /\ Count <= PIPESIZE
    BY <1>1, <1>3 DEF Init
  <2> QED BY <1>2, <1>5, <2>1, <2>2, <2>3, Zenon DEF TypeOK
<1>7. LockExact
  BY <1>1, Zenon DEF Init, LockExact
<1>8. EndsExact
  BY Zenon DEF Init, EndsExact
<1>9. CallsExact
  BY Zenon DEF Init, CallsExact, Procs
<1> QED BY <1>6, <1>7, <1>8, <1>9, Zenon DEF PipeInv

\* What stays when the ring is left alone.
LEMMA SameRing ==
  ASSUME data' = data, nread' = nread, nwrite' = nwrite
  PROVE  Count' = Count /\ room' = room /\ Contents' = Contents
  BY Zenon DEF Count, room, Contents

LEMMA Woken ==
  ASSUME NEW at \in [Procs -> {"user", "run", "sleeping", "sleep"}], NEW S
  PROVE  /\ wakeup(S, at) \in [Procs -> {"user", "run", "sleeping", "sleep"}]
         /\ \A p \in Procs : /\ wakeup(S, at)[p] = "sleeping" <=> at[p] = "sleeping"
                             /\ wakeup(S, at)[p] = "user" <=> at[p] = "user"
                             /\ wakeup(S, at)[p] = "sleep" => at[p] = "sleep"
                             /\ p \in S => wakeup(S, at)[p] # "sleep"
  BY Zenon DEF wakeup

LEMMA Moved ==
  ASSUME pc \in [Procs -> {"user", "run", "sleeping", "sleep"}], NEW p \in Procs,
         NEW to \in {"user", "run", "sleeping", "sleep"}
  PROVE  /\ [pc EXCEPT ![p] = to] \in [Procs -> {"user", "run", "sleeping", "sleep"}]
         /\ [pc EXCEPT ![p] = to][p] = to
         /\ \A r \in Procs : r # p => [pc EXCEPT ![p] = to][r] = pc[r]
  BY Zenon

-----------------------------------------------------------------------------
\* Every step preserves the invariant, one lemma for each kind of step.

PcType == {"user", "run", "sleeping", "sleep"}

LEMMA WriteStep ==
  ASSUME PipeInv, NEW p \in Writers, NEW s \in Writes, write(p, s)
  PROVE  PipeInv'
<1>1. p \in Procs /\ TypeOK /\ LockExact /\ EndsExact /\ CallsExact
  BY Zenon DEF PipeInv, Procs
<1>2. s \in Seq(Bytes)
  <2>1. PICK k \in 1..MaxWrite : s \in [1..k -> Bytes]
    BY Zenon DEF Writes
  <2>2. k \in Nat
    BY PipeAssumption
  <2> QED BY <2>1, <2>2, SeqDef, Zenon
<1>3. pc' = [pc EXCEPT ![p] = "run"] /\ pc[p] = "user" /\ p \in open
  BY Zenon DEF write
<1>4. rest' = [rest EXCEPT ![p] = s]
  BY Zenon DEF write
<1>5. data' = data /\ nread' = nread /\ nwrite' = nwrite
  BY Zenon DEF write, pipe
<1>6. readopen' = readopen /\ writeopen' = writeopen /\ freed' = freed /\ lock' = lock
  BY Zenon DEF write, pipe
<1>7. n' = n /\ got' = got /\ open' = open /\ killed' = killed
  BY Zenon DEF write
<1>8. pc' \in [Procs -> PcType] /\ rest' \in [Writers -> Seq(Bytes)]
  BY <1>1, <1>2, <1>3, <1>4, Zenon DEF TypeOK, PcType
<1>9. TypeOK'
  BY <1>1, <1>5, <1>6, <1>7, <1>8, SameRing, Zenon DEF TypeOK, PcType
<1>10. LockExact'
  BY <1>1, <1>3, <1>6, Zenon DEF TypeOK, LockExact
<1>11. EndsExact'
  BY <1>1, <1>3, <1>6, <1>7, Zenon DEF TypeOK, EndsExact
<1>12. CallsExact'
  <2>1. \A r \in Readers : r \in Procs /\ r # p
    BY PipeAssumption, Zenon DEF Procs
  <2>2. \A r \in Readers : pc'[r] = pc[r]
    BY <1>1, <1>3, <2>1, Zenon DEF TypeOK
  <2>3. \A w \in Writers : pc'[w] = "user" => w # p /\ pc[w] = "user" /\ rest'[w] = rest[w]
    BY <1>1, <1>3, <1>4, Zenon DEF TypeOK, Procs
  <2> QED BY <1>1, <1>7, <2>2, <2>3, Zenon DEF CallsExact
<1> QED BY <1>9, <1>10, <1>11, <1>12, Zenon DEF PipeInv

LEMMA ReadStep ==
  ASSUME PipeInv, NEW p \in Readers, NEW k \in 1..PIPESIZE, read(p, k)
  PROVE  PipeInv'
<1>1. p \in Procs /\ TypeOK /\ LockExact /\ EndsExact /\ CallsExact
  BY Zenon DEF PipeInv, Procs
<1>2. k \in 0..PIPESIZE /\ k >= 1
  BY PipeAssumption
<1>3. pc' = [pc EXCEPT ![p] = "run"] /\ pc[p] = "user" /\ p \in open
  BY Zenon DEF read
<1>4. n' = [n EXCEPT ![p] = k]
  BY Zenon DEF read
<1>5. data' = data /\ nread' = nread /\ nwrite' = nwrite
  BY Zenon DEF read, pipe
<1>6. readopen' = readopen /\ writeopen' = writeopen /\ freed' = freed /\ lock' = lock
  BY Zenon DEF read, pipe
<1>7. rest' = rest /\ got' = got /\ open' = open /\ killed' = killed
  BY Zenon DEF read
<1>8. pc' \in [Procs -> PcType] /\ n' \in [Readers -> 0..PIPESIZE]
  BY <1>1, <1>2, <1>3, <1>4, Zenon DEF TypeOK, PcType
<1>9. TypeOK'
  BY <1>1, <1>5, <1>6, <1>7, <1>8, SameRing, Zenon DEF TypeOK, PcType
<1>10. LockExact'
  BY <1>1, <1>3, <1>6, Zenon DEF TypeOK, LockExact
<1>11. EndsExact'
  BY <1>1, <1>3, <1>6, <1>7, Zenon DEF TypeOK, EndsExact
<1>12. CallsExact'
  <2>1. \A w \in Writers : w \in Procs /\ w # p
    BY PipeAssumption, Zenon DEF Procs
  <2>2. \A w \in Writers : pc'[w] = pc[w]
    BY <1>1, <1>3, <2>1, Zenon DEF TypeOK
  <2>3. \A r \in Readers : r # p => pc'[r] = pc[r] /\ n'[r] = n[r]
    BY <1>1, <1>3, <1>4, Zenon DEF TypeOK, Procs
  <2>4. n'[p] >= 1
    BY <1>1, <1>2, <1>4, Zenon DEF TypeOK
  <2> QED BY <1>1, <1>7, <2>2, <2>3, <2>4, Zenon DEF CallsExact
<1> QED BY <1>9, <1>10, <1>11, <1>12, Zenon DEF PipeInv

LEMMA SleepStep ==
  ASSUME PipeInv, NEW p \in Procs, sleep(p)
  PROVE  PipeInv'
<1>1. TypeOK /\ LockExact /\ EndsExact /\ CallsExact
  BY Zenon DEF PipeInv
<1>2. pc' = [pc EXCEPT ![p] = "sleep"] /\ pc[p] = "sleeping" /\ lock' = None
  BY Zenon DEF sleep
<1>3. data' = data /\ nread' = nread /\ nwrite' = nwrite
  BY Zenon DEF sleep, pipe
<1>4. readopen' = readopen /\ writeopen' = writeopen /\ freed' = freed
  BY Zenon DEF sleep, pipe
<1>5. rest' = rest /\ n' = n /\ got' = got /\ open' = open /\ killed' = killed
  BY Zenon DEF sleep
<1>6. pc' \in [Procs -> PcType]
  BY <1>1, <1>2, Zenon DEF TypeOK, PcType
<1>7. TypeOK'
  BY <1>1, <1>2, <1>3, <1>4, <1>5, <1>6, SameRing, Zenon DEF TypeOK, PcType
<1>8. \A r \in Procs : r # p => pc'[r] = pc[r] /\ pc[r] # "sleeping"
  BY <1>1, <1>2, Zenon DEF TypeOK, LockExact
<1>9. pc'[p] = "sleep"
  BY <1>1, <1>2, Zenon DEF TypeOK
<1>10. LockExact'
  BY <1>2, <1>8, <1>9, PipeAssumption, Zenon DEF LockExact, Procs
<1>11. EndsExact'
  BY <1>1, <1>2, <1>4, <1>5, <1>8, Zenon DEF EndsExact
<1>12. CallsExact'
  BY <1>1, <1>2, <1>5, <1>8, <1>9, Zenon DEF CallsExact, Procs
<1> QED BY <1>7, <1>10, <1>11, <1>12, Zenon DEF PipeInv

LEMMA KillStep ==
  ASSUME PipeInv, NEW p, kill(p)
  PROVE  PipeInv'
<1>1. TypeOK /\ LockExact /\ EndsExact /\ CallsExact
  BY Zenon DEF PipeInv
<1>2. pc' = [pc EXCEPT ![p] = IF pc[p] = "sleep" THEN "run" ELSE pc[p]]
  BY Zenon DEF kill
<1>3. killed' = [killed EXCEPT ![p] = TRUE]
  BY Zenon DEF kill
<1>4. data' = data /\ nread' = nread /\ nwrite' = nwrite
  BY Zenon DEF kill, pipe
<1>5. readopen' = readopen /\ writeopen' = writeopen /\ freed' = freed /\ lock' = lock
  BY Zenon DEF kill, pipe
<1>6. rest' = rest /\ n' = n /\ got' = got /\ open' = open
  BY Zenon DEF kill
<1>7. pc' \in [Procs -> PcType]
  BY <1>1, <1>2, Zenon DEF TypeOK, PcType
<1>8. killed' \in [Procs -> BOOLEAN]
  BY <1>1, <1>3, Zenon DEF TypeOK
<1>9. TypeOK'
  BY <1>1, <1>4, <1>5, <1>6, <1>7, <1>8, SameRing, Zenon DEF TypeOK, PcType
<1>10. \A r \in Procs : /\ pc'[r] = "sleeping" <=> pc[r] = "sleeping"
                        /\ pc'[r] = "user" <=> pc[r] = "user"
  BY <1>1, <1>2, Zenon DEF TypeOK
<1>11. LockExact'
  BY <1>1, <1>5, <1>10, Zenon DEF LockExact
<1>12. EndsExact'
  BY <1>1, <1>5, <1>6, <1>10, Zenon DEF EndsExact
<1>13. CallsExact'
  BY <1>1, <1>6, <1>10, Zenon DEF CallsExact, Procs
<1> QED BY <1>9, <1>11, <1>12, <1>13, Zenon DEF PipeInv

LEMMA PutStep ==
  ASSUME PipeInv, NEW p \in Writers, pipewrite(p)
  PROVE  PipeInv'
<1> DEFINE s == rest[p]
           k == Least(Len(s), room)
<1>1. p \in Procs /\ TypeOK /\ LockExact /\ EndsExact /\ CallsExact
  BY Zenon DEF PipeInv, Procs
<1>2. /\ s \in Seq(Bytes) /\ Len(s) \in Nat /\ k \in Nat
      /\ data' \in [0..PIPESIZE-1 -> Bytes] /\ nwrite' \in 0..UINT-1 /\ Count' <= PIPESIZE
  BY <1>1, PutStretch, Zenon
<1>3. pc[p] = "run" /\ lock = None /\ nread' = nread
  BY Zenon DEF pipewrite
<1>4. readopen' = readopen /\ writeopen' = writeopen /\ freed' = freed
  BY Zenon DEF pipewrite
<1>5. n' = n /\ got' = got /\ open' = open /\ killed' = killed
  BY Zenon DEF pipewrite
<1>6. PICK to \in {"user", "sleeping"} :
        /\ pc' = [pc EXCEPT ![p] = to] \/ pc' = wakeup(Readers, [pc EXCEPT ![p] = to])
        /\ to = "user" => rest' = [rest EXCEPT ![p] = <<>>] /\ lock' = lock
        /\ to = "sleeping" => rest' = [rest EXCEPT ![p] = SubSeq(s, k + 1, Len(s))] /\ lock' = p
  BY Zenon DEF pipewrite
<1>7. SubSeq(s, k + 1, Len(s)) \in Seq(Bytes) /\ <<>> \in Seq(Bytes)
  <2>1. \A i \in (k + 1)..Len(s) : s[i] \in Bytes
    <3>1. \A i \in (k + 1)..Len(s) : i \in 1..Len(s)
      BY <1>2
    <3> QED BY <1>2, <3>1, ElementOfSeq, Zenon
  <2>2. k + 1 \in Int /\ Len(s) \in Int
    BY <1>2
  <2> HIDE DEF s, k
  <2>3. SubSeq(s, k + 1, Len(s)) \in Seq(Bytes)
    BY <2>1, <2>2, SubSeqProperties, Zenon
  <2> QED BY <2>3, EmptySeq, Zenon
<1> HIDE DEF s, k
<1>8. rest' \in [Writers -> Seq(Bytes)] /\ lock' \in Procs \cup {None}
  BY <1>1, <1>3, <1>6, <1>7, Zenon DEF TypeOK
<1> DEFINE at == [pc EXCEPT ![p] = to]
<1>9. at \in [Procs -> PcType] /\ at[p] = to /\ \A r \in Procs : r # p => at[r] = pc[r]
  BY <1>1, <1>6, Zenon DEF TypeOK, PcType
<1> HIDE DEF at
<1>10. /\ pc' \in [Procs -> PcType]
       /\ \A r \in Procs : /\ pc'[r] = "sleeping" <=> at[r] = "sleeping"
                           /\ pc'[r] = "user" <=> at[r] = "user"
  <2>1. CASE pc' = at
    BY <1>9, <2>1, Zenon
  <2>2. CASE pc' = wakeup(Readers, at)
    BY <1>9, <2>2, Woken DEF PcType
  <2> QED BY <1>6, <2>1, <2>2, Zenon DEF at
<1>11. TypeOK'
  <2>1. /\ nread' \in 0..UINT-1 /\ readopen' \in BOOLEAN /\ writeopen' \in BOOLEAN
        /\ freed' \in BOOLEAN /\ n' \in [Readers -> 0..PIPESIZE]
    BY <1>1, <1>3, <1>4, <1>5, Zenon DEF TypeOK
  <2>2. got' \in [Readers -> Seq(Bytes)] /\ open' \subseteq Procs /\ killed' \in [Procs -> BOOLEAN]
    BY <1>1, <1>5, Zenon DEF TypeOK
  <2> QED BY <1>2, <1>8, <1>10, <2>1, <2>2, Zenon DEF TypeOK, PcType
<1>12. LockExact'
  <2>1. None \notin Procs
    BY PipeAssumption, Zenon DEF Procs
  <2>2. \A r \in Procs : pc[r] # "sleeping"
    BY <1>1, <1>3, <2>1, Zenon DEF LockExact
  <2> QED BY <1>3, <1>6, <1>9, <1>10, <2>1, <2>2, Zenon DEF LockExact
<1>13. EndsExact'
  <2>1. p \in open
    BY <1>1, <1>3, Zenon DEF EndsExact
  <2>2. \A r \in Procs : pc'[r] # "user" => r \in open
    BY <1>1, <1>9, <1>10, <2>1, Zenon DEF EndsExact
  <2> QED BY <1>1, <1>4, <1>5, <2>2, Zenon DEF EndsExact
<1>14. CallsExact'
  <2>1. \A r \in Readers : r \in Procs /\ r # p
    BY PipeAssumption, Zenon DEF Procs
  <2>2. \A r \in Readers : pc'[r] # "user" => n'[r] >= 1
    BY <1>1, <1>5, <1>9, <1>10, <2>1, Zenon DEF CallsExact
  <2>3. \A w \in Writers : w # p => rest'[w] = rest[w] /\ (pc'[w] = "user" => pc[w] = "user")
    BY <1>1, <1>6, <1>9, <1>10, Zenon DEF TypeOK, Procs
  <2>4. pc'[p] = "user" => rest'[p] = <<>>
    BY <1>1, <1>6, <1>9, <1>10, Zenon DEF TypeOK
  <2> QED BY <1>1, <2>2, <2>3, <2>4, Zenon DEF CallsExact
<1> QED BY <1>11, <1>12, <1>13, <1>14, Zenon DEF PipeInv

LEMMA WaitStep ==
  ASSUME PipeInv, NEW p \in Readers, piperead_wait(p)
  PROVE  PipeInv'
<1>1. p \in Procs /\ TypeOK /\ LockExact /\ EndsExact /\ CallsExact
  BY Zenon DEF PipeInv, Procs
<1>2. pc[p] = "run" /\ lock = None
  BY Zenon DEF piperead_wait
<1>3. data' = data /\ nread' = nread /\ nwrite' = nwrite
  BY Zenon DEF piperead_wait, pipe
<1>4. readopen' = readopen /\ writeopen' = writeopen /\ freed' = freed
  BY Zenon DEF piperead_wait, pipe
<1>5. rest' = rest /\ got' = got /\ open' = open /\ killed' = killed
  BY Zenon DEF piperead_wait
<1>6. \/ pc' = [pc EXCEPT ![p] = "user"] /\ n' = [n EXCEPT ![p] = 0] /\ lock' = lock
      \/ pc' = [pc EXCEPT ![p] = "sleeping"] /\ n' = n /\ lock' = p
  BY Zenon DEF piperead_wait
<1>7. pc' \in [Procs -> PcType] /\ n' \in [Readers -> 0..PIPESIZE] /\ lock' \in Procs \cup {None}
  <2>1. 0 \in 0..PIPESIZE
    BY PipeAssumption
  <2> QED BY <1>1, <1>2, <1>6, <2>1, Zenon DEF TypeOK, PcType
<1>8. TypeOK'
  BY <1>1, <1>3, <1>4, <1>5, <1>7, SameRing, Zenon DEF TypeOK, PcType
<1>9. \A r \in Procs : r # p => pc'[r] = pc[r]
  BY <1>1, <1>6, Zenon DEF TypeOK
<1>10. \/ pc'[p] = "user" /\ lock' = None
       \/ pc'[p] = "sleeping" /\ lock' = p
  BY <1>1, <1>2, <1>6, Zenon DEF TypeOK
<1>11. LockExact'
  <2>1. None \notin Procs
    BY PipeAssumption, Zenon DEF Procs
  <2> QED BY <1>1, <1>2, <1>9, <1>10, <2>1, Zenon DEF LockExact
<1>12. EndsExact'
  BY <1>1, <1>2, <1>4, <1>5, <1>9, Zenon DEF EndsExact
<1>13. CallsExact'
  <2>1. \A w \in Writers : w \in Procs /\ w # p
    BY PipeAssumption, Zenon DEF Procs
  <2>2. \A r \in Readers : r # p => n'[r] = n[r]
    BY <1>1, <1>6, Zenon DEF TypeOK
  <2>3. pc'[p] # "user" => n'[p] = n[p]
    BY <1>1, <1>6, Zenon DEF TypeOK
  <2>4. n[p] >= 1
    BY <1>1, <1>2, Zenon DEF CallsExact
  <2> QED BY <1>1, <1>5, <1>9, <2>1, <2>2, <2>3, <2>4, Zenon DEF CallsExact, Procs
<1> QED BY <1>8, <1>11, <1>12, <1>13, Zenon DEF PipeInv

LEMMA GetStep ==
  ASSUME PipeInv, NEW p \in Readers, piperead(p)
  PROVE  PipeInv'
<1> DEFINE k == Least(n[p], Count)
<1>1. p \in Procs /\ TypeOK /\ LockExact /\ EndsExact /\ CallsExact
  BY Zenon DEF PipeInv, Procs
<1>2. nread' \in 0..UINT-1 /\ Count' <= PIPESIZE /\ got'[p] \in Seq(Bytes)
  BY <1>1, GetStretch, Zenon
<1>3. pc[p] = "run" /\ lock = None /\ data' = data /\ nwrite' = nwrite
  BY Zenon DEF piperead
<1>4. readopen' = readopen /\ writeopen' = writeopen /\ freed' = freed /\ lock' = lock
  BY Zenon DEF piperead
<1>5. rest' = rest /\ open' = open /\ killed' = killed
  BY Zenon DEF piperead
<1>6. n' = [n EXCEPT ![p] = 0] /\ pc' = wakeup(Writers, [pc EXCEPT ![p] = "user"])
  BY Zenon DEF piperead
<1>7. got' \in [Readers -> Seq(Bytes)]
  <2>1. got' = [got EXCEPT ![p] = got'[p]]
    BY <1>1, Zenon DEF piperead, TypeOK
  <2> QED BY <1>1, <1>2, <2>1, Zenon DEF TypeOK
<1> DEFINE at == [pc EXCEPT ![p] = "user"]
<1>8. at \in [Procs -> PcType] /\ at[p] = "user" /\ \A r \in Procs : r # p => at[r] = pc[r]
  BY <1>1, Zenon DEF TypeOK, PcType
<1>9. /\ pc' \in [Procs -> PcType]
      /\ \A r \in Procs : /\ pc'[r] = "sleeping" <=> at[r] = "sleeping"
                          /\ pc'[r] = "user" <=> at[r] = "user"
  <2> HIDE DEF at
  <2>1. pc' = wakeup(Writers, at)
    BY <1>6, Zenon DEF at
  <2> QED BY <1>8, <2>1, Woken DEF PcType
<1> HIDE DEF at
<1>10. n' \in [Readers -> 0..PIPESIZE]
  <2>1. 0 \in 0..PIPESIZE
    BY PipeAssumption
  <2> QED BY <1>1, <1>6, <2>1, Zenon DEF TypeOK
<1>11. TypeOK'
  <2>1. /\ data' \in [0..PIPESIZE-1 -> Bytes] /\ nwrite' \in 0..UINT-1
        /\ readopen' \in BOOLEAN /\ writeopen' \in BOOLEAN /\ freed' \in BOOLEAN
        /\ lock' \in Procs \cup {None}
    BY <1>1, <1>3, <1>4, Zenon DEF TypeOK
  <2>2. rest' \in [Writers -> Seq(Bytes)] /\ open' \subseteq Procs /\ killed' \in [Procs -> BOOLEAN]
    BY <1>1, <1>5, Zenon DEF TypeOK
  <2> QED BY <1>2, <1>7, <1>9, <1>10, <2>1, <2>2, Zenon DEF TypeOK, PcType
<1>12. LockExact'
  <2>1. None \notin Procs
    BY PipeAssumption, Zenon DEF Procs
  <2> QED BY <1>1, <1>3, <1>4, <1>8, <1>9, <2>1, Zenon DEF LockExact
<1>13. EndsExact'
  BY <1>1, <1>4, <1>5, <1>8, <1>9, Zenon DEF EndsExact
<1>14. CallsExact'
  <2>1. \A w \in Writers : w \in Procs /\ w # p
    BY PipeAssumption, Zenon DEF Procs
  <2>2. \A r \in Readers : r # p => n'[r] = n[r]
    BY <1>1, <1>6, Zenon DEF TypeOK
  <2> QED BY <1>1, <1>5, <1>8, <1>9, <2>1, <2>2, Zenon DEF CallsExact, Procs
<1> QED BY <1>11, <1>12, <1>13, <1>14, Zenon DEF PipeInv

LEMMA CloseStep ==
  ASSUME PipeInv, NEW p \in Procs, close_end(p)
  PROVE  PipeInv'
<1>1. TypeOK /\ LockExact /\ EndsExact /\ CallsExact
  BY Zenon DEF PipeInv
<1>2. pc[p] = "user" /\ p \in open /\ lock = None /\ open' = open \ {p}
  BY Zenon DEF close_end
<1>3. data' = data /\ nread' = nread /\ nwrite' = nwrite
  BY Zenon DEF close_end
<1>4. lock' = lock /\ rest' = rest /\ n' = n /\ got' = got /\ killed' = killed
  BY Zenon DEF close_end
<1> DEFINE ro == readopen /\ open' \cap Readers # {}
           wo == writeopen /\ open' \cap Writers # {}
<1>5. \/ readopen' = ro /\ writeopen' = wo /\ freed' = (~ro /\ ~wo)
      \/ readopen' = readopen /\ writeopen' = writeopen /\ freed' = freed
  BY Zenon DEF close_end, pipeclose
<1>6. pc' = pc \/ pc' = wakeup(Readers, pc) \/ pc' = wakeup(Writers, pc)
  BY Zenon DEF close_end, pipeclose
<1>7. /\ pc' \in [Procs -> PcType]
      /\ \A r \in Procs : /\ pc'[r] = "sleeping" <=> pc[r] = "sleeping"
                          /\ pc'[r] = "user" <=> pc[r] = "user"
  <2>1. pc \in [Procs -> PcType]
    BY <1>1, Zenon DEF TypeOK, PcType
  <2>2. CASE pc' = pc
    BY <2>1, <2>2, Zenon
  <2>3. CASE pc' = wakeup(Readers, pc)
    BY <2>1, <2>3, Woken DEF PcType
  <2>4. CASE pc' = wakeup(Writers, pc)
    BY <2>1, <2>4, Woken DEF PcType
  <2> QED BY <1>6, <2>2, <2>3, <2>4, Zenon
<1>8. readopen' \in BOOLEAN /\ writeopen' \in BOOLEAN /\ freed' \in BOOLEAN
  BY <1>1, <1>5, Zenon DEF TypeOK
<1>9. TypeOK'
  <2>1. open' \subseteq Procs
    BY <1>1, <1>2, Zenon DEF TypeOK
  <2> QED BY <1>1, <1>3, <1>4, <1>7, <1>8, <2>1, SameRing, Zenon DEF TypeOK, PcType
<1>10. LockExact'
  BY <1>1, <1>4, <1>7, Zenon DEF LockExact
<1>11. EndsExact'
  <2>1. \A r \in Procs : pc'[r] # "user" => r \in open'
    BY <1>1, <1>2, <1>7, Zenon DEF EndsExact
  <2>2. open' \cap Readers # {} => open \cap Readers # {}
    BY <1>2, Zenon
  <2>3. open' \cap Writers # {} => open \cap Writers # {}
    BY <1>2, Zenon
  <2>4. open' \subseteq Readers \cup Writers
    BY <1>9, Zenon DEF TypeOK, Procs
  <2>5. open' \cap Readers # {} => readopen'
    BY <1>1, <1>5, <2>2, Zenon DEF EndsExact
  <2>6. open' \cap Writers # {} => writeopen'
    BY <1>1, <1>5, <2>3, Zenon DEF EndsExact
  <2>7. freed' => open' = {}
    <3>1. CASE freed' = freed
      BY <1>1, <1>2, <3>1, Zenon DEF EndsExact
    <3>2. CASE readopen' = ro /\ writeopen' = wo /\ freed' = (~ro /\ ~wo)
      BY <2>4, <2>5, <2>6, <3>2, Zenon
    <3> QED BY <1>5, <3>1, <3>2, Zenon
  <2> QED BY <2>1, <2>5, <2>6, <2>7, Zenon DEF EndsExact
<1>12. CallsExact'
  BY <1>1, <1>4, <1>7, Zenon DEF CallsExact, Procs
<1> QED BY <1>9, <1>10, <1>11, <1>12, Zenon DEF PipeInv

LEMMA StepInv == PipeInv /\ [Next]_vars => PipeInv'
<1> SUFFICES ASSUME PipeInv, [Next]_vars PROVE PipeInv'
  BY Zenon
<1>1. CASE UNCHANGED vars
  <2>1. UNCHANGED <<data, nread, nwrite, readopen, writeopen, freed, lock, pc, rest, n, got, open, killed>>
    BY <1>1, Zenon DEF vars, pipe
  <2>2. TypeOK' /\ LockExact' /\ EndsExact' /\ CallsExact'
    BY <2>1, Zenon DEF PipeInv, TypeOK, Count, LockExact, EndsExact, CallsExact
  <2> QED BY <2>2, Zenon DEF PipeInv
<1>2. ASSUME NEW p \in Writers, NEW s \in Writes, write(p, s) PROVE PipeInv'
  BY <1>2, WriteStep, Zenon
<1>3. ASSUME NEW p \in Writers, pipewrite(p) PROVE PipeInv'
  BY <1>3, PutStep, Zenon
<1>4. ASSUME NEW p \in Readers, NEW k \in 1..PIPESIZE, read(p, k) PROVE PipeInv'
  BY <1>4, ReadStep, Zenon
<1>5. ASSUME NEW p \in Readers, piperead_wait(p) PROVE PipeInv'
  BY <1>5, WaitStep, Zenon
<1>6. ASSUME NEW p \in Readers, piperead(p) PROVE PipeInv'
  BY <1>6, GetStep, Zenon
<1>7. ASSUME NEW p \in Procs, sleep(p) PROVE PipeInv'
  BY <1>7, SleepStep, Zenon
<1>8. ASSUME NEW p \in Procs, close_end(p) PROVE PipeInv'
  BY <1>8, CloseStep, Zenon
<1>9. ASSUME NEW p \in Killable, kill(p) PROVE PipeInv'
  BY <1>9, KillStep, Zenon
<1> QED BY <1>1, <1>2, <1>3, <1>4, <1>5, <1>6, <1>7, <1>8, <1>9, Zenon DEF Next

\* The invariant of struct pipe and of the calls on it holds in every reachable
\* state, whatever is killed.
THEOREM InvHolds == Spec => []PipeInv
  BY InitInv, StepInv, PTL DEF Spec

\* pipeclose() frees the page only when no call is under way: every call in
\* pipe.c holds an open descriptor, also when kill() interrupts it.
THEOREM NoUseAfterFree == Spec => []NotInUseWhenFreed
<1>1. PipeInv => NotInUseWhenFreed
  BY Zenon DEF PipeInv, EndsExact, NotInUseWhenFreed
<1> QED BY <1>1, InvHolds, PTL

-----------------------------------------------------------------------------
(***************************************************************************)
(* Sleeping.  pipewrite() does not wake the readers when it finds the      *)
(* writer killed, so the theorem is about writers that nobody kills.       *)
(***************************************************************************)
WritersLive == \A p \in Writers : ~killed[p]

SleepExact ==
  /\ \A p \in Readers : pc[p] \in {"sleeping", "sleep"} => nread = nwrite /\ writeopen
  /\ \A p \in Writers : pc[p] \in {"sleeping", "sleep"} => room = 0 /\ readopen

SleepInv == PipeInv /\ WritersLive /\ SleepExact

\* Steps that neither touch the ring nor the ends, nor put anybody to sleep.
LEMMA SleepStays ==
  ASSUME SleepExact, data' = data, nread' = nread, nwrite' = nwrite,
         readopen' = readopen, writeopen' = writeopen,
         \A p \in Procs : pc'[p] \in {"sleeping", "sleep"} => pc[p] \in {"sleeping", "sleep"}
  PROVE  SleepExact'
<1>1. room' = room
  BY SameRing, Zenon
<1> QED BY <1>1, Zenon DEF SleepExact, Procs

LEMMA EmptyCount ==
  TypeOK => (nread = nwrite <=> Count = 0)
<1> SUFFICES ASSUME TypeOK PROVE nread = nwrite <=> Count = 0
  BY Zenon
<1>1. nread \in 0..UINT-1 /\ nwrite \in 0..UINT-1 /\ UINT \in Nat
  BY PipeAssumption, Zenon DEF TypeOK
<1>2. /\ nwrite >= nread => uint(nwrite - nread) = nwrite - nread
      /\ nwrite < nread => uint(nwrite - nread) = nwrite - nread + UINT
  BY <1>1, CountValue, Zenon
<1> DEFINE u == uint(nwrite - nread)
<1> HIDE DEF u
<1>3. /\ nwrite >= nread => u = nwrite - nread
      /\ nwrite < nread => u = nwrite - nread + UINT
  BY <1>2, Zenon DEF u
<1>4. nread = nwrite <=> u = 0
  BY <1>1, <1>3
<1> QED BY <1>4, Zenon DEF u, Count

LEMMA SleepPut ==
  ASSUME SleepInv, NEW p \in Writers, pipewrite(p)
  PROVE  SleepExact'
<1> DEFINE s == rest[p]
           k == Least(Len(s), room)
<1>1. p \in Procs /\ TypeOK /\ LockExact /\ EndsExact /\ SleepExact /\ ~killed[p]
  BY Zenon DEF SleepInv, PipeInv, Procs, WritersLive
<1>2. /\ Len(s) \in Nat /\ k \in Nat /\ k <= Len(s) /\ k <= room /\ (k < Len(s) => k = room)
      /\ Count' = Count + k
  BY <1>1, PutStretch, Zenon
<1>3. room' = room - k /\ Count \in Nat /\ room \in Nat /\ room = PIPESIZE - Count /\ PIPESIZE \in Nat
  <2>1. Count \in Nat /\ room \in Nat /\ PIPESIZE \in Nat
    BY <1>1, Types, Zenon
  <2>2. room' = PIPESIZE - Count'
    BY Zenon DEF room
  <2>3. room = PIPESIZE - Count
    BY Zenon DEF room
  <2> HIDE DEF k, s
  <2> QED BY <1>2, <2>1, <2>2, <2>3
<1>4. readopen' = readopen /\ writeopen' = writeopen /\ nread' = nread
  BY Zenon DEF pipewrite
<1>5. \/ k = Len(s) /\ pc' = wakeup(Readers, [pc EXCEPT ![p] = "user"])
      \/ k < Len(s) /\ ~readopen /\ pc' = [pc EXCEPT ![p] = "user"]
      \/ k < Len(s) /\ readopen /\ pc' = wakeup(Readers, [pc EXCEPT ![p] = "sleeping"])
  BY <1>1, Zenon DEF pipewrite
<1>6. \A r \in Procs : pc[r] # "sleeping"
  BY <1>1, PipeAssumption, Zenon DEF pipewrite, LockExact, Procs
<1>7. \A w \in Writers : w \in Procs /\ w \notin Readers
  BY PipeAssumption, Zenon DEF Procs
<1> HIDE DEF k, s
<1>8. ASSUME NEW r \in Readers PROVE pc'[r] \notin {"sleeping", "sleep"}
  <2>1. r \in Procs /\ r # p
    BY <1>7, Zenon DEF Procs
  <2>2. CASE k = Len(s) /\ pc' = wakeup(Readers, [pc EXCEPT ![p] = "user"])
    BY <1>1, <1>6, <2>1, <2>2, Zenon DEF wakeup, TypeOK
  <2>3. CASE k < Len(s) /\ readopen /\ pc' = wakeup(Readers, [pc EXCEPT ![p] = "sleeping"])
    BY <1>1, <1>6, <2>1, <2>3, Zenon DEF wakeup, TypeOK
  <2>4. CASE ~readopen /\ pc' = [pc EXCEPT ![p] = "user"]
    <3>1. r \notin open
      BY <1>1, <2>4, Zenon DEF EndsExact
    <3>2. pc[r] = "user"
      BY <1>1, <2>1, <3>1, Zenon DEF EndsExact
    <3> QED BY <1>1, <2>1, <2>4, <3>2, Zenon DEF TypeOK
  <2> QED BY <1>5, <2>2, <2>3, <2>4, Zenon
<1>9. ASSUME NEW w \in Writers, pc'[w] \in {"sleeping", "sleep"} PROVE room' = 0 /\ readopen'
  <2>1. CASE w = p
    <3>1. k < Len(s) /\ readopen
      <4>1. CASE k = Len(s) /\ pc' = wakeup(Readers, [pc EXCEPT ![p] = "user"])
        BY <1>1, <1>7, <1>9, <2>1, <4>1, Zenon DEF wakeup, TypeOK
      <4>2. CASE pc' = [pc EXCEPT ![p] = "user"]
        BY <1>1, <1>9, <2>1, <4>2, Zenon DEF TypeOK
      <4> QED BY <1>5, <4>1, <4>2, Zenon
    <3> QED BY <1>2, <1>3, <1>4, <3>1
  <2>2. CASE w # p
    <3>1. pc[w] \in {"sleeping", "sleep"}
      BY <1>1, <1>5, <1>7, <1>9, <2>2, Zenon DEF wakeup, TypeOK
    <3>2. room = 0 /\ readopen
      BY <1>1, <3>1, Zenon DEF SleepExact
    <3> QED BY <1>2, <1>3, <1>4, <3>2
  <2> QED BY <2>1, <2>2, Zenon
<1> QED BY <1>8, <1>9, Zenon DEF SleepExact

LEMMA SleepGet ==
  ASSUME SleepInv, NEW p \in Readers, piperead(p)
  PROVE  SleepExact'
<1> DEFINE k == Least(n[p], Count)
<1>1. p \in Procs /\ TypeOK /\ LockExact /\ EndsExact /\ SleepExact
  BY Zenon DEF SleepInv, PipeInv, Procs
<1>2. readopen' = readopen /\ writeopen' = writeopen /\ lock = None
      /\ pc' = wakeup(Writers, [pc EXCEPT ![p] = "user"]) /\ ~(nread = nwrite /\ writeopen)
  BY Zenon DEF piperead
<1>3. \A r \in Procs : pc[r] # "sleeping"
  BY <1>1, <1>2, PipeAssumption, Zenon DEF LockExact, Procs
<1>4. \A w \in Writers : w \in Procs /\ w # p
  BY PipeAssumption, Zenon DEF Procs
<1>5. \A w \in Writers : pc'[w] \notin {"sleeping", "sleep"}
  BY <1>1, <1>2, <1>3, <1>4, Zenon DEF wakeup, TypeOK
<1>6. \A r \in Readers : pc[r] \notin {"sleeping", "sleep"}
  BY <1>1, <1>2, Zenon DEF SleepExact
<1>7. \A r \in Readers : pc'[r] \notin {"sleeping", "sleep"}
  BY <1>1, <1>2, <1>6, Zenon DEF wakeup, TypeOK, Procs
<1> QED BY <1>5, <1>7, Zenon DEF SleepExact

LEMMA SleepClose ==
  ASSUME SleepInv, NEW p \in Procs, close_end(p)
  PROVE  SleepExact'
<1>1. TypeOK /\ LockExact /\ EndsExact /\ SleepExact
  BY Zenon DEF SleepInv, PipeInv
<1>2. pc[p] = "user" /\ lock = None /\ open' = open \ {p} /\ p \in open
  BY Zenon DEF close_end
<1>3. data' = data /\ nread' = nread /\ nwrite' = nwrite
  BY Zenon DEF close_end
<1>4. room' = room
  BY <1>3, SameRing, Zenon
<1>5. \A r \in Procs : pc[r] # "sleeping"
  BY <1>1, <1>2, PipeAssumption, Zenon DEF LockExact, Procs
<1>6. \A r \in Procs : pc[r] # "user" => r \in open'
  BY <1>1, <1>2, Zenon DEF EndsExact
<1>7. Readers \cap Writers = {} /\ p \in Readers \cup Writers
  BY PipeAssumption, Zenon DEF Procs
<1>8. CASE open' \cap (IF p \in Readers THEN Readers ELSE Writers) # {}
  <2>1. pc' = pc /\ readopen' = readopen /\ writeopen' = writeopen
    BY <1>8, Zenon DEF close_end
  <2> QED BY <1>1, <1>3, <2>1, SleepStays, Zenon
<1>9. CASE open' \cap (IF p \in Readers THEN Readers ELSE Writers) = {}
  <2>1. /\ readopen' = (readopen /\ open' \cap Readers # {})
        /\ writeopen' = (writeopen /\ open' \cap Writers # {})
        /\ pc' = wakeup(IF p \in Writers THEN Readers ELSE Writers, pc)
    BY <1>9, Zenon DEF close_end, pipeclose
  <2>2. \A r \in Procs : pc'[r] \in {"sleeping", "sleep"} => pc[r] \in {"sleeping", "sleep"}
    BY <1>1, <2>1, Zenon DEF wakeup, TypeOK
  <2>3. CASE p \in Writers
    <3>1. pc' = wakeup(Readers, pc) /\ open' \cap Writers = {}
      BY <1>7, <1>9, <2>1, <2>3, Zenon
    <3>2. \A r \in Readers : pc'[r] \notin {"sleeping", "sleep"}
      BY <1>1, <1>5, <3>1, Zenon DEF wakeup, TypeOK, Procs
    <3>3. \A w \in Writers : pc'[w] \notin {"sleeping", "sleep"}
      BY <1>6, <2>2, <3>1, Zenon DEF Procs
    <3> QED BY <3>2, <3>3, Zenon DEF SleepExact
  <2>4. CASE p \in Readers
    <3>1. pc' = wakeup(Writers, pc) /\ open' \cap Readers = {}
      BY <1>7, <1>9, <2>1, <2>4, Zenon
    <3>2. \A w \in Writers : pc'[w] \notin {"sleeping", "sleep"}
      BY <1>1, <1>5, <3>1, Zenon DEF wakeup, TypeOK, Procs
    <3>3. \A r \in Readers : pc'[r] \notin {"sleeping", "sleep"}
      BY <1>6, <2>2, <3>1, Zenon DEF Procs
    <3> QED BY <3>2, <3>3, Zenon DEF SleepExact
  <2> QED BY <1>7, <2>3, <2>4, Zenon
<1> QED BY <1>8, <1>9, Zenon

LEMMA SleepWait ==
  ASSUME SleepInv, NEW p \in Readers, piperead_wait(p)
  PROVE  SleepExact'
<1>1. p \in Procs /\ TypeOK /\ SleepExact
  BY Zenon DEF SleepInv, PipeInv, Procs
<1>2. data' = data /\ nread' = nread /\ nwrite' = nwrite
  BY Zenon DEF piperead_wait, pipe
<1>3. readopen' = readopen /\ writeopen' = writeopen /\ nread = nwrite /\ writeopen
  BY Zenon DEF piperead_wait, pipe
<1>4. room' = room
  BY <1>2, SameRing, Zenon
<1>5. pc' = [pc EXCEPT ![p] = "user"] \/ pc' = [pc EXCEPT ![p] = "sleeping"]
  BY Zenon DEF piperead_wait
<1>6. \A w \in Writers : pc'[w] = pc[w]
  BY <1>1, <1>5, PipeAssumption DEF TypeOK, Procs
<1> QED BY <1>1, <1>2, <1>3, <1>4, <1>6, Zenon DEF SleepExact

LEMMA SleepInvStep ==
  ASSUME Killable \cap Writers = {}
  PROVE  SleepInv /\ [Next]_vars => SleepInv'
<1> SUFFICES ASSUME SleepInv, [Next]_vars PROVE SleepInv'
  BY Zenon
<1>1. PipeInv /\ TypeOK /\ WritersLive /\ SleepExact /\ PipeInv'
  BY StepInv, Zenon DEF SleepInv, PipeInv
<1>2. killed \in [Procs -> BOOLEAN] /\ pc \in [Procs -> PcType]
  BY <1>1, Zenon DEF TypeOK, PcType
<1>3. CASE UNCHANGED vars
  <2>1. UNCHANGED <<data, nread, nwrite, readopen, writeopen, pc, killed>>
    BY <1>3, Zenon DEF vars, pipe
  <2>2. WritersLive'
    BY <1>1, <2>1, Zenon DEF WritersLive
  <2> QED BY <1>1, <2>1, <2>2, SleepStays, Zenon DEF SleepInv
<1>4. ASSUME NEW p \in Writers, NEW s \in Writes, write(p, s) PROVE SleepInv'
  <2>1. UNCHANGED <<data, nread, nwrite, readopen, writeopen, killed>>
        /\ pc' = [pc EXCEPT ![p] = "run"]
    BY <1>4, Zenon DEF write, pipe
  <2>2. \A r \in Procs : pc'[r] \in {"sleeping", "sleep"} => pc[r] \in {"sleeping", "sleep"}
    BY <1>2, <2>1, Zenon
  <2>3. WritersLive'
    BY <1>1, <2>1, Zenon DEF WritersLive
  <2> QED BY <1>1, <2>1, <2>2, <2>3, SleepStays, Zenon DEF SleepInv
<1>5. ASSUME NEW p \in Writers, pipewrite(p) PROVE SleepInv'
  <2>1. WritersLive'
    BY <1>1, <1>5, Zenon DEF WritersLive, pipewrite
  <2> QED BY <1>1, <1>5, <2>1, SleepPut, Zenon DEF SleepInv
<1>6. ASSUME NEW p \in Readers, NEW k \in 1..PIPESIZE, read(p, k) PROVE SleepInv'
  <2>1. UNCHANGED <<data, nread, nwrite, readopen, writeopen, killed>>
        /\ pc' = [pc EXCEPT ![p] = "run"]
    BY <1>6, Zenon DEF read, pipe
  <2>2. \A r \in Procs : pc'[r] \in {"sleeping", "sleep"} => pc[r] \in {"sleeping", "sleep"}
    BY <1>2, <2>1, Zenon
  <2>3. WritersLive'
    BY <1>1, <2>1, Zenon DEF WritersLive
  <2> QED BY <1>1, <2>1, <2>2, <2>3, SleepStays, Zenon DEF SleepInv
<1>7. ASSUME NEW p \in Readers, piperead_wait(p) PROVE SleepInv'
  <2>1. WritersLive'
    BY <1>1, <1>7, Zenon DEF WritersLive, piperead_wait
  <2> QED BY <1>1, <1>7, <2>1, SleepWait, Zenon DEF SleepInv
<1>8. ASSUME NEW p \in Readers, piperead(p) PROVE SleepInv'
  <2>1. WritersLive'
    BY <1>1, <1>8, Zenon DEF WritersLive, piperead
  <2> QED BY <1>1, <1>8, <2>1, SleepGet, Zenon DEF SleepInv
<1>9. ASSUME NEW p \in Procs, sleep(p) PROVE SleepInv'
  <2>1. UNCHANGED <<data, nread, nwrite, readopen, writeopen, killed>>
        /\ pc' = [pc EXCEPT ![p] = "sleep"] /\ pc[p] = "sleeping"
    BY <1>9, Zenon DEF sleep, pipe
  <2>2. \A r \in Procs : pc'[r] \in {"sleeping", "sleep"} => pc[r] \in {"sleeping", "sleep"}
    BY <1>2, <2>1, Zenon
  <2>3. WritersLive'
    BY <1>1, <2>1, Zenon DEF WritersLive
  <2> QED BY <1>1, <2>1, <2>2, <2>3, SleepStays, Zenon DEF SleepInv
<1>10. ASSUME NEW p \in Procs, close_end(p) PROVE SleepInv'
  <2>1. WritersLive'
    BY <1>1, <1>10, Zenon DEF WritersLive, close_end
  <2> QED BY <1>1, <1>10, <2>1, SleepClose, Zenon DEF SleepInv
<1>11. ASSUME NEW p \in Killable, kill(p) PROVE SleepInv'
  <2>1. UNCHANGED <<data, nread, nwrite, readopen, writeopen>>
        /\ pc' = [pc EXCEPT ![p] = IF pc[p] = "sleep" THEN "run" ELSE pc[p]]
    BY <1>11, Zenon DEF kill, pipe
  <2>2. \A r \in Procs : pc'[r] \in {"sleeping", "sleep"} => pc[r] \in {"sleeping", "sleep"}
    BY <1>2, <2>1, Zenon
  <2>3. killed' = [killed EXCEPT ![p] = TRUE]
    BY <1>11, Zenon DEF kill
  <2>4. \A w \in Writers : w \in Procs /\ w # p
    BY <1>11, Zenon DEF Procs
  <2>5. \A w \in Writers : killed'[w] = killed[w]
    BY <1>2, <2>3, <2>4, Zenon
  <2>6. WritersLive'
    BY <1>1, <2>5, Zenon DEF WritersLive
  <2> QED BY <1>1, <2>1, <2>2, <2>6, SleepStays, Zenon DEF SleepInv
<1> QED BY <1>3, <1>4, <1>5, <1>6, <1>7, <1>8, <1>9, <1>10, <1>11, Zenon DEF Next

LEMMA SleepInit == Init => SleepInv
<1> SUFFICES ASSUME Init PROVE SleepInv
  BY Zenon
<1>1. WritersLive /\ SleepExact
  BY Zenon DEF Init, WritersLive, SleepExact, Procs
<1> QED BY <1>1, InitInv, Zenon DEF SleepInv

\* When no writer is killed, pipewrite(), piperead() and pipeclose() leave nobody
\* asleep who could go on, and the pipe is not used after it is freed.
THEOREM NobodySleepsInVain ==
  ASSUME Killable \cap Writers = {}
  PROVE  Spec => []PipeSafe
<1>1. SleepInv /\ [Next]_vars => SleepInv'
  BY SleepInvStep, Zenon
<1>2. SleepInv => PipeSafe
  <2> SUFFICES ASSUME SleepInv PROVE PipeSafe
    BY Zenon
  <2>1. TypeOK /\ NotInUseWhenFreed
    BY Zenon DEF SleepInv, PipeInv, EndsExact, NotInUseWhenFreed
  <2>2. ReadersSleepOnEmpty /\ WritersSleepOnFull
    BY Zenon DEF SleepInv, SleepExact, ReadersSleepOnEmpty, WritersSleepOnFull
  <2> QED BY <2>1, <2>2, Zenon DEF PipeSafe
<1> QED BY <1>1, <1>2, SleepInit, PTL DEF Spec

-----------------------------------------------------------------------------
(***************************************************************************)
(* The refinement.  Every step of the pipe is a step of the queue or       *)
(* leaves it alone.                                                        *)
(***************************************************************************)
QueueSame == Contents' = Contents /\ writeopen' = writeopen /\ rest' = rest /\ got' = got

LEMMA QueueStutters == QueueSame => UNCHANGED Queue!vars
  BY Zenon DEF QueueSame, Queue!vars

LEMMA QueueInit == Init => Queue!Init
<1> SUFFICES ASSUME Init PROVE Queue!Init
  BY Zenon
<1>1. PipeInv /\ TypeOK
  BY InitInv, Zenon DEF PipeInv
<1>2. nread = nwrite
  BY Zenon DEF Init
<1>3. Contents \in Seq(Bytes) /\ Len(Contents) = 0
  BY <1>1, <1>2, Types, EmptyCount, Zenon
<1>4. Contents = <<>>
  BY <1>3, EmptySeq, Zenon
<1> QED BY <1>4, Zenon DEF Init, Queue!Init

LEMMA QueueBegin ==
  ASSUME PipeInv, NEW p \in Writers, NEW s \in Writes, write(p, s)
  PROVE  Queue!Begin(p)
<1>1. TypeOK /\ TypeOK' /\ CallsExact
  BY WriteStep, Zenon DEF PipeInv
<1>2. rest[p] = <<>> /\ rest'[p] \in Seq(Bytes)
  BY <1>1, Zenon DEF TypeOK, CallsExact, write
<1>3. rest' = [rest EXCEPT ![p] = rest'[p]]
  BY <1>1, Zenon DEF write, TypeOK
<1>4. Contents' = Contents
  BY SameRing, Zenon DEF write, pipe
<1>5. writeopen' = writeopen /\ got' = got
  BY Zenon DEF write, pipe
<1> QED BY <1>2, <1>3, <1>4, <1>5, Zenon DEF Queue!Begin

LEMMA QueuePut ==
  ASSUME PipeInv, NEW p \in Writers, pipewrite(p)
  PROVE  Queue!Put(p)
<1> DEFINE s == rest[p]
           k == Least(Len(s), room)
           j == IF Len(s) <= PIPESIZE - Len(Contents) THEN Len(s) ELSE PIPESIZE - Len(Contents)
<1>1. TypeOK /\ EndsExact /\ p \in Procs
  BY Zenon DEF PipeInv, Procs
<1>2. /\ s \in Seq(Bytes) /\ Len(s) \in Nat /\ k \in Nat
      /\ Contents' = Contents \o SubSeq(s, 1, k)
  BY <1>1, PutStretch, Zenon
<1>3. j = k
  <2>1. Len(Contents) = Count /\ Count \in Nat /\ PIPESIZE \in Nat /\ room = PIPESIZE - Count
    BY <1>1, Types, Zenon DEF room
  <2> DEFINE l == Len(s)
             c == Len(Contents)
  <2>2. l \in Nat /\ c = Count
    BY <1>2, <2>1, Zenon
  <2>3. k = IF l < room THEN l ELSE room
    BY Zenon DEF Least
  <2>4. j = IF l <= PIPESIZE - c THEN l ELSE PIPESIZE - c
    BY Zenon
  <2> HIDE DEF l, c, j, k
  <2> QED BY <2>1, <2>2, <2>3, <2>4
<1>4. writeopen /\ writeopen' = writeopen /\ got' = got
  BY <1>1, Zenon DEF pipewrite, EndsExact
<1>5. \/ rest' = [rest EXCEPT ![p] = SubSeq(s, k + 1, Len(s))]
      \/ rest' = [rest EXCEPT ![p] = <<>>]
  BY Zenon DEF pipewrite
<1> QED BY <1>2, <1>3, <1>4, <1>5, Zenon DEF Queue!Put

LEMMA QueueGet ==
  ASSUME PipeInv, NEW p \in Readers, piperead(p)
  PROVE  Queue!Get(p) \/ Queue!Eof(p)
<1> DEFINE k == Least(n[p], Count)
<1>1. TypeOK /\ CallsExact /\ p \in Procs
  BY Zenon DEF PipeInv, Procs
<1>2. /\ k \in 0..Count /\ (n[p] >= 1 /\ Count >= 1 => k >= 1)
      /\ got' = [got EXCEPT ![p] = SubSeq(Contents, 1, k)]
      /\ Contents' = SubSeq(Contents, k + 1, Len(Contents))
  BY <1>1, GetStretch, Zenon
<1>3. Contents \in Seq(Bytes) /\ Len(Contents) = Count /\ Count \in Nat
  BY <1>1, Types, Zenon
<1>4. writeopen' = writeopen /\ rest' = rest /\ ~(nread = nwrite /\ writeopen) /\ pc[p] = "run"
  BY Zenon DEF piperead
<1>5. n[p] >= 1
  BY <1>1, <1>4, Zenon DEF CallsExact
<1> HIDE DEF k
<1>6. CASE Count = 0
  <2>1. nread = nwrite /\ ~writeopen
    BY <1>1, <1>4, <1>6, EmptyCount, Zenon
  <2>2. Contents = <<>>
    BY <1>3, <1>6, EmptySeq, Zenon
  <2>3. k = 0
    BY <1>2, <1>6
  <2>4. SubSeq(Contents, 1, k) = <<>> /\ SubSeq(Contents, k + 1, Len(Contents)) = <<>>
    BY <1>3, <1>6, <2>3, SubSeqEmpty
  <2>5. got' = [got EXCEPT ![p] = <<>>] /\ Contents' = Contents
    BY <1>2, <2>2, <2>4, Zenon
  <2> QED BY <1>4, <2>1, <2>2, <2>5, Zenon DEF Queue!Eof
<1>7. CASE Count # 0
  <2>1. k \in 1..Len(Contents)
    BY <1>2, <1>3, <1>5, <1>7
  <2> QED BY <1>2, <1>4, <2>1, Zenon DEF Queue!Get
<1> QED BY <1>6, <1>7, Zenon

LEMMA QueueClose ==
  ASSUME PipeInv, NEW p \in Procs, close_end(p)
  PROVE  Queue!CloseWrite \/ QueueSame
<1>1. TypeOK
  BY Zenon DEF PipeInv
<1>2. Contents' = Contents
  BY SameRing, Zenon DEF close_end
<1>3. rest' = rest /\ got' = got
  BY Zenon DEF close_end
<1>4. writeopen' = FALSE \/ writeopen' = writeopen
  BY <1>1, Zenon DEF close_end, pipeclose, TypeOK
<1> QED BY <1>2, <1>3, <1>4, Zenon DEF Queue!CloseWrite, QueueSame

LEMMA QueueStep == PipeInv /\ [Next]_vars => [Queue!Next]_(Queue!vars)
<1> SUFFICES ASSUME PipeInv, [Next]_vars PROVE Queue!Next \/ QueueSame
  BY QueueStutters, Zenon
<1>1. CASE UNCHANGED vars
  BY <1>1, SameRing, Zenon DEF vars, pipe, QueueSame
<1>2. ASSUME NEW p \in Writers, NEW s \in Writes, write(p, s) PROVE Queue!Next
  BY <1>2, QueueBegin, Zenon DEF Queue!Next
<1>3. ASSUME NEW p \in Writers, pipewrite(p) PROVE Queue!Next
  BY <1>3, QueuePut, Zenon DEF Queue!Next
<1>4. ASSUME NEW p \in Readers, NEW k \in 1..PIPESIZE, read(p, k) PROVE QueueSame
  BY <1>4, SameRing, Zenon DEF read, pipe, QueueSame
<1>5. ASSUME NEW p \in Readers, piperead_wait(p) PROVE QueueSame
  BY <1>5, SameRing, Zenon DEF piperead_wait, pipe, QueueSame
<1>6. ASSUME NEW p \in Readers, piperead(p) PROVE Queue!Next
  BY <1>6, QueueGet, Zenon DEF Queue!Next
<1>7. ASSUME NEW p \in Procs, sleep(p) PROVE QueueSame
  BY <1>7, SameRing, Zenon DEF sleep, pipe, QueueSame
<1>8. ASSUME NEW p \in Procs, close_end(p) PROVE Queue!Next \/ QueueSame
  BY <1>8, QueueClose, Zenon DEF Queue!Next
<1>9. ASSUME NEW p \in Killable, kill(p) PROVE QueueSame
  BY <1>9, SameRing, Zenon DEF kill, pipe, QueueSame
<1> QED BY <1>1, <1>2, <1>3, <1>4, <1>5, <1>6, <1>7, <1>8, <1>9, Zenon DEF Next

\* The ring of pipe.c with its wrapping counters implements a bounded FIFO queue,
\* for every size of the ring that divides the range of a uint and however many
\* readers and writers share it, kills included.
THEOREM PipeIsFifo == Spec => IsFifo
<1>1. Init => Queue!Init
  BY QueueInit, Zenon
<1>2. PipeInv /\ [Next]_vars => [Queue!Next]_(Queue!vars)
  BY QueueStep, Zenon
<1> QED BY <1>1, <1>2, InvHolds, PTL DEF Spec, IsFifo, Queue!Spec
=============================================================================
