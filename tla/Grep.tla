-------------------------------- MODULE Grep --------------------------------
(***************************************************************************)
(* grep (grep.c): the pattern matcher against the meaning of patterns, and *)
(* the loop that finds lines in a buffer of GBUF characters.  A read of a  *)
(* file gives what is asked for, up to the end of the file; a read of      *)
(* standard input, a pipe or the console, gives any part of that.          *)
(***************************************************************************)
EXTENDS Integers, Sequences, SequencesExt, FiniteSetsExt

CONSTANTS
  Alphabet,  \* characters of lines
  GBUF,      \* sizeof(buf)
  MaxRe,     \* bound: length of a pattern ...
  MaxText,   \* ... and of a line that it is matched with
  GrepRes,   \* bound: patterns grep() is called with ...
  MaxFile    \* ... and length of its input

VARIABLES
  re,        \* the pattern
  gfile,     \* the line, or the input of grep()
  isFd0,     \* the input is that of fd 0
  gpos,      \* characters of it that were read
  readEnds,  \* where reads ended
  gbuf,      \* buf[0..m-1]
  printed,   \* lines written
  calling    \* match() or grep() is called

grepvars == <<re, gfile, isFd0, gpos, readEnds, gbuf, printed, calling>>

newline == "\n"
ReChars == Alphabet \cup {".", "*", "^", "$"}
from(s, k) == SubSeq(s, k, Len(s))

-----------------------------------------------------------------------------
RECURSIVE matchhere(_, _)
RECURSIVE matchstar(_, _, _)
matchhere(r, t) ==
  IF r = <<>> THEN TRUE
  ELSE IF Len(r) > 1 /\ r[2] = "*" THEN matchstar(r[1], from(r, 3), t)
  ELSE IF r = <<"$">> THEN t = <<>>
  ELSE t # <<>> /\ r[1] \in {".", t[1]} /\ matchhere(Tail(r), Tail(t))

star(c, r, t) == matchhere(r, t) \/ (t # <<>> /\ c \in {".", t[1]} /\ matchstar(c, r, Tail(t)))
matchstar(c, r, t) == star(c, r, t)

match(r, t) ==
  IF r # <<>> /\ r[1] = "^" THEN matchhere(Tail(r), t)
  ELSE \E k \in 1..Len(t)+1 : matchhere(r, from(t, k))

-----------------------------------------------------------------------------
\* One turn of grep()'s loop: a read into what is left of buf, the lines in it, and the
\* beginning of a line that is moved to the front.
LastNewline(s) == Max({0} \cup {k \in DOMAIN s : s[k] = newline})
LinesIn(s) ==
  LET nl == {k \in DOMAIN s : s[k] = newline}
      begin(k) == Max({0} \cup {j \in nl : j < k}) + 1
  IN [i \in 1..Cardinality(nl) |->
        LET k == CHOOSE k \in nl : Cardinality({j \in nl : j <= k}) = i IN SubSeq(s, begin(k), k - 1)]

\* Mutant of kept: the beginning of a line is dropped.
kept_none(s) == <<>>

\* What the loop leaves in buf: the line that has begun, or nothing when no line has ended.
kept(s) == IF LastNewline(s) = 0 THEN <<>> ELSE from(s, LastNewline(s) + 1)
grep(n) ==
  LET room == GBUF - Len(gbuf) - 1
      most == Min({room, Len(gfile) - gpos})
      s == gbuf \o SubSeq(gfile, gpos + 1, gpos + n)
  IN /\ calling = "grep" /\ n <= most /\ (~isFd0 => n = most)
     /\ gpos' = gpos + n /\ readEnds' = readEnds \cup {gpos + n} /\ gbuf' = kept(s)
     /\ printed' = printed \o SelectSeq(LinesIn(s), LAMBDA l : match(re, l))
     /\ UNCHANGED <<re, gfile, isFd0, calling>>

GrepInit ==
  /\ re = <<>> /\ gfile = <<>> /\ isFd0 = FALSE /\ calling = "none"
  /\ gpos = 0 /\ readEnds = {} /\ gbuf = <<>> /\ printed = <<>>

\* The pattern and the text are any.
callGrep ==
  /\ calling = "none"
  /\ \/ /\ calling' = "match" /\ UNCHANGED isFd0
        /\ re' \in SeqOf(ReChars, MaxRe) /\ gfile' \in SeqOf(Alphabet, MaxText)
     \/ /\ calling' = "grep" /\ isFd0' \in BOOLEAN
        /\ re' \in GrepRes /\ gfile' \in SeqOf(Alphabet \cup {newline}, MaxFile)
  /\ UNCHANGED <<gpos, readEnds, gbuf, printed>>

GrepNext == callGrep \/ \E n \in 1..GBUF-1 : grep(n)
GrepSpec == GrepInit /\ [][GrepNext]_grepvars

-----------------------------------------------------------------------------
\* The meaning of a pattern: its items are characters, . for any, each once or, before *, any
\* number of times; ^ at the beginning and $ at the end tie it to the ends of the line.
RECURSIVE Items(_)
Items(r) ==
  IF r = <<>> THEN <<>>
  ELSE IF Len(r) > 1 /\ r[2] = "*" THEN <<<<r[1], TRUE>>>> \o Items(from(r, 3))
  ELSE <<<<r[1], FALSE>>>> \o Items(Tail(r))
Matches(item, t) == (item[2] \/ Len(t) = 1) /\ \A k \in DOMAIN t : item[1] \in {".", t[k]}

\* t can be cut into one piece for each item.
RECURSIVE Cuttable(_, _)
Cuttable(items, t) ==
  IF items = <<>> THEN t = <<>>
  ELSE \E k \in 0..Len(t) : Matches(Head(items), SubSeq(t, 1, k)) /\ Cuttable(Tail(items), from(t, k + 1))
Means(r, t) ==
  LET head == r # <<>> /\ r[1] = "^"
      body == Items(IF head THEN Tail(r) ELSE r)
      tail == body # <<>> /\ Last(body) = <<"$", FALSE>>
      items == IF tail THEN Front(body) ELSE body
  IN \E i \in 0..Len(t), j \in 0..Len(t) :
       /\ i <= j /\ (head => i = 0) /\ (tail => j = Len(t))
       /\ Cuttable(items, SubSeq(t, i + 1, j))

\* match() finds a pattern in a line exactly when the line has a part the pattern means.
MatchesMeaning == calling = "match" => (match(re, gfile) <=> Means(re, gfile))

newlinesIn(a, b) == {k \in a..b : gfile[k] = newline}

\* The read that ended at x brought no newline, so that buf held none.
Fruitless(x) == newlinesIn(Max({0} \cup {y \in readEnds : y < x}) + 1, x) = {}

\* What is left of the line that ends at e: grep() forgets all it has of a line at the end
\* of a fruitless read.
Left(e) ==
  LET begin == Max({0} \cup newlinesIn(1, e - 1))
      lost == {x \in readEnds : begin < x /\ x < e /\ Fruitless(x)}
  IN SubSeq(gfile, Max({begin} \cup lost) + 1, e - 1)

\* grep() writes the lines of its input that match, all of them, once and in order; of a
\* line that fruitless reads have cut it sees, and writes, what follows the last of them.
PrintsMatches ==
  LET nl == SetToSortSeq(newlinesIn(1, gpos), <)
  IN printed = SelectSeq([i \in DOMAIN nl |-> Left(nl[i])], LAMBDA l : match(re, l))

\* No line of a file is cut when each fits into buf with its newline: wherever reads of whole
\* buffers end, every one before the end of the file brings a newline.
LinesFit == \A k \in 1..Len(gfile)-GBUF+2 : newlinesIn(k, k + GBUF - 2) # {}
FilesWhole ==
  ~isFd0 /\ LinesFit =>
    printed = SelectSeq(LinesIn(SubSeq(gfile, 1, gpos)), LAMBDA l : match(re, l))

\* match() gives patterns their meaning and grep() prints the lines that match.
GrepExact == MatchesMeaning /\ PrintsMatches /\ FilesWhole
=============================================================================
