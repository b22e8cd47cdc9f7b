------------------------------ MODULE ShParse -------------------------------
(***************************************************************************)
(* The shell's parser (sh.c).  The state is the line typed so far; the     *)
(* properties compare what parsecmd() makes of it with the grammar.  A     *)
(* position is 1..Len(line); the NUL at the end is Len(line)+1.  A word of *)
(* the line is kept as its two pointers q and eq.                          *)
(***************************************************************************)
EXTENDS Integers, Sequences, SequencesExt

CONSTANTS
  Chars,     \* characters that are typed
  MAXARGS,
  MaxLine    \* bound: length of a line

VARIABLE line

whitespace == {" "}
symbols == {"<", "|", ">", "&", ";", "(", ")"}
NUL == "nul"
es == Len(line) + 1
char(i) == IF i < es THEN line[i] ELSE NUL

\* The first position from i on whose character is not in S.
past(i, S) == CHOOSE j \in i..es : char(j) \notin S /\ \A k \in i..j-1 : char(k) \in S

\* peek(): the character after the white space is one of toks.
peek(i, toks) == char(past(i, whitespace)) \in toks

\* gettoken(): the token, its two ends, and where the next one is.
endOf(q) ==
  CASE char(q) = NUL -> q
    [] char(q) \in symbols -> IF char(q) = ">" /\ char(q + 1) = ">" THEN q + 2 ELSE q + 1
    [] OTHER -> past(q, Chars \ (whitespace \cup symbols))
token(q, eq) ==
  [tok |-> IF char(q) = ">" /\ eq = q + 2 THEN "+"
           ELSE IF char(q) \in symbols \cup {NUL} THEN char(q) ELSE "a",
   q |-> q, eq |-> eq, next |-> past(eq, whitespace)]
gettoken(i) == LET q == past(i, whitespace) IN token(q, endOf(q))

-----------------------------------------------------------------------------
\* The constructors; a parser returns the command and the position after it.
execcmd(argv) == [type |-> "EXEC", argv |-> argv]
redircmd(sub, f) == [type |-> "REDIR", cmd |-> sub, file |-> <<f.q, f.eq>>,
                     mode |-> f.mode, fd |-> f.fd]
pipecmd(l, r) == [type |-> "PIPE", left |-> l, right |-> r]
listcmd(l, r) == [type |-> "LIST", left |-> l, right |-> r]
backcmd(sub) == [type |-> "BACK", cmd |-> sub]

Returns(cmd, i) == [ok |-> TRUE, cmd |-> cmd, i |-> i]
panic == [ok |-> FALSE, cmd |-> execcmd(<<>>), i |-> 0]

\* parseredirs(): the files of the redirections at i; the caller makes the commands of them,
\* the first innermost.  A file for >> is opened like one for >.
opened(tok, f) == [q |-> f.q, eq |-> f.eq, fd |-> IF tok = "<" THEN 0 ELSE 1,
                   mode |-> IF tok = "<" THEN {"O_RDONLY"} ELSE {"O_WRONLY", "O_CREATE"}]
RECURSIVE parseredirs(_, _)
withFile(tok, f, files) ==
  IF f.tok # "a" THEN panic ELSE parseredirs(f.next, Append(files, opened(tok, f)))
parseredirs(i, files) ==
  IF ~peek(i, {"<", ">"}) THEN Returns(files, i)
  ELSE withFile(gettoken(i).tok, gettoken(gettoken(i).next), files)
redirected(cmd, files) == FoldLeft(redircmd, cmd, files)

\* The parsers below call each other through P, which is the function parse.
redirects(sub, r) == IF r.ok THEN Returns(redirected(sub.cmd, r.cmd), r.i) ELSE panic
closed(sub) == IF ~sub.ok \/ ~peek(sub.i, {")"}) THEN panic
               ELSE redirects(sub, parseredirs(gettoken(sub.i).next, <<>>))
parseblock(P, i) == closed(P["line", gettoken(i).next])

endOfExec == {"|", ")", "&", ";"}
tooMany(argc) == argc >= MAXARGS

\* The loop of parseexec(), with argv and the redirections so far.
RECURSIVE parseargs(_, _)
withArg(argv, t, r) ==
  IF t.tok # "a" \/ tooMany(Len(argv) + 1) \/ ~r.ok THEN panic
  ELSE parseargs(Append(argv, <<t.q, t.eq>>), r)
parseargs(argv, r) ==
  IF ~r.ok THEN panic
  ELSE IF peek(r.i, endOfExec) \/ gettoken(r.i).tok = NUL
  THEN Returns(redirected(execcmd(argv), r.cmd), r.i)
  ELSE withArg(argv, gettoken(r.i), parseredirs(gettoken(r.i).next, r.cmd))
parseexec(P, i) == IF peek(i, {"("}) THEN parseblock(P, i) ELSE parseargs(<<>>, parseredirs(i, <<>>))

\* After l, a separator and another pipe or line, if the separator is there.
piped(l, r) == IF r.ok THEN Returns(pipecmd(l.cmd, r.cmd), r.i) ELSE panic
morePipe(P, l) ==
  IF ~l.ok \/ ~peek(l.i, {"|"}) THEN l ELSE piped(l, P["pipe", gettoken(l.i).next])
parsepipe(P, i) == morePipe(P, P["exec", i])

\* The loop of parseline() over &.
RECURSIVE parseback(_)
parseback(r) ==
  IF r.ok /\ peek(r.i, {"&"}) THEN parseback(Returns(backcmd(r.cmd), gettoken(r.i).next)) ELSE r
listed(l, r) == IF r.ok THEN Returns(listcmd(l.cmd, r.cmd), r.i) ELSE panic
moreLines(P, l) ==
  IF ~l.ok \/ ~peek(l.i, {";"}) THEN l ELSE listed(l, P["line", gettoken(l.i).next])
parseline(P, i) == moreLines(P, parseback(P["pipe", i]))

parse[what \in {"line", "pipe", "exec"}, i \in 1..es] ==
  CASE what = "line" -> parseline(parse, i)
    [] what = "pipe" -> parsepipe(parse, i)
    [] what = "exec" -> parseexec(parse, i)

whole(r) == IF r.ok /\ past(r.i, whitespace) = es THEN r ELSE panic
parsecmd == whole(parse["line", 1])

\* nulterminate(): the positions that become NUL.
ends(argv) == {argv[k][2] : k \in DOMAIN argv}
\* Mutant of nulterminate: it does not come to the command of a redirection.
RECURSIVE nulterminate_shallow(_)
nulterminate_shallow(cmd) ==
  CASE cmd.type = "EXEC" -> ends(cmd.argv)
    [] cmd.type = "REDIR" -> {cmd.file[2]}
    [] cmd.type = "BACK" -> nulterminate_shallow(cmd.cmd)
    [] OTHER -> nulterminate_shallow(cmd.left) \cup nulterminate_shallow(cmd.right)
RECURSIVE nulterminate(_)
nulterminate(cmd) ==
  CASE cmd.type = "EXEC" -> ends(cmd.argv)
    [] cmd.type = "REDIR" -> nulterminate(cmd.cmd) \cup {cmd.file[2]}
    [] cmd.type = "BACK" -> nulterminate(cmd.cmd)
    [] OTHER -> nulterminate(cmd.left) \cup nulterminate(cmd.right)

\* A character is typed.
gets(c) == Len(line) < MaxLine /\ line' = Append(line, c)
ShParseInit == line = <<>>
ShParseNext == \E c \in Chars : gets(c)
ShParseSpec == ShParseInit /\ [][ShParseNext]_line

-----------------------------------------------------------------------------
\* The grammar, on the tokens of the line.
RECURSIVE TokensFrom(_)
TokensFrom(i) == LET t == gettoken(i) IN IF t.tok = NUL THEN <<>> ELSE <<t>> \o TokensFrom(t.next)
Toks == LET ts == TokensFrom(1) IN [k \in DOMAIN ts |-> ts[k].tok]

RECURSIVE IsWords(_, _)
IsWords(s, n) ==
  \/ s = <<>>
  \/ s # <<>> /\ s[1] = "a" /\ n > 1 /\ IsWords(Tail(s), n - 1)
  \/ Len(s) > 1 /\ s[1] \in {"<", ">", "+"} /\ s[2] = "a" /\ IsWords(SubSeq(s, 3, Len(s)), n)
IsRedirs(s) == IsWords(s, 1)

Splits(s) == {<<SubSeq(s, 1, k), SubSeq(s, k + 1, Len(s))>> : k \in 0..Len(s)}
IsExec(D, s) ==
  \/ IsWords(s, MAXARGS)
  \/ \E x \in Splits(s) : /\ Len(x[1]) > 1 /\ x[1][1] = "(" /\ Last(x[1]) = ")"
                          /\ D["line", SubSeq(x[1], 2, Len(x[1]) - 1)] /\ IsRedirs(x[2])
IsPipe(D, s) ==
  \/ IsExec(D, s)
  \/ \E k \in DOMAIN s :
       s[k] = "|" /\ IsExec(D, SubSeq(s, 1, k - 1)) /\ D["pipe", SubSeq(s, k + 1, Len(s))]
IsLine(D, s) ==
  \E x \in Splits(s) :
    /\ D["pipe", x[1]]
    /\ \E j \in 0..Len(x[2]) :
         /\ \A k \in 1..j : x[2][k] = "&"
         /\ j < Len(x[2]) => x[2][j + 1] = ";" /\ D["line", SubSeq(x[2], j + 2, Len(x[2]))]

\* Derives[what, s]: the tokens s are a line, a pipe.
Derives[what \in {"line", "pipe"}, s \in Seq(STRING)] ==
  IF what = "line" THEN IsLine(Derives, s) ELSE IsPipe(Derives, s)

\* parsecmd() accepts the lines of this grammar -- a line is pipes of commands or blocks, put
\* in the background or in a list -- with fewer than MAXARGS words to a command,
\* and panics on every other.
AcceptsGrammar(r) == r.ok <=> Derives["line", Toks]

RECURSIVE WordsOf(_)
WordsOf(cmd) ==
  CASE cmd.type = "EXEC" -> Range(cmd.argv)
    [] cmd.type = "REDIR" -> WordsOf(cmd.cmd) \cup {cmd.file}
    [] cmd.type = "BACK" -> WordsOf(cmd.cmd)
    [] OTHER -> WordsOf(cmd.left) \cup WordsOf(cmd.right)

\* Every word of an accepted line is an argument or a file of the command, and the
\* NULs that nulterminate() writes end it and cut no other word.
WordsTerminated(r) ==
  LET words == WordsOf(r.cmd)
      nuls == nulterminate(r.cmd) \cup {es}
  IN r.ok =>
    /\ words = {<<t.q, t.eq>> : t \in {u \in Range(TokensFrom(1)) : u.tok = "a"}}
    /\ \A w \in words : w[2] \in nuls /\ nuls \cap (w[1]..w[2]-1) = {}

RECURSIVE RedirsOf(_)
RedirsOf(cmd) ==
  CASE cmd.type = "EXEC" -> {}
    [] cmd.type = "REDIR" -> RedirsOf(cmd.cmd) \cup {<<cmd.file, cmd.fd, cmd.mode>>}
    [] cmd.type = "BACK" -> RedirsOf(cmd.cmd)
    [] OTHER -> RedirsOf(cmd.left) \cup RedirsOf(cmd.right)

\* Every < of an accepted line opens the word after it for reading as standard input, every
\* > and >> opens or creates it for writing as standard output, and nothing else is opened.
RedirsExact(r) ==
  LET ts == TokensFrom(1)
      file(k) == <<ts[k + 1].q, ts[k + 1].eq>>
  IN r.ok =>
    RedirsOf(r.cmd) =
      {<<file(k), 0, {"O_RDONLY"}>> : k \in {j \in DOMAIN ts : ts[j].tok = "<"}}
      \cup {<<file(k), 1, {"O_WRONLY", "O_CREATE"}>> : k \in {j \in DOMAIN ts : ts[j].tok \in {">", "+"}}}

\* parsecmd() takes the lines of the grammar, no other, and loses no word and no redirection
\* of them.
ParsesLines == LET r == parsecmd IN AcceptsGrammar(r) /\ WordsTerminated(r) /\ RedirsExact(r)
=============================================================================
