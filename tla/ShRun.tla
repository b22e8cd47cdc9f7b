------------------------------- MODULE ShRun --------------------------------
(***************************************************************************)
(* How the shell runs a command (sh.c: main, runcmd, fork1): which         *)
(* processes it makes, the file descriptors each of them has, and who      *)
(* waits for whom.  runcmd() is the sequence of system calls it makes; the *)
(* calls themselves (external here) do what Files and Proc show of them:   *)
(* descriptors are the lowest free ones, fork() copies them and fails when *)
(* no slot is free, exit() hands children to init, wait() reaps any one    *)
(* child.  A program reads its standard input to the end, which for a pipe *)
(* comes when nobody has its write end, and exits.                         *)
(***************************************************************************)
EXTENDS Integers, FiniteSets, Sequences

CONSTANTS
  ShProcs,   \* slots of the process table
  shell,
  Lines,     \* commands that may be typed
  NFD,       \* NOFILE
  Nothing

VARIABLES
  sproc,     \* the processes
  npipe      \* pipes made so far

shvars == <<sproc, npipe>>

Fds == 0..NFD-1
NoProc == [state |-> "UNUSED", prog |-> <<>>, fd |-> [f \in Fds |-> Nothing], p |-> <<0, 0>>,
           parent |-> Nothing, name |-> Nothing, cwd |-> Nothing]
tty == <<"tty">>

-----------------------------------------------------------------------------
\* The calls that runcmd(cmd) makes, in order.
exits == <<<<"exit">>>>

pipeRight(cmd) ==
  <<<<"close", 0>>, <<"dupp", 1>>, <<"closep", 1>>, <<"closep", 2>>, <<"run", cmd.right>>>>
pipeLeft(cmd) ==
  <<<<"close", 1>>, <<"dupp", 2>>, <<"closep", 1>>, <<"closep", 2>>, <<"run", cmd.left>>>>

\* Mutant of pipeParent: the write end stays open.
pipeParent_open == <<<<"closep", 1>>, <<"wait">>, <<"wait">>>>
pipeParent == <<<<"closep", 1>>, <<"closep", 2>>, <<"wait">>, <<"wait">>>>

\* Mutant of list: no wait() for the left side.
list_nowait(cmd) == <<<<"fork", <<<<"run", cmd.left>>>>>>, <<"run", cmd.right>>>>
list(cmd) == <<<<"fork", <<<<"run", cmd.left>>>>>>, <<"wait">>, <<"run", cmd.right>>>>

runcmd(cmd) ==
  (CASE cmd.type = "EXEC" -> <<<<"exec", cmd.name>>>>
     [] cmd.type = "REDIR" -> <<<<"close", cmd.fd>>, <<"open">>, <<"run", cmd.cmd>>>>
     [] cmd.type = "LIST" -> list(cmd)
     [] cmd.type = "PIPE" ->
          <<<<"pipe">>, <<"fork", pipeLeft(cmd)>>, <<"fork", pipeRight(cmd)>>>> \o pipeParent
     [] cmd.type = "BACK" -> <<<<"fork", <<<<"run", cmd.cmd>>>>>>>>)
  \o exits

\* main(): for a line that is typed; cd is done by the shell itself.
main(cmd) == IF cmd.type = "CD" THEN <<<<"chdir", cmd.dir>>>>
             ELSE <<<<"fork", <<<<"run", cmd>>>>>>, <<"wait">>>>

ShRunInit ==
  /\ sproc = [q \in ShProcs |-> IF q = shell
                THEN [NoProc EXCEPT !.state = "RUN", !.cwd = "/", !.fd = [f \in Fds |-> IF f < 3 THEN tty ELSE Nothing]]
                ELSE NoProc]
  /\ npipe = 0

-----------------------------------------------------------------------------
lowest(fd) == {f \in Fds : fd[f] = Nothing /\ \A g \in Fds : g < f => fd[g] # Nothing}
zombies(q) == {r \in ShProcs : sproc[r].parent = q /\ sproc[r].state = "ZOMBIE"}
children(q) == {r \in ShProcs : sproc[r].parent = q}

\* exit(): the descriptors are closed, children go to init, which reaps those that are done;
\* the parent, unless it is init, finds a zombie.
exited(q) ==
  [r \in ShProcs |->
     IF r = q THEN (IF sproc[q].parent = Nothing THEN NoProc
                    ELSE [NoProc EXCEPT !.state = "ZOMBIE", !.parent = sproc[q].parent])
     ELSE IF sproc[r].parent = q THEN (IF sproc[r].state = "ZOMBIE" THEN NoProc
                                       ELSE [sproc[r] EXCEPT !.parent = Nothing])
     ELSE sproc[r]]

\* The next call of process q.
syscall(q) ==
  LET P == sproc[q]
      c == Head(P.prog)
      next == [P EXCEPT !.prog = Tail(@)]
      become(r) == sproc' = [sproc EXCEPT ![q] = r]
  IN /\ P.state = "RUN" /\ P.prog # <<>>
     /\ npipe' = (IF c[1] = "pipe" THEN npipe + 1 ELSE npipe)
     /\ CASE c[1] = "run" -> become([next EXCEPT !.prog = runcmd(c[2])])
          [] c[1] = "exec" -> become([next EXCEPT !.state = "EXEC", !.name = c[2], !.prog = <<>>])
          [] c[1] = "chdir" -> become([next EXCEPT !.cwd = c[2]]) \/ become(next)
          [] c[1] = "close" -> become([next EXCEPT !.fd[c[2]] = Nothing])
          [] c[1] = "closep" -> become([next EXCEPT !.fd[P.p[c[2]]] = Nothing])
          [] c[1] = "dupp" -> \E f \in lowest(P.fd) : become([next EXCEPT !.fd[f] = P.fd[P.p[c[2]]]])
          [] c[1] = "open" -> \E f \in lowest(P.fd) : become([next EXCEPT !.fd[f] = <<"file">>])
          [] c[1] = "pipe" ->
               \E f \in lowest(P.fd) :
                 LET fd1 == [P.fd EXCEPT ![f] = <<"r", npipe>>] IN
                 \E g \in lowest(fd1) :
                   become([next EXCEPT !.fd = [fd1 EXCEPT ![g] = <<"w", npipe>>], !.p = <<f, g>>])
          [] c[1] = "fork" ->
               IF \E r \in ShProcs : sproc[r].state = "UNUSED"
               THEN LET r == CHOOSE r \in ShProcs : sproc[r].state = "UNUSED" IN
                    sproc' = [sproc EXCEPT ![q] = next,
                                           ![r] = [P EXCEPT !.prog = c[2], !.parent = q]]
               ELSE become([next EXCEPT !.prog = exits])
          [] c[1] = "wait" ->
               IF children(q) = {} THEN become(next)
               ELSE \E r \in zombies(q) : sproc' = [sproc EXCEPT ![q] = next, ![r] = NoProc]
          [] c[1] = "exit" -> sproc' = exited(q)

\* open(), exec() or pipe() fails: runcmd() prints why and exits.
call_fails(q) ==
  /\ sproc[q].state = "RUN" /\ sproc[q].prog # <<>>
  /\ Head(sproc[q].prog)[1] \in {"open", "exec", "pipe"}
  /\ sproc' = [sproc EXCEPT ![q].prog = exits]
  /\ UNCHANGED npipe

\* A program has read its input and exits.
writers(k) == {q \in ShProcs : \E f \in Fds : sproc[q].fd[f] = <<"w", k>>}
eof(fd0) == \A k \in 0..npipe-1 : fd0 = <<"r", k>> => writers(k) = {}
program(q) ==
  /\ sproc[q].state = "EXEC" /\ eof(sproc[q].fd[0])
  /\ sproc' = exited(q) /\ UNCHANGED npipe

\* The shell is at its prompt; one line is typed.
getcmd(cmd) ==
  /\ sproc[shell].prog = <<>> /\ sproc[shell].state = "RUN" /\ npipe = 0
  /\ \A q \in ShProcs \ {shell} : sproc[q].state = "UNUSED"
  /\ sproc' = [sproc EXCEPT ![shell].prog = main(cmd)]
  /\ UNCHANGED npipe

\* All is done: the next line starts with new pipes.
prompt ==
  /\ sproc[shell].prog = <<>> /\ npipe > 0
  /\ \A q \in ShProcs \ {shell} : sproc[q].state = "UNUSED"
  /\ npipe' = 0 /\ UNCHANGED sproc

ShRunNext ==
  \/ \E q \in ShProcs : syscall(q) \/ call_fails(q) \/ program(q)
  \/ \E cmd \in Lines : getcmd(cmd)
  \/ prompt

ShRunSpec == ShRunInit /\ [][ShRunNext]_shvars
-----------------------------------------------------------------------------
\* A program of a pipeline has its end of the pipe as descriptor 0 or 1 and no other
\* descriptor of the shell's: runcmd() closes all it made, whatever is nested in what.
OnlyStandardFds ==
  \A q \in ShProcs : sproc[q].state = "EXEC" => \A f \in Fds : sproc[q].fd[f] # Nothing => f < 3

\* Programs that a line puts in sequence, with ; and not in the background, in a command.
RECURSIVE Names(_)
Names(cmd) ==
  CASE cmd.type = "EXEC" -> {cmd.name}
    [] cmd.type = "REDIR" -> Names(cmd.cmd)
    [] cmd.type \in {"BACK", "CD"} -> {}
    [] OTHER -> Names(cmd.left) \cup Names(cmd.right)
RECURSIVE AllNames(_)
AllNames(cmd) ==
  CASE cmd.type = "EXEC" -> {cmd.name}
    [] cmd.type = "CD" -> {}
    [] cmd.type \in {"REDIR", "BACK"} -> AllNames(cmd.cmd)
    [] OTHER -> AllNames(cmd.left) \cup AllNames(cmd.right)
RECURSIVE Sequenced(_)
Sequenced(cmd) ==
  CASE cmd.type \in {"EXEC", "CD"} -> {}
    [] cmd.type \in {"REDIR", "BACK"} -> Sequenced(cmd.cmd)
    [] cmd.type = "PIPE" -> Sequenced(cmd.left) \cup Sequenced(cmd.right)
    [] cmd.type = "LIST" ->
         Sequenced(cmd.left) \cup Sequenced(cmd.right) \cup (Names(cmd.left) \X AllNames(cmd.right))

\* a ; b: b does not start while a program of a runs, be it a pipeline or a block.  (The names
\* of all programs of Lines are different.)
ListInOrder ==
  \A cmd \in Lines : \A s \in Sequenced(cmd) :
    ~\E q, r \in ShProcs : sproc[q].name = s[1] /\ sproc[r].name = s[2]

\* The programs of a line run where the last cd that succeeded has taken the shell.
InShellsDirectory ==
  \A q \in ShProcs : sproc[q].state = "EXEC" => sproc[q].cwd = sproc[shell].cwd

\* runcmd() starts programs in the order of the line, with their standard descriptors only
\* and in the shell's directory.
ShellSafe == OnlyStandardFds /\ ListInOrder /\ InShellsDirectory

\* The shell comes back to its prompt: every pipeline ends, since no process
\* that waits keeps an end of a pipe open.
PromptReturns == []<>(sproc[shell].prog = <<>>)
=============================================================================
