------------------------------- MODULE MCFs --------------------------------
(***************************************************************************)
(* Model-checking instances of Fs.                                         *)
(***************************************************************************)
EXTENDS Fs, TLC

\* The root's a, b in it, and b in the current directory.
a == [abs |-> TRUE, elems |-> <<"a">>]
ab == [abs |-> TRUE, elems |-> <<"a", "b">>]
b == [abs |-> FALSE, elems |-> <<"b">>]

make(calls, paths) == {[call |-> c, path |-> q, new |-> <<>>] : c \in calls, q \in paths}
links(old, new) == {[call |-> "link", path |-> q, new |-> n] : q \in old, n \in new}

CONSTANTS p1, p2

\* One process makes, links, opens and removes files and directories and changes into
\* them, the other creates and removes files.
MakerRemover(p) ==
  IF p = p1 THEN make({"unlink"}, {a, ab, b}) \cup make({"open"}, {a}) \cup make({"mkdir"}, {a})
                 \cup make({"chdir"}, {a}) \cup links({a}, {b}) \cup links({b}, {ab})
  ELSE make({"create"}, {a, b}) \cup make({"mknod"}, {ab}) \cup make({"unlink"}, {a})

\* Two processes use one name of the root.
CreateUnlink(p) == make({"create", "unlink"}, {a})
=============================================================================
