------------------------------- MODULE Files --------------------------------
(***************************************************************************)
(* Open files: the file table (src/file.c), the descriptors of each        *)
(* process and the system calls on them (src/sysfile.c, with pipealloc()   *)
(* of pipe.c and the files of fork() and exit() in proc.c).                *)
(*                                                                         *)
(* A step is a stretch under one lock: ftable.lock, the pipe's lock or the *)
(* sleep-lock of an inode.  A pipe is its two flags (module Pipe has the   *)
(* rest), an inode its reference count, lock and length, a transaction the *)
(* fact that a process is inside one (module Log has the rest).            *)
(***************************************************************************)
EXTENDS Integers, Sequences, FiniteSets

CONSTANTS FProcs, NFILE, NOFILE, Inodes,
          Pipes,      \* bound: pages kalloc() has for pipes
          OModes,     \* bound: modes files are opened in
          MAXSIZE,    \* largest file, in writes
          MaxChunks,  \* bound: transactions of one write()
          Root,       \* working directory of the first process
          NoOne       \* nobody has the lock

ASSUME FilesAssumption == Root \in Inodes /\ NoOne \notin FProcs

FTable == 1..NFILE
Fds == 0..NOFILE-1
NoFile == 0
Closed == [type |-> "FD_NONE", obj |-> NoOne, readable |-> FALSE, writable |-> FALSE, off |-> 0]

VARIABLES
  ref, file,   \* of struct file: ref, and the other fields
  ofile,       \* descriptors: process -> fd -> file
  cwd,         \* working directory, NoOne if the process does not run
  popen,       \* ends open of each pipe, {} when its page is free
  iref, ilk, isize,   \* of an inode: references, holder of its lock, length
  at, todo, after,    \* of a process: place, files to close, place after that
  my,          \* its local variables: files, inode, offset read, chunks left, is it a write
  tx,          \* processes inside a transaction
  total,       \* history: what was read or written through a file
  panicked

tabvars == <<ref, file, total>>
invars == <<iref, ilk, isize>>
ctlvars == <<at, todo, after, my>>
filevars == <<tabvars, ofile, cwd, popen, invars, ctlvars, tx, panicked>>

NoLocals == [f |-> NoFile, g |-> NoFile, ip |-> NoOne, off |-> 0, left |-> 0, write |-> FALSE,
             ff |-> Closed]

FilesInit ==
  \E first \in FProcs :
    /\ ref = [f \in FTable |-> 0] /\ file = [f \in FTable |-> Closed]
    /\ ofile = [p \in FProcs |-> [d \in Fds |-> NoFile]]
    /\ cwd = [p \in FProcs |-> IF p = first THEN Root ELSE NoOne]
    /\ popen = [q \in Pipes |-> {}]
    /\ iref = [i \in Inodes |-> IF i = Root THEN 1 ELSE 0]
    /\ ilk = [i \in Inodes |-> NoOne] /\ isize = [i \in Inodes |-> 0]
    /\ at = [p \in FProcs |-> IF p = first THEN "user" ELSE "unused"]
    /\ todo = [p \in FProcs |-> <<>>] /\ after = [p \in FProcs |-> "user"]
    /\ my = [p \in FProcs |-> NoLocals]
    /\ tx = {} /\ total = [f \in FTable |-> 0] /\ panicked = FALSE

go(p, place) == at' = [at EXCEPT ![p] = place]

\* The first entry filealloc() finds free, or NoFile.
freeFile == LET free == {f \in FTable : ref[f] = 0}
            IN IF free = {} THEN NoFile ELSE CHOOSE f \in free : \A g \in free : f <= g

\* The first descriptor fdalloc() finds free; NOFILE stands for -1.
fdalloc(fds) == LET free == {d \in Fds : fds[d] = NoFile} \cup {NOFILE}
                IN CHOOSE d \in free : \A e \in free : d <= e

\* fileclose(), last reference: f->type = FD_NONE.
release(f) == [file EXCEPT ![f] = Closed]

\* begin_op() of a process that is inside a transaction already could wait for the
\* end of its own.
nested(p) == p \in tx

end_op(p) == tx' = tx \ {p}

\* Mutant of copyOf: the copy is made after the entry is released.
copyOf_late(f) == Closed

\* ff = *f.
copyOf(f) == file[f]

\* The end of a pipe that a file is for.
endOf(ff) == IF ff.writable THEN "write" ELSE "read"

\* Close the files of fs, then go on at place.
closeAll(p, fs, place) == /\ todo' = [todo EXCEPT ![p] = fs]
                          /\ after' = [after EXCEPT ![p] = place]
                          /\ go(p, "close")

\* Where a fileclose() that leaves the files of fs returns to.
back(p, fs) == IF fs = <<>> THEN after[p] ELSE "close"

\* fileclose() under ftable.lock.
fileclose(p) ==
  LET f == Head(todo[p])
      ff == copyOf(f) IN
  /\ at[p] = "close"
  /\ todo' = [todo EXCEPT ![p] = Tail(@)]
  /\ panicked' = (panicked \/ ref[f] < 1)
  /\ ref' = [ref EXCEPT ![f] = @ - 1]
  /\ IF ref[f] > 1
     THEN go(p, back(p, Tail(todo[p]))) /\ UNCHANGED <<file, total, my>>
     ELSE /\ my' = [my EXCEPT ![p].ff = ff]
          /\ file' = release(f)
          /\ total' = [total EXCEPT ![f] = 0]
          /\ go(p, CASE ff.type = "FD_PIPE" -> "pipeclose"
                     [] ff.type = "FD_INODE" -> "close_iput"
                     [] OTHER -> back(p, Tail(todo[p])))
  /\ UNCHANGED <<ofile, cwd, popen, invars, after, tx>>

\* The rest of fileclose(), on its copy ff: pipeclose(), which frees the page
\* with the last end.
close_pipe(p) ==
  LET ff == my[p].ff IN
  /\ at[p] = "pipeclose"
  /\ popen' = [popen EXCEPT ![ff.obj] = @ \ {endOf(ff)}]
  /\ my' = [my EXCEPT ![p].ff = Closed]
  /\ go(p, back(p, todo[p]))
  /\ UNCHANGED <<tabvars, ofile, cwd, invars, todo, after, tx, panicked>>

\* Or a transaction with iput(), which needs the lock of the inode.
close_iput(p) ==
  LET ff == my[p].ff IN
  /\ at[p] = "close_iput" /\ ilk[ff.obj] = NoOne
  /\ panicked' = (panicked \/ nested(p))
  /\ iref' = [iref EXCEPT ![ff.obj] = @ - 1]
  /\ my' = [my EXCEPT ![p].ff = Closed]
  /\ go(p, back(p, todo[p]))
  /\ UNCHANGED <<tabvars, ofile, cwd, popen, ilk, isize, todo, after, tx>>

\* sys_close().
sys_close(p, d) ==
  /\ at[p] = "user" /\ ofile[p][d] # NoFile
  /\ ofile' = [ofile EXCEPT ![p][d] = NoFile]
  /\ closeAll(p, <<ofile[p][d]>>, "user")
  /\ UNCHANGED <<tabvars, cwd, popen, invars, my, tx, panicked>>

\* sys_dup(): fdalloc() and then filedup().
sys_dup(p, d) ==
  LET f == ofile[p][d]
      e == fdalloc(ofile[p]) IN
  /\ at[p] = "user" /\ f # NoFile /\ e \in Fds
  /\ ofile' = [ofile EXCEPT ![p][e] = f]
  /\ panicked' = (panicked \/ ref[f] < 1)
  /\ ref' = [ref EXCEPT ![f] = @ + 1]
  /\ UNCHANGED <<file, total, cwd, popen, invars, ctlvars, tx>>

\* sys_open() up to ilock(): namei() or create() found i.
sys_open(p, i) ==
  /\ at[p] = "user" /\ ilk[i] = NoOne
  /\ tx' = tx \cup {p} /\ panicked' = (panicked \/ nested(p))
  /\ iref' = [iref EXCEPT ![i] = @ + 1]
  /\ ilk' = [ilk EXCEPT ![i] = p]
  /\ my' = [my EXCEPT ![p].ip = i]
  /\ go(p, "open")
  /\ UNCHANGED <<tabvars, ofile, cwd, popen, isize, todo, after>>

\* filealloc() and fdalloc(); without a descriptor the file is closed again.  Else
\* iunlock(), end_op() and then the fields of the file, which only p can see.
open_alloc(p, omode) ==
  LET f == freeFile
      d == fdalloc(ofile[p])
      i == my[p].ip IN
  /\ at[p] = "open"
  /\ ref' = IF f = NoFile THEN ref ELSE [ref EXCEPT ![f] = 1]
  /\ IF f = NoFile \/ d = NOFILE
     THEN /\ IF f = NoFile THEN go(p, "open_fail") /\ UNCHANGED <<todo, after>>
             ELSE closeAll(p, <<f>>, "open_fail")
          /\ UNCHANGED <<ofile, file, ilk, tx, my>>
     ELSE /\ ofile' = [ofile EXCEPT ![p][d] = f]
          /\ file' = [file EXCEPT ![f] = [type |-> "FD_INODE", obj |-> i, readable |-> omode # "O_WRONLY",
                                          writable |-> omode # "O_RDONLY", off |-> 0]]
          /\ ilk' = [ilk EXCEPT ![i] = NoOne] /\ end_op(p)
          /\ my' = [my EXCEPT ![p] = NoLocals] /\ go(p, "user")
          /\ UNCHANGED <<todo, after>>
  /\ UNCHANGED <<total, cwd, popen, iref, isize, panicked>>

\* iunlockput() and end_op() of a failed sys_open().
open_fail(p) ==
  LET i == my[p].ip IN
  /\ at[p] = "open_fail"
  /\ ilk' = [ilk EXCEPT ![i] = NoOne] /\ iref' = [iref EXCEPT ![i] = @ - 1]
  /\ end_op(p)
  /\ my' = [my EXCEPT ![p] = NoLocals] /\ go(p, "user")
  /\ UNCHANGED <<tabvars, ofile, cwd, popen, isize, todo, after, panicked>>
-----------------------------------------------------------------------------
\* pipealloc(): the first filealloc().
sys_pipe(p) ==
  LET f == freeFile IN
  /\ at[p] = "user" /\ f # NoFile
  /\ ref' = [ref EXCEPT ![f] = 1]
  /\ my' = [my EXCEPT ![p].f = f]
  /\ go(p, "pipe_second")
  /\ UNCHANGED <<file, total, ofile, cwd, popen, invars, todo, after, tx, panicked>>

\* The second filealloc(); without a file the first is closed.
pipe_second(p) ==
  LET g == freeFile IN
  /\ at[p] = "pipe_second"
  /\ IF g = NoFile
     THEN /\ closeAll(p, <<my[p].f>>, "user")
          /\ my' = [my EXCEPT ![p] = NoLocals] /\ UNCHANGED ref
     ELSE /\ ref' = [ref EXCEPT ![g] = 1]
          /\ my' = [my EXCEPT ![p].g = g]
          /\ go(p, "pipe_kalloc") /\ UNCHANGED <<todo, after>>
  /\ UNCHANGED <<file, total, ofile, cwd, popen, invars, tx, panicked>>

\* kalloc() has no page: both files are closed.
pipe_nomem(p) ==
  /\ at[p] = "pipe_kalloc"
  /\ closeAll(p, <<my[p].f, my[p].g>>, "user")
  /\ my' = [my EXCEPT ![p] = NoLocals]
  /\ UNCHANGED <<tabvars, ofile, cwd, popen, invars, tx, panicked>>

\* The two fdalloc() of sys_pipe(): if one fails, both files are closed.
pipe_fds(p) ==
  LET d == fdalloc(ofile[p])
      e == IF d = NOFILE THEN NOFILE ELSE fdalloc([ofile[p] EXCEPT ![d] = my[p].f])
  IN IF e = NOFILE
     THEN closeAll(p, <<my[p].f, my[p].g>>, "user") /\ UNCHANGED ofile
     ELSE /\ ofile' = [ofile EXCEPT ![p][d] = my[p].f, ![p][e] = my[p].g]
          /\ go(p, "user") /\ UNCHANGED <<todo, after>>

\* kalloc() gives the page q; the fields of both files; the descriptors.
pipe_alloc(p, q) ==
  LET end(wr) == [type |-> "FD_PIPE", obj |-> q, readable |-> ~wr, writable |-> wr, off |-> 0] IN
  /\ at[p] = "pipe_kalloc" /\ popen[q] = {}
  /\ popen' = [popen EXCEPT ![q] = {"read", "write"}]
  /\ file' = [file EXCEPT ![my[p].f] = end(FALSE), ![my[p].g] = end(TRUE)]
  /\ pipe_fds(p)
  /\ my' = [my EXCEPT ![p] = NoLocals]
  /\ UNCHANGED <<ref, total, cwd, invars, tx, panicked>>
-----------------------------------------------------------------------------
\* fork(): my[p].left is i of its loop, my[p].ip the child.
fork(p, q) ==
  /\ at[p] = "user" /\ at[q] = "unused"
  /\ at' = [at EXCEPT ![p] = "fork", ![q] = "embryo"]
  /\ my' = [my EXCEPT ![p].ip = q]
  /\ UNCHANGED <<tabvars, ofile, cwd, popen, invars, todo, after, tx, panicked>>

filedup(f) == ref' = [ref EXCEPT ![f] = @ + 1] /\ panicked' = (panicked \/ ref[f] < 1)

\* A turn of the loop: the child gets a descriptor.
fork_dup(p) ==
  LET d == my[p].left IN
  /\ at[p] = "fork" /\ d \in Fds
  /\ my' = [my EXCEPT ![p].left = @ + 1]
  /\ IF ofile[p][d] = NoFile THEN UNCHANGED <<ofile, ref, panicked>>
     ELSE /\ ofile' = [ofile EXCEPT ![my[p].ip][d] = ofile[p][d]]
          /\ filedup(ofile[p][d])
  /\ UNCHANGED <<file, total, cwd, popen, invars, at, todo, after, tx>>

\* idup() of the working directory; the child may run.
fork_done(p) ==
  LET q == my[p].ip IN
  /\ at[p] = "fork" /\ my[p].left = NOFILE
  /\ cwd' = [cwd EXCEPT ![q] = cwd[p]]
  /\ iref' = [iref EXCEPT ![cwd[p]] = @ + 1]
  /\ my' = [my EXCEPT ![p] = NoLocals]
  /\ at' = [at EXCEPT ![p] = "user", ![q] = "user"]
  /\ UNCHANGED <<tabvars, ofile, popen, ilk, isize, todo, after, tx, panicked>>

\* exit() closes its descriptors in turn (it forgets each one after fileclose(),
\* but nobody else looks).
exit_close(p) ==
  LET open == {d \in Fds : ofile[p][d] # NoFile}
      d == CHOOSE x \in open : \A y \in open : x <= y IN
  /\ at[p] \in {"user", "exit"} /\ open # {}
  /\ ofile' = [ofile EXCEPT ![p][d] = NoFile]
  /\ closeAll(p, <<ofile[p][d]>>, "exit")
  /\ UNCHANGED <<tabvars, cwd, popen, invars, my, tx, panicked>>

\* A transaction with iput(cwd); wait() frees the slot in module Proc.
exit_cwd(p) ==
  /\ at[p] \in {"user", "exit"} /\ \A d \in Fds : ofile[p][d] = NoFile
  /\ ilk[cwd[p]] = NoOne
  /\ panicked' = (panicked \/ nested(p))
  /\ iref' = [iref EXCEPT ![cwd[p]] = @ - 1]
  /\ cwd' = [cwd EXCEPT ![p] = NoOne]
  /\ after' = [after EXCEPT ![p] = "user"]
  /\ go(p, "unused")
  /\ UNCHANGED <<tabvars, ofile, popen, ilk, isize, todo, my, tx>>
-----------------------------------------------------------------------------
\* Mutant of lockable: the offset is read without the lock.
lockable_always(i) == TRUE

lockable(i) == ilk[i] = NoOne

\* ilock(), of a write in a transaction, and f->off is read; k chunks are left.
rw_lock(p, f, write, k) ==
  /\ lockable(file[f].obj)
  /\ ilk' = [ilk EXCEPT ![file[f].obj] = p]
  /\ tx' = IF write THEN tx \cup {p} ELSE tx
  /\ panicked' = (panicked \/ (write /\ nested(p)))
  /\ my' = [my EXCEPT ![p].f = f, ![p].off = file[f].off, ![p].write = write, ![p].left = k]
  /\ go(p, "rw_io")
  /\ UNCHANGED <<tabvars, ofile, cwd, popen, iref, isize, todo, after>>

allows(ff, write) == IF write THEN ff.writable ELSE ff.readable

\* fileread() or filewrite() panics on an entry that is not in use.
panic_none(p, f) ==
  /\ file[f].type = "FD_NONE" /\ panicked' = TRUE
  /\ UNCHANGED <<tabvars, ofile, cwd, popen, invars, ctlvars, tx>>

\* sys_read() and sys_write() of an inode that is open for it (else they return -1); a write
\* takes k transactions.
sys_rw(p, d, write, k) ==
  LET f == ofile[p][d] IN
  /\ at[p] = "user" /\ f # NoFile
  /\ \/ panic_none(p, f)
     \/ file[f].type = "FD_INODE" /\ allows(file[f], write) /\ rw_lock(p, f, write, k)

\* The next chunk of a write.
rw_next(p) == at[p] = "rw" /\ rw_lock(p, my[p].f, TRUE, my[p].left)

\* What readi() and writei() of n units at o return: as much as there is; all or an error.
readi(i, o, n) == IF o > isize[i] THEN -1 ELSE IF o + n > isize[i] THEN isize[i] - o ELSE n
writei(i, o, n) == IF o > isize[i] \/ o + n > MAXSIZE THEN -1 ELSE n

\* readi() or writei() of a unit returned r; f->off += r; iunlock(), end_op(), next chunk.
rw_io(p) ==
  LET f == my[p].f
      i == file[f].obj
      o == my[p].off
      write == my[p].write
      r == IF write THEN writei(i, o, 1) ELSE readi(i, o, 1) IN
  /\ at[p] = "rw_io"
  /\ file' = IF r > 0 THEN [file EXCEPT ![f].off = o + r] ELSE file
  /\ total' = IF r > 0 THEN [total EXCEPT ![f] = @ + r] ELSE total
  /\ isize' = IF write /\ r > 0 /\ o + r > isize[i] THEN [isize EXCEPT ![i] = o + r] ELSE isize
  /\ ilk' = [ilk EXCEPT ![i] = NoOne]
  /\ end_op(p)
  /\ panicked' = (panicked \/ (write /\ r >= 0 /\ r # 1))
  /\ IF write /\ r > 0 /\ my[p].left > 1
     THEN my' = [my EXCEPT ![p].left = @ - 1, ![p].off = 0] /\ go(p, "rw")
     ELSE my' = [my EXCEPT ![p] = NoLocals] /\ go(p, "user")
  /\ UNCHANGED <<ref, ofile, cwd, popen, iref, todo, after>>

Step(p) ==
  \/ fileclose(p) \/ close_pipe(p) \/ close_iput(p)
  \/ \E d \in Fds : sys_close(p, d) \/ sys_dup(p, d)
  \/ \E i \in Inodes : sys_open(p, i)
  \/ open_fail(p) \/ \E omode \in OModes : open_alloc(p, omode)
  \/ sys_pipe(p) \/ pipe_second(p) \/ pipe_nomem(p) \/ \E q \in Pipes : pipe_alloc(p, q)
  \/ \E q \in FProcs : fork(p, q)
  \/ fork_dup(p) \/ fork_done(p) \/ exit_close(p) \/ exit_cwd(p)
  \/ \E d \in Fds : sys_rw(p, d, FALSE, 1) \/ \E k \in 1..MaxChunks : sys_rw(p, d, TRUE, k)
  \/ rw_next(p) \/ rw_io(p)

FilesNext == \E p \in FProcs : Step(p)

FilesSpec == FilesInit /\ [][FilesNext]_filevars
-----------------------------------------------------------------------------
\* Places where a process has a reference to a file besides its descriptors.
Held(f) == {<<p, n>> \in FProcs \X (1..NFILE) : n <= Len(todo[p]) /\ todo[p][n] = f}
           \cup {<<p, "f">> : p \in {p \in FProcs : at[p] \in {"pipe_second", "pipe_kalloc"} /\ my[p].f = f}}
           \cup {<<p, "g">> : p \in {p \in FProcs : at[p] = "pipe_kalloc" /\ my[p].g = f}}

Named(f) == {<<p, d>> \in FProcs \X Fds : ofile[p][d] = f}

\* struct file's ref counts the descriptors and the pointers still in use, through
\* every failure of sys_open(), sys_pipe() and fork(): no file is lost or closed early.
FileRefExact ==
  \A f \in FTable : ref[f] = Cardinality(Named(f)) + Cardinality(Held(f))

\* A free entry has type FD_NONE: filealloc() does not set it, and the fileclose() of
\* a sys_open() that failed inside its transaction would start another.
FreeFileIsNone == \A f \in FTable : ref[f] = 0 => file[f].type = "FD_NONE"

\* Files of a kind for object o, and copies of one in a fileclose() under way.
Users(type, o) ==
  Cardinality({f \in FTable : file[f].type = type /\ file[f].obj = o})
  + Cardinality({p \in FProcs : my[p].ff.type = type /\ my[p].ff.obj = o})

\* An end of a pipe is open exactly while a file for it is open or being closed,
\* so the page is freed, and freed once.
PipeEndsExact ==
  \A q \in Pipes : \A wr \in BOOLEAN :
    (IF wr THEN "write" ELSE "read") \in popen[q] <=>
      \/ \E f \in FTable : file[f].obj = q /\ file[f].writable = wr
      \/ \E p \in FProcs : my[p].ff.obj = q /\ my[p].ff.writable = wr

\* An inode's references are those of files, working directories and calls under
\* way.
InodeRefExact ==
  \A i \in Inodes : iref[i] = Users("FD_INODE", i) + Cardinality({p \in FProcs : cwd[p] = i})
                              + Cardinality({p \in FProcs : my[p].ip = i})

\* f->off is what was read or written through the file: calls of processes that
\* share it never use the same offset twice.
OffsetExact == \A f \in FTable : file[f].type = "FD_INODE" => file[f].off = total[f]

\* No panic of filedup(), fileclose(), fileread() or filewrite(), and no process waits
\* for the end of its own transaction.
NoFilePanic == ~panicked

\* Through every failure of open(), pipe() and fork() and every order of closes and exits,
\* the counts of files, of inodes and of the ends of pipes are exact, and nothing panics.
FilesExact == FileRefExact /\ FreeFileIsNone /\ PipeEndsExact /\ InodeRefExact /\ NoFilePanic
=============================================================================
