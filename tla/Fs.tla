--------------------------------- MODULE Fs ---------------------------------
(***************************************************************************)
(* Inodes, directories and path names (src/fs.c) under the system calls    *)
(* that name files (src/sysfile.c), by several processes.                  *)
(*                                                                         *)
(* A step is what a process does between two waits for the sleep-lock of   *)
(* an inode, or under icache.lock.  A directory maps names to inode        *)
(* numbers, 0 for none; its layout and the blocks of files are in module   *)
(* Content, transactions in module Log.  A path is the sequence of its     *)
(* elements and where it starts.                                           *)
(***************************************************************************)
EXTENDS Integers, Sequences, FiniteSets

CONSTANTS UProcs,
          NInum,     \* inode numbers are 1..NInum, 1 is the root
          Names,     \* names besides . and ..
          Calls(_),  \* system calls a process makes: name, path and, of link(), new path
          MaxLost,   \* bound: no link() after so many entries of an inode were lost
          Nil        \* no inode, nobody

Inums == 1..NInum
ROOTINO == 1
Slots == Inums       \* NINODE is enough for all inodes: iget() has room
Entries == Names \cup {".", ".."}
NoDir == [n \in Entries |-> 0]
RootDir == [NoDir EXCEPT !["."] = ROOTINO, ![".."] = ROOTINO]

VARIABLES
  dinode,    \* on disk: type and nlink
  dir,       \* content of the directories
  icache,    \* slot -> inum, ref, valid, type, nlink
  lk,        \* slot -> holder of its sleep-lock
  cwd, opened,  \* slots a process refers to between calls
  my,        \* the call a process is in: place and local variables
  late,      \* history: entries <<directory, name>> made after its removal
  lost,      \* history: how many of those disappeared with it, per inode
  panicked

fsvars == <<dinode, dir, icache, lk, cwd, opened, my, late, lost, panicked>>
history == <<late, lost>>
disk == <<dinode, dir, history>>

Idle == [at |-> "user", call |-> "none", path |-> <<>>, parent |-> FALSE, ip |-> Nil, dp |-> Nil,
         name |-> ".", old |-> Nil, new |-> <<>>, put |-> Nil, then |-> "user"]

FsInit ==
  /\ dinode = [i \in Inums |-> IF i = ROOTINO THEN [type |-> "T_DIR", nlink |-> 1]
                               ELSE [type |-> "none", nlink |-> 0]]
  /\ dir = [i \in Inums |-> IF i = ROOTINO THEN RootDir ELSE NoDir]
  /\ icache = [s \in Slots |-> [inum |-> s, ref |-> IF s = ROOTINO THEN Cardinality(UProcs) ELSE 0,
                                valid |-> FALSE, type |-> "none", nlink |-> 0]]
  /\ lk = [s \in Slots |-> Nil]
  /\ cwd = [p \in UProcs |-> ROOTINO] /\ opened = [p \in UProcs |-> Nil]
  /\ my = [p \in UProcs |-> Idle]
  /\ late = {} /\ lost = [i \in Inums |-> 0] /\ panicked = FALSE

free(s) == lk[s] = Nil
give(s) == [lk EXCEPT ![s] = Nil]
take(s, p) == [lk EXCEPT ![s] = p]
inum(s) == icache[s].inum

\* ilock(): the slot as it is once it is read from disk.
loaded(s) == IF icache[s].valid THEN icache[s]
             ELSE [icache[s] EXCEPT !.valid = TRUE, !.type = dinode[inum(s)].type,
                                    !.nlink = dinode[inum(s)].nlink]

\* ilock() panics on an inode without a type.
typeless(s) == loaded(s).type = "none"

\* The cache after ilock() of s.
locked(s) == [icache EXCEPT ![s] = loaded(s)]

\* iget() in cache c: the slot of inode i, or the first that is unused.
slotFor(c, i) == LET hit == {s \in Slots : c[s].ref > 0 /\ c[s].inum = i}
                     room == {s \in Slots : c[s].ref = 0}
                     from == IF hit # {} THEN hit ELSE room
                 IN CHOOSE s \in from : \A t \in from : s <= t

\* Mutant of taken: what the slot has of another inode is not dropped.
taken_valid(e, i) == [e EXCEPT !.inum = i, !.ref = 1]

\* An unused slot that is given to inode i: nothing was read of it yet.
taken(e, i) == [e EXCEPT !.inum = i, !.ref = 1, !.valid = FALSE]

iget(c, i) ==
  LET s == slotFor(c, i)
  IN IF c[s].ref > 0 THEN [c EXCEPT ![s].ref = @ + 1]
     ELSE [c EXCEPT ![s] = taken(@, i)]

\* iupdate() of the slot s of cache c: the inode on disk.
iupdate(c, s) == [dinode EXCEPT ![c[s].inum] = [type |-> c[s].type, nlink |-> c[s].nlink]]

\* dirlookup(): the inode number of the entry n, 0 if there is none.
dirlookup(s, n) == dir[inum(s)][n]

goto(p, upd) == my' = [my EXCEPT ![p] = upd]

\* iput(s) and then on at place then, or back to the user.
put(m, s, then) == [m EXCEPT !.at = "iput", !.put = s, !.then = then]
lastPut(s) == put(Idle, s, "user")
-----------------------------------------------------------------------------
\* namex(): a turn of its loop.  The lock of ip is held from ilock() to iunlock(),
\* and the next inode is referenced before.
namex(p) ==
  LET m == my[p]
      s == m.ip
      c == locked(s)
      n == Head(m.path)
      next == dirlookup(s, n) IN
  /\ m.at = "namex" /\ free(s)
  /\ panicked' = (panicked \/ typeless(s))
  /\ IF c[s].type = "T_DIR" /\ m.parent /\ Tail(m.path) = <<>>
     THEN /\ goto(p, [m EXCEPT !.at = m.call, !.dp = s, !.ip = Nil, !.path = <<>>, !.name = n])
          /\ icache' = c
     ELSE IF c[s].type # "T_DIR" \/ next = 0
     THEN /\ goto(p, IF m.call = "link_dir" THEN [put(Idle, s, "link_bad") EXCEPT !.old = m.old]
                     ELSE lastPut(s))
          /\ icache' = c
     ELSE /\ goto(p, [put(m, s, IF Tail(m.path) = <<>> THEN m.call ELSE "namex")
                      EXCEPT !.ip = slotFor(c, next), !.path = Tail(@)])
          /\ icache' = iget(c, next)
  /\ UNCHANGED <<disk, lk, cwd, opened>>

\* Mutant of lastRef: other references are forgotten.
lastRef_any(s) == TRUE

lastRef(s) == icache[s].ref = 1

\* iput(): with the lock, is the inode to be freed?
iput(p) ==
  LET m == my[p]
      s == m.put
      freeing == icache[s].valid /\ icache[s].nlink = 0 /\ lastRef(s) IN
  /\ m.at = "iput" /\ free(s)
  /\ lk' = IF freeing THEN take(s, p) ELSE lk
  /\ goto(p, [m EXCEPT !.at = IF freeing THEN "ifree" ELSE "iref"])
  /\ UNCHANGED <<disk, icache, cwd, opened, panicked>>

\* A slot once its inode is freed: type = 0, valid = 0.
discarded(e) == [e EXCEPT !.valid = FALSE, !.type = "none", !.nlink = 0]

\* iput(): itrunc(), type 0, iupdate(), valid = 0.
iput_free(p) ==
  LET s == my[p].put
      i == inum(s) IN
  /\ my[p].at = "ifree"
  /\ dinode' = [dinode EXCEPT ![i] = [type |-> "none", nlink |-> 0]]
  /\ dir' = [dir EXCEPT ![i] = NoDir]
  /\ lost' = [j \in Inums |-> IF j = i THEN 0
                ELSE lost[j] + Cardinality({n \in Names : dir[i][n] = j /\ <<i, n>> \in late})]
  /\ late' = {e \in late : e[1] # i}
  /\ icache' = [icache EXCEPT ![s] = discarded(@)]
  /\ lk' = give(s)
  /\ goto(p, [my[p] EXCEPT !.at = "iref"])
  /\ UNCHANGED <<cwd, opened, panicked>>

\* Where a call ends its process forgets its local variables.
end(m) == IF m.then = "user" THEN Idle ELSE [m EXCEPT !.at = m.then, !.put = Nil, !.then = "user"]

\* iput(): the reference is dropped, outside of the lock.  A slot nobody refers to keeps
\* what it has of its inode until iget() takes it.
iput_ref(p) ==
  /\ my[p].at = "iref"
  /\ icache' = [icache EXCEPT ![my[p].put].ref = @ - 1]
  /\ goto(p, end(my[p]))
  /\ UNCHANGED <<disk, lk, cwd, opened, panicked>>
-----------------------------------------------------------------------------
\* A call starts: namei() or nameiparent() of a path that has an element.  Bound: a
\* call that may need an inode is made while there is one left for it.
Creating == {"create", "mkdir", "mknod"}
Free == {i \in Inums : dinode[i].type = "none"}

start(p, call, path, new) ==
  LET first == IF path.abs THEN slotFor(icache, ROOTINO) ELSE cwd[p] IN
  /\ my[p].at = "user"
  /\ call \in Creating => Cardinality({q \in UProcs : my[q].call \in Creating}) < Cardinality(Free)
  /\ call = "link" => \A i \in Inums : lost[i] < MaxLost
  /\ call \in {"open", "create"} => opened[p] = Nil
  /\ icache' = IF path.abs THEN iget(icache, ROOTINO) ELSE [icache EXCEPT ![first].ref = @ + 1]
  /\ goto(p, [Idle EXCEPT !.at = "namex", !.call = call, !.path = path.elems, !.ip = first,
                          !.parent = call \in Creating \cup {"unlink"}, !.new = new])
  /\ UNCHANGED <<disk, lk, cwd, opened, panicked>>

\* sys_open() of a file that exists: to write, if it is no directory.
open(p, write) ==
  LET s == my[p].ip IN
  /\ my[p].at = "open" /\ free(s)
  /\ panicked' = (panicked \/ typeless(s))
  /\ icache' = locked(s)
  /\ IF loaded(s).type = "T_DIR" /\ write
     THEN goto(p, lastPut(s)) /\ UNCHANGED opened
     ELSE goto(p, Idle) /\ opened' = [opened EXCEPT ![p] = s]
  /\ UNCHANGED <<disk, lk, cwd>>

\* The last close().
close(p) ==
  /\ my[p].at = "user" /\ opened[p] # Nil
  /\ goto(p, lastPut(opened[p]))
  /\ opened' = [opened EXCEPT ![p] = Nil]
  /\ UNCHANGED <<disk, icache, lk, cwd, panicked>>

\* sys_chdir(): the old directory is put; nobody sees that cwd is set only after that.
chdir(p) ==
  LET s == my[p].ip IN
  /\ my[p].at = "chdir" /\ free(s)
  /\ panicked' = (panicked \/ typeless(s))
  /\ icache' = locked(s)
  /\ IF loaded(s).type # "T_DIR"
     THEN goto(p, lastPut(s)) /\ UNCHANGED cwd
     ELSE goto(p, lastPut(cwd[p])) /\ cwd' = [cwd EXCEPT ![p] = s]
  /\ UNCHANGED <<disk, lk, opened>>
-----------------------------------------------------------------------------
\* History: the entry n is made in directory d, which may have lost its name.
HasName(d) == d = ROOTINO \/ \E e \in Inums, n \in Names : dir[e][n] = d
noteLate(d, n) == late' = (IF HasName(d) THEN late ELSE late \cup {<<d, n>>}) /\ UNCHANGED lost

typeOf(call) == CASE call = "create" -> "T_FILE" [] call = "mkdir" -> "T_DIR" [] OTHER -> "T_DEV"

\* create(): the name exists already; the directory is put, then the inode is locked.
\* The lock of dp is released in the same step.
create_found(p) ==
  LET m == my[p]
      c == locked(m.dp)
      i == dirlookup(m.dp, m.name) IN
  /\ m.at \in Creating /\ free(m.dp) /\ i # 0
  /\ panicked' = (panicked \/ typeless(m.dp))
  /\ icache' = iget(c, i)
  /\ goto(p, [put(Idle, m.dp, "create_old") EXCEPT !.call = m.call, !.ip = slotFor(c, i)])
  /\ UNCHANGED <<disk, lk, cwd, opened>>

\* create() returns the old file to sys_open(), if both are files.
create_old(p) ==
  LET m == my[p]
      s == m.ip IN
  /\ m.at = "create_old" /\ free(s)
  /\ panicked' = (panicked \/ typeless(s))
  /\ icache' = locked(s)
  /\ IF m.call = "create" /\ loaded(s).type = "T_FILE"
     THEN goto(p, Idle) /\ opened' = [opened EXCEPT ![p] = s]
     ELSE goto(p, lastPut(s)) /\ UNCHANGED opened
  /\ UNCHANGED <<disk, lk, cwd>>

\* create(): ialloc(), with the lock of the directory.
create_ialloc(p) ==
  LET m == my[p]
      c == locked(m.dp)
      i == CHOOSE x \in Free : \A y \in Free : x <= y IN
  /\ m.at \in Creating /\ free(m.dp) /\ dirlookup(m.dp, m.name) = 0
  /\ panicked' = (panicked \/ typeless(m.dp))
  /\ lk' = take(m.dp, p)
  /\ dinode' = [dinode EXCEPT ![i] = [type |-> typeOf(m.call), nlink |-> 0]]
  /\ icache' = iget(c, i)
  /\ goto(p, [m EXCEPT !.at = "create_link", !.ip = slotFor(c, i)])
  /\ UNCHANGED <<dir, history, cwd, opened>>

\* The content of a new inode: . and .. in a directory.
dirOf(i, up, type) == IF type = "T_DIR" THEN [NoDir EXCEPT !["."] = i, ![".."] = up] ELSE NoDir

\* create(): the new inode is locked (nobody else knows it) and linked; iunlockput(dp)
\* then waits for dp with the lock of ip.
create_link(p) ==
  LET m == my[p]
      type == typeOf(m.call)
      i == inum(m.ip)
      d == inum(m.dp)
      up == IF type = "T_DIR" THEN 1 ELSE 0
      c == [locked(m.ip) EXCEPT ![m.ip].nlink = 1, ![m.dp].nlink = @ + up] IN
  /\ m.at = "create_link" /\ free(m.ip)
  /\ icache' = c
  /\ dinode' = [iupdate(c, m.ip) EXCEPT ![d].nlink = c[m.dp].nlink]
  /\ dir' = [dir EXCEPT ![i] = dirOf(i, d, type), ![d][m.name] = i]
  /\ lk' = [lk EXCEPT ![m.ip] = p, ![m.dp] = Nil]
  /\ goto(p, [put(Idle, m.dp, "create_done") EXCEPT !.call = m.call, !.ip = m.ip])
  /\ noteLate(d, m.name)
  /\ UNCHANGED <<cwd, opened, panicked>>

\* sys_open() keeps the new inode, sys_mkdir() and sys_mknod() put it.
create_done(p) ==
  LET m == my[p] IN
  /\ m.at = "create_done"
  /\ lk' = give(m.ip)
  /\ IF m.call = "create" THEN goto(p, Idle) /\ opened' = [opened EXCEPT ![p] = m.ip]
     ELSE goto(p, lastPut(m.ip)) /\ UNCHANGED opened
  /\ UNCHANGED <<disk, icache, cwd, panicked>>
-----------------------------------------------------------------------------
\* sys_unlink(): the directory is locked and the entry looked up.
unlink(p) ==
  LET m == my[p]
      c == locked(m.dp)
      i == dirlookup(m.dp, m.name) IN
  /\ m.at = "unlink" /\ free(m.dp)
  /\ panicked' = (panicked \/ typeless(m.dp))
  /\ IF m.name \in {".", ".."} \/ i = 0
     THEN /\ goto(p, lastPut(m.dp))
          /\ icache' = c /\ UNCHANGED lk
     ELSE /\ goto(p, [m EXCEPT !.at = "unlink_ip", !.ip = slotFor(c, i)])
          /\ icache' = iget(c, i) /\ lk' = take(m.dp, p)
  /\ UNCHANGED <<disk, cwd, opened>>

\* Mutant of removable: a directory is removed whatever it has.
removable_any(s) == TRUE

\* A file, or a directory that isdirempty().
removable(s) == loaded(s).type = "T_DIR" => \A n \in Names : dir[inum(s)][n] = 0

\* The inode is locked too.  The entry is cleared and dp put, still with the lock
\* of ip; or ip is put, still with the lock of dp.
unlink_ip(p) ==
  LET m == my[p]
      s == m.ip
      c == locked(s)
      up == IF c[s].type = "T_DIR" THEN 1 ELSE 0 IN
  /\ m.at = "unlink_ip" /\ free(s)
  /\ panicked' = (panicked \/ typeless(s) \/ c[s].nlink < 1)
  /\ IF removable(s)
     THEN /\ dir' = [dir EXCEPT ![inum(m.dp)][m.name] = 0]
          /\ icache' = [c EXCEPT ![m.dp].nlink = @ - up]
          /\ dinode' = [dinode EXCEPT ![inum(m.dp)].nlink = icache[m.dp].nlink - up]
          /\ lk' = [lk EXCEPT ![m.dp] = Nil, ![s] = p]
          /\ late' = late \ {<<inum(m.dp), m.name>>}
          /\ goto(p, [put(Idle, m.dp, "unlink_done") EXCEPT !.ip = s])
     ELSE /\ icache' = c
          /\ goto(p, [put(Idle, s, "unlink_bad") EXCEPT !.dp = m.dp])
          /\ UNCHANGED <<dir, dinode, lk, late>>
  /\ UNCHANGED <<lost, cwd, opened>>

unlink_bad(p) ==
  /\ my[p].at = "unlink_bad"
  /\ lk' = give(my[p].dp)
  /\ goto(p, lastPut(my[p].dp))
  /\ UNCHANGED <<disk, icache, cwd, opened, panicked>>

\* nlink--, iupdate(), iunlockput().
unlink_done(p) ==
  LET s == my[p].ip
      c == [icache EXCEPT ![s].nlink = @ - 1] IN
  /\ my[p].at = "unlink_done"
  /\ icache' = c /\ dinode' = iupdate(c, s)
  /\ lk' = give(s)
  /\ goto(p, lastPut(s))
  /\ UNCHANGED <<dir, history, cwd, opened, panicked>>
-----------------------------------------------------------------------------
\* Mutant of linkLocks: the inode stays locked while the new name is looked up.
linkLocks_kept(s, p) == take(s, p)

\* The locks after iunlock(ip) in sys_link().
linkLocks(s, p) == lk

\* sys_link(): the count goes up first; then nameiparent(new).
link(p) ==
  LET m == my[p]
      s == m.ip
      c == [locked(s) EXCEPT ![s].nlink = @ + 1]
      first == IF m.new.abs THEN slotFor(c, ROOTINO) ELSE cwd[p] IN
  /\ m.at = "link" /\ free(s)
  /\ panicked' = (panicked \/ typeless(s))
  /\ IF loaded(s).type = "T_DIR"
     THEN /\ goto(p, lastPut(s))
          /\ icache' = locked(s) /\ UNCHANGED <<dinode, lk>>
     ELSE /\ dinode' = iupdate(c, s) /\ lk' = linkLocks(s, p)
          /\ icache' = IF m.new.abs THEN iget(c, ROOTINO) ELSE [c EXCEPT ![first].ref = @ + 1]
          /\ goto(p, [m EXCEPT !.at = "namex", !.call = "link_dir", !.path = m.new.elems,
                               !.parent = TRUE, !.ip = first, !.old = s, !.new = <<>>])
  /\ UNCHANGED <<dir, history, cwd, opened>>

\* dirlink() of the new name.  If the name exists its inode is put under the lock
\* of the directory.
link_dir(p) ==
  LET m == my[p]
      c == locked(m.dp)
      i == dirlookup(m.dp, m.name) IN
  /\ m.at = "link_dir" /\ free(m.dp)
  /\ panicked' = (panicked \/ typeless(m.dp))
  /\ IF i = 0
     THEN /\ dir' = [dir EXCEPT ![inum(m.dp)][m.name] = inum(m.old)]
          /\ icache' = c /\ UNCHANGED lk
          /\ noteLate(inum(m.dp), m.name)
          /\ goto(p, [put(Idle, m.dp, "link_done") EXCEPT !.old = m.old])
     ELSE /\ icache' = iget(c, i) /\ lk' = take(m.dp, p)
          /\ goto(p, [put(Idle, slotFor(c, i), "link_exists") EXCEPT !.dp = m.dp, !.old = m.old])
          /\ UNCHANGED <<dir, history>>
  /\ UNCHANGED <<dinode, cwd, opened>>

link_done(p) ==
  /\ my[p].at = "link_done"
  /\ goto(p, lastPut(my[p].old))
  /\ UNCHANGED <<disk, icache, lk, cwd, opened, panicked>>

link_exists(p) ==
  /\ my[p].at = "link_exists"
  /\ lk' = give(my[p].dp)
  /\ goto(p, [put(Idle, my[p].dp, "link_bad") EXCEPT !.old = my[p].old])
  /\ UNCHANGED <<disk, icache, cwd, opened, panicked>>

\* Mutant of link_bad: the inode is unlocked and not put.
link_bad_kept(p) ==
  LET s == my[p].old
      c == [locked(s) EXCEPT ![s].nlink = @ - 1] IN
  /\ my[p].at = "link_bad" /\ free(s)
  /\ icache' = c /\ dinode' = iupdate(c, s)
  /\ goto(p, Idle)
  /\ UNCHANGED <<dir, history, lk, cwd, opened, panicked>>

\* bad: the count goes down again.
link_bad(p) ==
  LET s == my[p].old
      c == [locked(s) EXCEPT ![s].nlink = @ - 1] IN
  /\ my[p].at = "link_bad" /\ free(s)
  /\ icache' = c /\ dinode' = iupdate(c, s)
  /\ goto(p, lastPut(s))
  /\ UNCHANGED <<dir, history, lk, cwd, opened, panicked>>

FsStep(p) ==
  \/ namex(p) \/ iput(p) \/ iput_free(p) \/ iput_ref(p)
  \/ \E c \in Calls(p) : start(p, c.call, c.path, c.new)
  \/ \E write \in BOOLEAN : open(p, write)
  \/ close(p) \/ chdir(p)
  \/ create_found(p) \/ create_old(p) \/ create_ialloc(p) \/ create_link(p) \/ create_done(p)
  \/ unlink(p) \/ unlink_ip(p) \/ unlink_bad(p) \/ unlink_done(p)
  \/ link(p) \/ link_dir(p) \/ link_done(p) \/ link_exists(p) \/ link_bad(p)

\* A panic stops every CPU.
FsNext == ~panicked /\ \E p \in UProcs : FsStep(p)

FsSpec == FsInit /\ [][FsNext]_fsvars
-----------------------------------------------------------------------------
\* An inode is in one slot of the cache at most: all processes lock the same lock.
OneSlotPerInode ==
  \A s, t \in Slots : icache[s].ref > 0 /\ icache[t].ref > 0 /\ inum(s) = inum(t) => s = t

\* ref counts the pointers to the slot: working directories, open files and the
\* local variables of calls under way.
SlotRefExact ==
  \A s \in Slots :
    icache[s].ref = Cardinality({p \in UProcs : cwd[p] = s}) + Cardinality({p \in UProcs : opened[p] = s})
                    + Cardinality({<<p, v>> \in UProcs \X {"ip", "dp", "old", "put"} : my[p][v] = s})

\* Entries that name inode i: not ., and .. only of a directory that has a name.
EntriesOf(i) ==
  {<<d, n>> \in Inums \X (Names \cup {".."}) : dir[d][n] = i /\ (n = ".." => HasName(d))}

\* Calls that changed nlink or an entry and not yet the other.
Pending(i) ==
  {p \in UProcs : \/ my[p].old # Nil /\ inum(my[p].old) = i /\ "link_done" \notin {my[p].at, my[p].then}
                  \/ my[p].ip # Nil /\ inum(my[p].ip) = i /\ "unlink_done" \in {my[p].at, my[p].then}}

\* nlink on disk counts the directory entries for the inode, through every failed
\* and concurrent link() and unlink() (and those lost in a directory that was removed
\* while a call was creating them).
LinkCountExact ==
  \A i \in Inums : dinode[i].nlink = Cardinality(EntriesOf(i)) + Cardinality(Pending(i)) + lost[i]

\* An inode is freed only when nothing refers to it: no entry names a free inode and
\* no process has one open or as working directory.
FreedIsUnused ==
  \A i \in Inums : dinode[i].type = "none" =>
    /\ EntriesOf(i) = {}
    /\ \A p \in UProcs : /\ opened[p] # Nil => inum(opened[p]) # i
                         /\ inum(cwd[p]) # i

\* What the cache holds of an inode is what is on disk, unless its lock is held.
CacheCoherent ==
  \A s \in Slots : icache[s].ref > 0 /\ icache[s].valid /\ free(s) =>
    dinode[inum(s)] = [type |-> icache[s].type, nlink |-> icache[s].nlink]

\* iget(), ilock(), iput() and iupdate() keep one counted, coherent copy of each inode in use.
InodeCacheExact == OneSlotPerInode /\ SlotRefExact /\ CacheCoherent

\* The slot whose lock a process needs next.
Wants(p) == LET m == my[p]
            IN CASE m.at = "iput" -> m.put
                 [] m.at = "link_bad" -> m.old
                 [] m.at \in {"namex", "open", "chdir", "link", "create_old", "create_link", "unlink_ip"} -> m.ip
                 [] m.at \in Creating \cup {"unlink", "link_dir"} -> m.dp
                 [] OTHER -> Nil

\* The processes of Q wait for each other.
Deadlocked(Q) == \A p \in Q : Wants(p) # Nil /\ lk[Wants(p)] \in Q

\* Directories are locked before what is in them: a deadlock always has a process in
\* iput(), which takes the lock of a directory again with that of an entry held.  Were it not
\* for iput(), the calls would lock in a fixed order.
OnlyIputDeadlocks ==
  \A Q \in SUBSET UProcs \ {{}} : Deadlocked(Q) => \E p \in Q : my[p].at = "iput"

\* Concurrent create(), link() and unlink() of the same name all return: no processes
\* wait for each other's inode locks.
NoFsDeadlock == \A Q \in SUBSET UProcs \ {{}} : ~Deadlocked(Q)

\* The last iput() of an inode that has no links frees it.
UnlinkedIsFreed ==
  \A i \in Inums : dinode[i].type # "none" /\ dinode[i].nlink = 0 =>
    \E s \in Slots : icache[s].ref > 0 /\ inum(s) = i

=============================================================================
