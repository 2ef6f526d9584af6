----------------------------- MODULE FileSystem -----------------------------
(***************************************************************************)
(* The inode and name layers of fs.c and the system calls of sysfile.c     *)
(* that work on names: open, create, mkdir, mknod, link, unlink, chdir and *)
(* close, run by concurrent processes.                                     *)
(*                                                                         *)
(* A process is the sequence of steps it still has to take, todo[p]; a     *)
(* step is a pair of a label and the local variable it works on.  A step   *)
(* ends where the code may block on the sleep-lock of an inode or where    *)
(* icache.lock is released, so every interleaving of the locked sections   *)
(* is a behaviour.  A local variable is None when the process owns no      *)
(* reference through it.                                                   *)
(*                                                                         *)
(* The content of a directory is a function from names to inode numbers    *)
(* (0: no entry); the bytes of files, and the blocks that hold them, are   *)
(* the subject of module FileData.                                         *)
(***************************************************************************)
EXTENDS Integers, Sequences, FiniteSets, FiniteSetsExt

CONSTANTS
  Proc,      \* the processes
  NINODES,   \* inodes on the disk (sb.ninodes - 1), numbered from 1
  NINODE,    \* entries of the inode cache
  Name,      \* the names in use, besides "." and ".."
  Calls,     \* the system calls each process makes
  None

ROOTINO == 1
Inum == 1 .. NINODES
Slot == 1 .. NINODE
Entry == Name \cup {".", ".."}
Type == {"free", "dir", "file", "dev"}
Local == {"ip", "dp", "prev", "old"}

NoEntries == [n \in Entry |-> 0]
FreeInode == [type |-> "free", nlink |-> 0, ents |-> NoEntries]
Unused == [ref |-> 0, inum |-> 0, valid |-> FALSE, type |-> "free", nlink |-> 0,
           lock |-> None]

VARIABLES
  dinode,  \* the inodes on the disk, through the log and the buffer cache
  icache,  \* the inode cache
  todo,    \* the steps each process has still to take
  call,    \* the call each process is in
  path,    \* what is left of the path a process walks
  local,   \* the inode pointers of each process
  cwd,     \* the current directory of each process
  fd,      \* the one open file of each process (NOFILE = 1)
  panic    \* None, or why the kernel stopped

vars == <<dinode, icache, todo, call, path, local, cwd, fd, panic>>

-----------------------------------------------------------------------------
(* The inode cache, as operators on its contents.                          *)

InUse(ic, inum) == {s \in Slot : ic[s].ref > 0 /\ ic[s].inum = inum}

\* dirlookup(): the inode number of the entry, 0 when there is none.
dirlookup(dir, name) == dinode[dir].ents[name]

\* The entry iget() returns: the one that caches inum, or the first free one.
IgetSlot(ic, inum) ==
  LET free == {s \in Slot : ic[s].ref = 0}
  IN  IF InUse(ic, inum) # {} THEN Min(InUse(ic, inum))
      ELSE IF free # {} THEN Min(free) ELSE None

iget(ic, inum) ==
  LET s == IgetSlot(ic, inum)
  IN  IF ic[s].ref > 0
      THEN [ic EXCEPT ![s].ref = @ + 1]
      ELSE [ic EXCEPT ![s] = [@ EXCEPT !.inum = inum, !.ref = 1, !.valid = FALSE]]

\* The cache entry s once ilock() has read the inode in.
Loaded(s) ==
  IF icache[s].valid THEN icache[s]
  ELSE LET d == dinode[icache[s].inum]
       IN  [icache[s] EXCEPT !.valid = TRUE, !.type = d.type, !.nlink = d.nlink]

\* iupdate(): the inode cache is written through to the disk.
iupdate(dn, e) == [dn EXCEPT ![e.inum].type = e.type, ![e.inum].nlink = e.nlink]

Unlocked(s) == icache[s].lock = None

-----------------------------------------------------------------------------
(* The steps of a process.                                                 *)

At(p, label, v) == panic = None /\ todo[p] # <<>> /\ Head(todo[p]) = <<label, v>>

\* The present step is done; the steps in s come before the remaining ones.
Goto(p, s) == todo' = [todo EXCEPT ![p] = s \o Tail(@)]

\* The rest of the call is given up; it finishes with the steps in s.
Abandon(p, s) == todo' = [todo EXCEPT ![p] = s \o << <<"end_op", "ip">> >>]

Panic(why) ==
  /\ panic' = why
  /\ UNCHANGED <<dinode, icache, todo, call, path, local, cwd, fd>>

Same == UNCHANGED <<call, cwd, fd, panic>>

\* ilock(): body runs with the inode of s locked and read in.
Ilock(s, body) ==
  /\ Unlocked(s)
  /\ IF Loaded(s).type = "free" THEN Panic("ilock: no type") ELSE body

\* The same, for a dirlookup() in the inode.
IlockDir(s, body) ==
  Ilock(s, IF Loaded(s).type # "dir" THEN Panic("dirlookup not DIR") ELSE body)

\* body runs when iget() finds an entry for inum.
Iget(ic, inum, body) ==
  IF IgetSlot(ic, inum) = None THEN Panic("iget: no inodes") ELSE body

iput(v) == << <<"iput", v>> >>
iunlockput(v) == << <<"iunlock", v>>, <<"iput", v>> >>

\* The steps of each system call.
Program(op) ==
  CASE op = "open"   -> << <<"namex", "ip">>, <<"open", "ip">>, <<"end_op", "ip">> >>
    [] op = "chdir"  -> << <<"namex", "ip">>, <<"chdir", "ip">>, <<"end_op", "ip">> >>
    [] op \in {"creat", "mkdir", "mknod"} ->
                        << <<"namex", "dp">>, <<"create", "dp">>, <<"end_op", "ip">> >>
    [] op = "unlink" -> << <<"namex", "dp">>, <<"unlink", "dp">>, <<"end_op", "ip">> >>
    [] op = "link"   -> << <<"namex", "ip">>, <<"link", "ip">>, <<"namex", "dp">>,
                           <<"dirlink", "dp">>, <<"end_op", "ip">> >>

\* Where namex() starts: iget() of the root, or idup() of the current directory
\* (which is the same as iget() of its number, as it is in the cache).
Start(p, ic, c) == IF c.abs THEN ROOTINO ELSE ic[cwd[p]].inum

\* A system call starts: begin_op(), and namex() takes its first reference, to
\* the root or to the current directory.
Syscall(p, c) ==
  /\ panic = None /\ todo[p] = <<>>
  /\ Iget(icache, Start(p, icache, c),
       /\ icache' = iget(icache, Start(p, icache, c))
       /\ local' = [local EXCEPT ![p][Program(c.op)[1][2]] = IgetSlot(icache, Start(p, icache, c))]
       /\ todo' = [todo EXCEPT ![p] = Program(c.op)]
       /\ call' = [call EXCEPT ![p] = c]
       /\ path' = [path EXCEPT ![p] = c.path]
       /\ UNCHANGED <<dinode, cwd, fd, panic>>)

\* fileclose() of an inode: begin_op(), iput(), end_op().
Close(p) ==
  /\ panic = None /\ todo[p] = <<>> /\ fd[p] # None
  /\ local' = [local EXCEPT ![p].ip = fd[p]]
  /\ fd' = [fd EXCEPT ![p] = None]
  /\ todo' = [todo EXCEPT ![p] = << <<"iput", "ip">>, <<"end_op", "ip">> >>]
  /\ UNCHANGED <<dinode, icache, call, path, cwd, panic>>

EndOp(p) ==
  /\ At(p, "end_op", "ip")
  /\ Goto(p, <<>>)
  /\ local' = [local EXCEPT ![p] = [v \in Local |-> None]]
  /\ path' = [path EXCEPT ![p] = <<>>]
  /\ call' = [call EXCEPT ![p] = None]
  /\ UNCHANGED <<dinode, icache, cwd, fd, panic>>

\* Mutant: sys_link() returns without "bad".
OnFailure_Forgets(p, v) ==
  <<>>

\* What a failing namex() leads to: in sys_link() a missing new parent goes to
\* "bad", which takes the link count back.
OnFailure(p, v) ==
  IF call[p].op = "link" /\ v = "dp" THEN << <<"bad", "old">> >> ELSE <<>>

\* One round of the loop of namex(), with the inode locked: fail, stop at the
\* parent, or move on to the entry.  dirlookup() takes the reference to the
\* next inode while the directory is locked; the old one is put after that.
Namex(p, v) ==
  /\ At(p, "namex", v)
  /\ LET s == local[p][v]
         e == Loaded(s)
         here == Head(path[p])
         inum == dirlookup(e.inum, here)
         locked == [icache EXCEPT ![s] = e]
         last == v = "dp" /\ Len(path[p]) = 1
     IN  \/ /\ path[p] = <<>>
            /\ IF v = "dp" THEN Abandon(p, iput(v) \o OnFailure(p, v)) ELSE Goto(p, <<>>)
            /\ UNCHANGED <<dinode, icache, path, local>> /\ Same
         \/ /\ path[p] # <<>>
            /\ Ilock(s,
                 \/ /\ e.type # "dir" \/ (~ last /\ inum = 0)
                    /\ icache' = locked
                    /\ Abandon(p, iput(v) \o OnFailure(p, v))
                    /\ UNCHANGED <<dinode, path, local>> /\ Same
                 \/ /\ e.type = "dir" /\ last
                    /\ icache' = locked
                    /\ Goto(p, <<>>)
                    /\ UNCHANGED <<dinode, path, local>> /\ Same
                 \/ /\ e.type = "dir" /\ ~ last /\ inum # 0
                    /\ Iget(locked, inum,
                         /\ icache' = iget(locked, inum)
                         /\ local' = [local EXCEPT ![p][v] = IgetSlot(locked, inum),
                                                   ![p].prev = s]
                         /\ path' = [path EXCEPT ![p] = Tail(@)]
                         /\ todo' = [todo EXCEPT ![p] = iput("prev") \o @]
                         /\ UNCHANGED dinode /\ Same))

-----------------------------------------------------------------------------
(* iput() and iunlock().                                                   *)

\* Mutant: the link count is not looked at.
IputTest_AnyLinks(p, v) ==
  /\ At(p, "iput", v)
  /\ LET s == local[p][v]
         e == icache[s]
     IN  /\ Unlocked(s)
         /\ IF e.valid /\ e.ref = 1
            THEN /\ icache' = [icache EXCEPT ![s].lock = p]
                 /\ Goto(p, << <<"ifree", v>>, <<"idrop", v>> >>)
            ELSE /\ Goto(p, << <<"idrop", v>> >>)
                 /\ UNCHANGED icache
  /\ UNCHANGED <<dinode, path, local>> /\ Same

\* acquiresleep(), and the test for the last reference to an unlinked inode.
IputTest(p, v) ==
  /\ At(p, "iput", v)
  /\ LET s == local[p][v]
         e == icache[s]
     IN  /\ Unlocked(s)
         /\ IF e.valid /\ e.nlink = 0 /\ e.ref = 1
            THEN /\ icache' = [icache EXCEPT ![s].lock = p]
                 /\ Goto(p, << <<"ifree", v>>, <<"idrop", v>> >>)
            ELSE /\ Goto(p, << <<"idrop", v>> >>)
                 /\ UNCHANGED icache
  /\ UNCHANGED <<dinode, path, local>> /\ Same

\* Mutant: a freed inode stays valid in the cache.
IputFree_KeepsValid(p, v) ==
  /\ At(p, "ifree", v)
  /\ LET s == local[p][v]
     IN  /\ dinode' = [dinode EXCEPT ![icache[s].inum] = FreeInode]
         /\ icache' = [icache EXCEPT ![s].type = "free", ![s].lock = None]
  /\ Goto(p, <<>>)
  /\ UNCHANGED <<path, local>> /\ Same

\* itrunc(), the inode free on the disk, and releasesleep().
IputFree(p, v) ==
  /\ At(p, "ifree", v)
  /\ LET s == local[p][v]
     IN  /\ dinode' = [dinode EXCEPT ![icache[s].inum] = FreeInode]
         /\ icache' = [icache EXCEPT ![s].type = "free", ![s].valid = FALSE,
                                     ![s].lock = None]
  /\ Goto(p, <<>>)
  /\ UNCHANGED <<path, local>> /\ Same

\* ip->ref-- under icache.lock.
IputDrop(p, v) ==
  /\ At(p, "idrop", v)
  /\ LET s == local[p][v]
     IN  icache' = [icache EXCEPT ![s] = IF @.ref = 1 THEN [Unused EXCEPT !.lock = icache[s].lock]
                                                        ELSE [@ EXCEPT !.ref = @ - 1]]
  /\ local' = [local EXCEPT ![p][v] = None]
  /\ Goto(p, <<>>)
  /\ UNCHANGED <<dinode, path>> /\ Same

Iunlock(p, v) ==
  /\ At(p, "iunlock", v)
  /\ icache' = [icache EXCEPT ![local[p][v]].lock = None]
  /\ Goto(p, <<>>)
  /\ UNCHANGED <<dinode, path, local>> /\ Same

-----------------------------------------------------------------------------
(* The system calls, after the path has been walked.                       *)

\* sys_open(): a directory is only opened for reading; then the descriptor, and
\* a descriptor table that is full gives the inode back.
Open(p) ==
  /\ At(p, "open", "ip")
  /\ LET s == local[p].ip
         e == Loaded(s)
     IN  Ilock(s,
           /\ icache' = [icache EXCEPT ![s] = e]
           /\ IF (e.type = "dir" /\ call[p].write) \/ fd[p] # None
              THEN Abandon(p, iput("ip")) /\ UNCHANGED <<local, fd>>
              ELSE /\ Goto(p, <<>>)
                   /\ fd' = [fd EXCEPT ![p] = s]
                   /\ local' = [local EXCEPT ![p].ip = None]
           /\ UNCHANGED <<dinode, path, call, cwd, panic>>)

\* sys_chdir(): the reference to the old directory is put before end_op(); the
\* process itself is the only one that reads its cwd.
Chdir(p) ==
  /\ At(p, "chdir", "ip")
  /\ LET s == local[p].ip
         e == Loaded(s)
     IN  Ilock(s,
           /\ icache' = [icache EXCEPT ![s] = e]
           /\ IF e.type # "dir"
              THEN Abandon(p, iput("ip")) /\ UNCHANGED <<local, cwd>>
              ELSE /\ Goto(p, iput("prev"))
                   /\ local' = [local EXCEPT ![p].ip = None, ![p].prev = cwd[p]]
                   /\ cwd' = [cwd EXCEPT ![p] = s]
           /\ UNCHANGED <<dinode, path, call, fd, panic>>)

\* sys_link(), first half: the count goes up before the entry is written, and
\* the walk to the new parent starts.
Link(p) ==
  /\ At(p, "link", "ip")
  /\ LET s == local[p].ip
         e == Loaded(s)
         up == [e EXCEPT !.nlink = @ + 1]
         ic == [icache EXCEPT ![s] = up]
         start == Start(p, ic, call[p])
     IN  Ilock(s,
           IF e.type = "dir"
           THEN /\ icache' = [icache EXCEPT ![s] = e]
                /\ Abandon(p, iput("ip"))
                /\ UNCHANGED <<dinode, path, local>> /\ Same
           ELSE Iget(ic, start,
                  /\ dinode' = iupdate(dinode, up)
                  /\ icache' = iget(ic, start)
                  /\ local' = [local EXCEPT ![p].ip = None, ![p].old = s,
                                            ![p].dp = IgetSlot(ic, start)]
                  /\ path' = [path EXCEPT ![p] = call[p].new]
                  /\ Goto(p, <<>>) /\ Same))

\* sys_link(), second half: dirlink() with the new parent locked.  When the name
\* exists, dirlink() puts the inode it found while dp is still locked.
Dirlink(p) ==
  /\ At(p, "dirlink", "dp")
  /\ LET s == local[p].dp
         e == Loaded(s)
         ic == [icache EXCEPT ![s] = [e EXCEPT !.lock = p]]
         name == path[p][1]
         inum == dirlookup(e.inum, name)
     IN  IlockDir(s,
           \/ /\ inum = 0
              /\ dinode' = [dinode EXCEPT ![e.inum].ents[name] = icache[local[p].old].inum]
              /\ icache' = [icache EXCEPT ![s] = e]
              /\ Goto(p, iput("dp") \o iput("old"))
              /\ UNCHANGED <<path, local>> /\ Same
           \/ /\ inum # 0
              /\ Iget(ic, inum,
                   /\ icache' = iget(ic, inum)
                   /\ local' = [local EXCEPT ![p].ip = IgetSlot(ic, inum)]
                   /\ Abandon(p, iput("ip") \o iunlockput("dp") \o << <<"bad", "old">> >>)
                   /\ UNCHANGED <<dinode, path>> /\ Same))

\* "bad:" of sys_link().
LinkBad(p) ==
  /\ At(p, "bad", "old")
  /\ LET s == local[p].old
         down == [Loaded(s) EXCEPT !.nlink = @ - 1]
     IN  Ilock(s,
           /\ icache' = [icache EXCEPT ![s] = down]
           /\ dinode' = iupdate(dinode, down)
           /\ Goto(p, iput("old"))
           /\ UNCHANGED <<path, local>> /\ Same)

\* sys_unlink() with dp locked, up to ilock(ip).
Unlink(p) ==
  /\ At(p, "unlink", "dp")
  /\ LET s == local[p].dp
         e == Loaded(s)
         ic == [icache EXCEPT ![s] = [e EXCEPT !.lock = p]]
         name == path[p][1]
         inum == dirlookup(e.inum, name)
     IN  IlockDir(s,
           \/ /\ name \in {".", ".."} \/ inum = 0
              /\ icache' = [icache EXCEPT ![s] = e]
              /\ Abandon(p, iput("dp"))
              /\ UNCHANGED <<dinode, path, local>> /\ Same
           \/ /\ name \notin {".", ".."} /\ inum # 0
              /\ Iget(ic, inum,
                   /\ icache' = iget(ic, inum)
                   /\ local' = [local EXCEPT ![p].ip = IgetSlot(ic, inum)]
                   /\ Goto(p, << <<"unlinked", "ip">> >>)
                   /\ UNCHANGED <<dinode, path>> /\ Same))

IsDirEmpty(inum) == \A n \in Name : dinode[inum].ents[n] = 0

\* sys_unlink() with dp and ip locked: the entry goes, the parent's count goes
\* down for "..", dp is put while ip stays locked, and only then does the count
\* of ip go down.
Unlinked(p) ==
  /\ At(p, "unlinked", "ip")
  /\ LET d == local[p].dp
         s == local[p].ip
         e == Loaded(s)
         ic == [icache EXCEPT ![s] = [e EXCEPT !.lock = p]]
         busy == e.type = "dir" /\ ~ IsDirEmpty(e.inum)
         dp == IF e.type = "dir" THEN [icache[d] EXCEPT !.nlink = @ - 1] ELSE icache[d]
     IN  Ilock(s,
           IF e.nlink < 1 THEN Panic("unlink: nlink < 1") ELSE
           \/ /\ busy
              /\ icache' = [icache EXCEPT ![s] = e]
              /\ Abandon(p, iput("ip") \o iunlockput("dp"))
              /\ UNCHANGED <<dinode, path, local>> /\ Same
           \/ /\ ~ busy
              /\ dinode' = iupdate([dinode EXCEPT ![dp.inum].ents[path[p][1]] = 0], dp)
              /\ icache' = [ic EXCEPT ![d] = [dp EXCEPT !.lock = None]]
              /\ Goto(p, iput("dp") \o << <<"nlink", "ip">> >>)
              /\ UNCHANGED <<path, local>> /\ Same)

\* ip->nlink--; iupdate(ip); iunlockput(ip).
UnlinkCount(p) ==
  /\ At(p, "nlink", "ip")
  /\ LET s == local[p].ip
         down == [icache[s] EXCEPT !.nlink = @ - 1]
     IN  /\ icache' = [icache EXCEPT ![s] = [down EXCEPT !.lock = None]]
         /\ dinode' = iupdate(dinode, down)
  /\ Goto(p, iput("ip"))
  /\ UNCHANGED <<path, local>> /\ Same

\* The type of the inode that create() is asked for.
TypeOf(op) == CASE op = "creat" -> "file" [] op = "mkdir" -> "dir" [] op = "mknod" -> "dev"

\* What the callers of create() do with the inode: sys_open() takes a descriptor
\* to it, sys_mkdir() and sys_mknod() put it.
Use(p) == IF call[p].op = "creat" THEN << <<"fdalloc", "ip">> >> ELSE iunlockput("ip")

\* ialloc() marks the first free inode allocated.
ialloc(inum, type) == [dinode EXCEPT ![inum] = [FreeInode EXCEPT !.type = type]]

\* create() with dp locked.  An existing inode is locked after dp has been put; a
\* new one is allocated on the disk (ialloc) and referenced while dp stays locked.
Create(p) ==
  /\ At(p, "create", "dp")
  /\ LET s == local[p].dp
         ic == [icache EXCEPT ![s] = Loaded(s)]
         inum == dirlookup(icache[s].inum, path[p][1])
         free == {i \in Inum : dinode[i].type = "free"}
         new == IF inum # 0 THEN inum ELSE Min(free)
     IN  IlockDir(s,
           IF inum = 0 /\ free = {} THEN Panic("ialloc: no inodes") ELSE
           Iget(ic, new,
             /\ local' = [local EXCEPT ![p].ip = IgetSlot(ic, new)]
             /\ \/ /\ inum # 0
                   /\ icache' = iget(ic, new)
                   /\ Goto(p, iput("dp") \o << <<"opened", "ip">> >>)
                   /\ UNCHANGED dinode
                \/ /\ inum = 0
                   /\ icache' = iget([ic EXCEPT ![s].lock = p], new)
                   /\ dinode' = ialloc(new, TypeOf(call[p].op))
                   /\ Goto(p, << <<"created", "ip">> >>)
             /\ UNCHANGED path /\ Same))

\* create() of a name that exists: only a file may be opened so.
Opened(p) ==
  /\ At(p, "opened", "ip")
  /\ LET s == local[p].ip
         e == Loaded(s)
     IN  Ilock(s,
           /\ IF call[p].op = "creat" /\ e.type = "file"
              THEN /\ icache' = [icache EXCEPT ![s] = [e EXCEPT !.lock = p]]
                   /\ Goto(p, Use(p))
              ELSE /\ icache' = [icache EXCEPT ![s] = e]
                   /\ Abandon(p, iput("ip"))
           /\ UNCHANGED <<dinode, path, local>> /\ Same)

\* create() with dp and the new inode locked: the counts, the entries "." and
\* ".." of a directory, and the entry in dp, which is then put.
Created(p) ==
  /\ At(p, "created", "ip")
  /\ LET d == local[p].dp
         s == local[p].ip
         e == [Loaded(s) EXCEPT !.nlink = 1, !.lock = p]
         dp == IF e.type = "dir" THEN [icache[d] EXCEPT !.nlink = @ + 1] ELSE icache[d]
         dots == IF e.type = "dir"
                 THEN [NoEntries EXCEPT !["."] = e.inum, ![".."] = dp.inum]
                 ELSE NoEntries
     IN  Ilock(s,
           /\ icache' = [icache EXCEPT ![s] = e, ![d] = [dp EXCEPT !.lock = None]]
           /\ dinode' = iupdate(iupdate(
                          [dinode EXCEPT ![e.inum].ents = dots,
                                         ![dp.inum].ents[path[p][1]] = e.inum], e), dp)
           /\ Goto(p, iput("dp") \o Use(p))
           /\ UNCHANGED <<path, local>> /\ Same)

\* sys_open() after create(): ip is locked.
Fdalloc(p) ==
  /\ At(p, "fdalloc", "ip")
  /\ LET s == local[p].ip
     IN  /\ icache' = [icache EXCEPT ![s].lock = None]
         /\ IF fd[p] # None
            THEN Abandon(p, iput("ip")) /\ UNCHANGED <<local, fd>>
            ELSE /\ Goto(p, <<>>)
                 /\ fd' = [fd EXCEPT ![p] = s]
                 /\ local' = [local EXCEPT ![p].ip = None]
  /\ UNCHANGED <<dinode, path, call, cwd, panic>>

-----------------------------------------------------------------------------
\* mkfs leaves the root directory, with "." and ".." of its own; a process
\* starts in it (userinit(): cwd = namei("/")).
Root == [type |-> "dir", nlink |-> 1,
         ents |-> [NoEntries EXCEPT !["."] = ROOTINO, ![".."] = ROOTINO]]

Init ==
  /\ dinode = [i \in Inum |-> IF i = ROOTINO THEN Root ELSE FreeInode]
  /\ icache = [s \in Slot |-> IF s = 1 THEN [Unused EXCEPT !.ref = Cardinality(Proc),
                                                           !.inum = ROOTINO]
                                       ELSE Unused]
  /\ todo = [p \in Proc |-> <<>>]
  /\ call = [p \in Proc |-> None]
  /\ path = [p \in Proc |-> <<>>]
  /\ local = [p \in Proc |-> [v \in Local |-> None]]
  /\ cwd = [p \in Proc |-> 1]
  /\ fd = [p \in Proc |-> None]
  /\ panic = None

\* What a process does inside a call.
Run(p) ==
  \/ \E v \in {"ip", "dp"} : Namex(p, v)
  \/ \E v \in Local : IputTest(p, v) \/ IputFree(p, v) \/ IputDrop(p, v)
  \/ \E v \in {"ip", "dp"} : Iunlock(p, v)
  \/ Open(p) \/ Chdir(p) \/ Link(p) \/ Dirlink(p) \/ LinkBad(p)
  \/ Unlink(p) \/ Unlinked(p) \/ UnlinkCount(p)
  \/ Create(p) \/ Opened(p) \/ Created(p) \/ Fdalloc(p) \/ EndOp(p)

Next == \E p \in Proc : Run(p) \/ Close(p) \/ \E c \in Calls[p] : Syscall(p, c)

Spec == Init /\ [][Next]_vars

-----------------------------------------------------------------------------
TypeOK ==
  /\ dinode \in [Inum -> [type : Type, nlink : 0 .. 9, ents : [Entry -> 0 .. NINODES]]]
  /\ icache \in [Slot -> [ref : 0 .. 9, inum : 0 .. NINODES, valid : BOOLEAN, type : Type,
                          nlink : 0 .. 9, lock : Proc \cup {None}]]
  /\ \A p \in Proc : call[p] \in Calls[p] \cup {None}
  /\ local \in [Proc -> [Local -> Slot \cup {None}]]
  /\ cwd \in [Proc -> Slot]
  /\ fd \in [Proc -> Slot \cup {None}]

\* The pointers to the cache entry s: local variables, current directories and
\* open files.
Pointers(s) ==
  {<<p, v>> \in Proc \X Local : local[p][v] = s}
    \cup {<<p, "cwd">> : p \in {q \in Proc : cwd[q] = s}}
    \cup {<<p, "fd">> : p \in {q \in Proc : fd[q] = s}}

\* ip->ref counts the in-memory pointers to the entry, whatever the path a call
\* takes through its errors: no reference is leaked, none is dropped twice.  A
\* sleep-lock belongs to a process that is inside a call and still has a pointer
\* to the inode: no error path returns with an inode locked.
RefExact ==
  /\ TypeOK
  /\ \A s \in Slot : icache[s].ref = Cardinality(Pointers(s))
  /\ \A s \in Slot, p \in Proc : icache[s].lock = p =>
       todo[p] # <<>> /\ \E v \in Local : local[p][v] = s

\* Two processes that work on an inode work on one cache entry, so its sleep-lock
\* serializes them, and a valid entry holds what the disk holds, also when iput()
\* frees the inode and ialloc() hands its number out again while the entry is
\* still referenced.  No check of fs.c and sysfile.c fails but the one for a disk
\* without a free inode: no freed inode is locked, no unlinked one is unlinked
\* again.
Coherent ==
  /\ \A i \in Inum : Cardinality(InUse(icache, i)) <= 1
  /\ \A s \in Slot : icache[s].ref > 0 /\ icache[s].valid =>
       /\ icache[s].type = dinode[icache[s].inum].type
       /\ icache[s].nlink = dinode[icache[s].inum].nlink
  /\ panic \in {None, "ialloc: no inodes"}

\* No call is open: the log may commit, and a crash leaves this state.
Quiet == \A p \in Proc : todo[p] = <<>>

\* The entries that refer to inode i in directories that are linked themselves.
Links(i) ==
  {<<d, n>> \in Inum \X (Entry \ {"."}) :
     dinode[d].type = "dir" /\ dinode[d].nlink > 0 /\ dinode[d].ents[n] = i}

\* What is committed has no dangling entry: an inode with links is allocated and
\* its count covers them, however creates, links and unlinks interleave.
LinksCovered ==
  Quiet => \A i \in Inum : Links(i) # {} =>
             dinode[i].type # "free" /\ dinode[i].nlink >= Cardinality(Links(i))

\* The link count of an inode is the number of its links when no call is open.
NlinkExact ==
  Quiet => \A i \in Inum : dinode[i].type # "free" =>
             dinode[i].nlink = Cardinality(Links(i))

\* Who holds the sleep-lock that p waits for.
BlockedBy(p) ==
  IF \/ todo[p] = <<>>
     \/ Head(todo[p])[1] \in {"ifree", "idrop", "iunlock", "nlink", "fdalloc", "end_op"}
     \/ Head(todo[p])[1] = "namex" /\ path[p] = <<>>
  THEN None
  ELSE icache[local[p][Head(todo[p])[2]]].lock

\* The processes never wait for each other's inode locks in a circle.
NoDeadlock == \A S \in SUBSET Proc \ {{}} : \E p \in S : BlockedBy(p) \notin S
=============================================================================
