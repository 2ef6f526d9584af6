------------------------------- MODULE Shell --------------------------------
(***************************************************************************)
(* The shell at work: init, sh and the programs it starts, on top of the   *)
(* descriptors and the file table of the kernel.                           *)
(*                                                                         *)
(*   src/xv6/sh.c, init.c, cat.c, echo.c   the programs                    *)
(*   src/kernel/src/file.rs       FileTable: alloc, dup, close             *)
(*   src/kernel/c/sysfile.c       dup, close, open, pipe on descriptors    *)
(*   src/kernel/c/proc.c          what fork, exit and wait do to them      *)
(*                                                                         *)
(* A system call is a step.  What a process has yet to do is the sequence  *)
(* todo[p] of such calls, and the shell's command tree unfolds into them.  *)
(* A pipe is the bounded stream that module Pipe is shown to implement, a  *)
(* file is its bytes.  A file structure is a place of the array behind the *)
(* file table, and a descriptor points to that place: close removes an     *)
(* entry from the array, which moves the entries behind it and leaves the  *)
(* bytes of the last one where they were.  Messages of the programs and    *)
(* the built-in cd are left out; one that reads the console gets end of    *)
(* file.                                                                   *)
(***************************************************************************)
EXTENDS ShellParser

CONSTANTS
  Lines,      \* what the user may enter
  FileName,   \* names of files
  NPROC,      \* processes: 1 is init
  NOFILE,     \* descriptors of a process
  NFILE,      \* places of the file table
  PIPECAP,    \* capacity of a pipe
  BUFSIZE,    \* of cat
  MaxLines    \* bound: lines entered

ASSUME ShellAssumption ==
  /\ {NPROC, NOFILE, NFILE, PIPECAP, BUFSIZE} \subseteq Nat \ {0} /\ MaxLines \in Nat
  /\ NOFILE > 3 /\ NPROC > 1 /\ NFILE > 1

VARIABLES
  kern,      \* the file table mem[1 .. len], the pipes; moved: a close moved
             \* an entry in use; panicked
  procs,     \* of each process: state, parent and descriptors
  todo,      \* the calls before each process
  disk,      \* bytes of the files that exist
  shown,     \* what the programs have written to the console
  entered,   \* lines entered so far
  expected   \* what these lines should have done

shVars == <<kern, procs, todo, disk, shown, entered, expected>>

Process == 1 .. NPROC
FD == 0 .. NOFILE - 1
PipeId == 1 .. NFILE
NoFile == [kind |-> "none", ref |-> 0, rw |-> {}, pipe |-> 0, name |-> <<>>, off |-> 0]
Unused == [state |-> "UNUSED", parent |-> 0, ofile |-> [d \in FD |-> 0]]
Absent == <<"absent">>

(* init: it opens the console as 0, 1 and 2 and starts a shell. *)
initMain == <<<<"console">>, <<"dup", 0>>, <<"dup", 0>>, <<"start">>>>

(* sh: it opens the console until it has three descriptors. *)
shMain == <<<<"console">>, <<"prompt">>>>

ShellInit ==
  /\ kern = [mem |-> [s \in 1 .. NFILE |-> NoFile], len |-> 0, moved |-> FALSE, panicked |-> FALSE,
             pipes |-> [x \in PipeId |-> [open |-> {}, bytes |-> <<>>]]]
  /\ procs = [p \in Process |-> IF p = 1 THEN [Unused EXCEPT !.state = "RUNNABLE"] ELSE Unused]
  /\ todo = [p \in Process |-> IF p = 1 THEN initMain ELSE <<>>]
  /\ disk = [x \in FileName |-> Absent]
  /\ shown = <<>> /\ entered = 0
  /\ expected = [out |-> <<>>, disk |-> disk, exact |-> TRUE]

-----------------------------------------------------------------------------
(* runcmd: the calls of a command.  A process that runs a program makes   *)
(* the calls of the program.                                              *)

Join(argv) ==
  FoldLeft(LAMBDA out, k : out \o argv[k] \o <<IF k < Len(argv) THEN " " ELSE "\n">>,
           <<>>, [k \in 1 .. Len(argv) - 1 |-> k + 1])

(* echo: printf writes every character by itself, *)
echo(argv) == [k \in 1 .. Len(Join(argv)) |-> <<"put", Join(argv)[k]>>]

(* and cat: its input, or the files it is given. *)
cat(argv) ==
  IF Len(argv) = 1 THEN <<<<"cat", 0>>>> ELSE [k \in 1 .. Len(argv) - 1 |-> <<"catfile", argv[k + 1]>>]

exec(argv) ==
  CASE argv # <<>> /\ argv[1] = <<"e">> -> echo(argv)
    [] argv # <<>> /\ argv[1] = <<"c">> -> cat(argv)
    [] OTHER -> <<>>

(* Mutation: the descriptor to be redirected stays open. *)
redirCalls_NoClose(cmd) == <<<<"open", cmd.file, cmd.fd>>>>

(* REDIR: open takes the lowest free descriptor, the one closed before.   *)
redirCalls(cmd) == <<<<"close", cmd.fd>>, <<"open", cmd.file, cmd.fd>>>>

RECURSIVE runcmd(_)
runcmd(cmd) ==
  CASE cmd.type = "panic" -> <<<<"exit">>>>
    [] cmd.type = "EXEC" -> exec(cmd.argv) \o <<<<"exit">>>>
    [] cmd.type = "REDIR" -> redirCalls(cmd) \o runcmd(cmd.cmd)
    [] cmd.type = "LIST" -> <<<<"fork", runcmd(cmd.left)>>, <<"wait">>>> \o runcmd(cmd.right)
    [] cmd.type = "PIPE" -> <<<<"pipe", runcmd(cmd.left), runcmd(cmd.right)>>, <<"exit">>>>
    [] cmd.type = "BACK" -> <<<<"fork", runcmd(cmd.cmd)>>, <<"exit">>>>

(* Mutation: the parent keeps the write end open until it exits. *)
pipeCalls_KeepsEnd(left, right, r, w) ==
  <<<<"fork", <<<<"close", 1>>, <<"dup", w>>, <<"close", r>>, <<"close", w>>>> \o left>>,
    <<"fork", <<<<"close", 0>>, <<"dup", r>>, <<"close", r>>, <<"close", w>>>> \o right>>,
    <<"close", r>>, <<"wait">>, <<"wait">>>>

(* PIPE, when it has the descriptors r and w. *)
pipeCalls(left, right, r, w) ==
  <<<<"fork", <<<<"close", 1>>, <<"dup", w>>, <<"close", r>>, <<"close", w>>>> \o left>>,
    <<"fork", <<<<"close", 0>>, <<"dup", r>>, <<"close", r>>, <<"close", w>>>> \o right>>,
    <<"close", r>>, <<"close", w>>, <<"wait">>, <<"wait">>>>

-----------------------------------------------------------------------------
(* The file table and the descriptors.                                    *)

(* FileTable::alloc: a new entry at the end, *)
filealloc(k, f) == [k EXCEPT !.len = @ + 1, !.mem[k.len + 1] = [f EXCEPT !.ref = 1]]

(* Mutation: the child's descriptors are not counted. *)
filedup_Forgets(k, s) == k

filedup(k, s) ==
  IF k.mem[s].ref < 1 THEN [k EXCEPT !.panicked = TRUE] ELSE [k EXCEPT !.mem[s].ref = @ + 1]

(* pipeclose, when the file was the end of a pipe, *)
pipeclose(pipes, f) ==
  IF f.kind # "pipe" THEN pipes
  ELSE LET open == pipes[f.pipe].open \ f.rw
       IN  [pipes EXCEPT ![f.pipe] = [open |-> open, bytes |-> IF open = {} THEN <<>> ELSE @.bytes]]

(* and close: the last reference removes the first entry that is equal to *)
(* the file, and the ones behind it move up.                              *)
fileclose(k, s) ==
  LET f == [k.mem[s] EXCEPT !.ref = @ - 1]
      mem == [k.mem EXCEPT ![s] = f]
      equal == {x \in 1 .. k.len : mem[x] = f}
      at == Min(equal)
  IN  IF f.ref < 0 \/ (f.ref = 0 /\ equal = {}) THEN [k EXCEPT !.panicked = TRUE]
      ELSE IF f.ref > 0 THEN [k EXCEPT !.mem = mem]
      ELSE [k EXCEPT !.mem = [x \in DOMAIN mem |-> IF at <= x /\ x < k.len THEN mem[x + 1] ELSE mem[x]],
                     !.len = @ - 1,
                     !.pipes = pipeclose(@, f),
                     !.moved = @ \/ at < k.len]

Open(p) == {d \in FD : procs[p].ofile[d] # 0}

(* fdalloc: the lowest free descriptor, or -1. *)
fdalloc(p) == IF FD \ Open(p) = {} THEN -1 ELSE Min(FD \ Open(p))

(* The file behind a descriptor, NoFile if there is none (argfd). *)
FileOf(p, d) == IF d \in Open(p) THEN kern.mem[procs[p].ofile[d]] ELSE NoFile

Begins(p, call) ==
  ~kern.panicked /\ procs[p].state = "RUNNABLE" /\ todo[p] # <<>> /\ Head(todo[p])[1] = call
Arg(p) == Head(todo[p])[2]
Then(p, calls) == todo' = [todo EXCEPT ![p] = calls]
Rest(p) == Tail(todo[p])

sys_close(p) ==
  /\ Begins(p, "close")
  /\ IF Arg(p) \in Open(p)
       THEN /\ kern' = fileclose(kern, procs[p].ofile[Arg(p)])
            /\ procs' = [procs EXCEPT ![p].ofile[Arg(p)] = 0]
       ELSE UNCHANGED <<kern, procs>>
  /\ Then(p, Rest(p))
  /\ UNCHANGED <<disk, shown, entered, expected>>

sys_dup(p) ==
  /\ Begins(p, "dup")
  /\ IF Arg(p) \in Open(p) /\ fdalloc(p) # -1
       THEN /\ kern' = filedup(kern, procs[p].ofile[Arg(p)])
            /\ procs' = [procs EXCEPT ![p].ofile[fdalloc(p)] = procs[p].ofile[Arg(p)]]
       ELSE UNCHANGED <<kern, procs>>
  /\ Then(p, Rest(p))
  /\ UNCHANGED <<disk, shown, entered, expected>>

(* sys_open, when the file is there: it panics when the table is full; a  *)
(* process without a free descriptor gives the entry back.                *)
Opened(p, f) ==
  IF kern.len = NFILE THEN kern' = [kern EXCEPT !.panicked = TRUE] /\ UNCHANGED procs
  ELSE LET k == filealloc(kern, f)
       IN  IF fdalloc(p) = -1 THEN kern' = fileclose(k, k.len) /\ UNCHANGED procs
           ELSE kern' = k /\ procs' = [procs EXCEPT ![p].ofile[fdalloc(p)] = k.len]

(* init and sh open the console; sh goes on until it gets a fourth        *)
(* descriptor, which it closes.                                           *)
OpenConsole(p) ==
  /\ Begins(p, "console")
  /\ Opened(p, [NoFile EXCEPT !.kind = "cons", !.rw = {"r", "w"}])
  /\ Then(p, IF p = 1 THEN Rest(p)
             ELSE IF fdalloc(p) = 3 THEN <<<<"close", 3>>>> \o Rest(p)
             ELSE todo[p])
  /\ UNCHANGED <<disk, shown, entered, expected>>

(* open in a redirection and in cat.  O_CREATE makes a file that is not   *)
(* there; a shell that cannot open the file exits.                        *)
sys_open(p) ==
  /\ Begins(p, "open") \/ Begins(p, "catfile")
  /\ LET name == Arg(p)
         write == Begins(p, "open") /\ Head(todo[p])[3] = 1
         there == name \in FileName /\ (write \/ disk[name] # Absent)
     IN  /\ IF there
              THEN /\ Opened(p, [NoFile EXCEPT !.kind = "file", !.name = name,
                                               !.rw = IF write THEN {"w"} ELSE {"r"}])
                   /\ disk' = [disk EXCEPT ![name] = IF @ = Absent THEN <<>> ELSE @]
              ELSE UNCHANGED <<kern, procs, disk>>
         /\ Then(p, IF ~there \/ fdalloc(p) = -1 THEN <<<<"exit">>>>
                    ELSE IF Begins(p, "catfile")
                      THEN <<<<"cat", fdalloc(p)>>, <<"close", fdalloc(p)>>>> \o Rest(p)
                    ELSE Rest(p))
  /\ UNCHANGED <<shown, entered, expected>>

(* sys_pipe: two entries and two descriptors; the shell exits without.    *)
sys_pipe(p) ==
  /\ Begins(p, "pipe")
  /\ LET x == Min({y \in PipeId : kern.pipes[y].open = {}})
         End(e) == [NoFile EXCEPT !.kind = "pipe", !.pipe = x, !.rw = {e}]
         k == [filealloc(filealloc(kern, End("r")), End("w")) EXCEPT
                 !.pipes[x] = [open |-> {"r", "w"}, bytes |-> <<>>]]
         free == FD \ Open(p)
         r == Min(free)
         w == Min(free \ {r})
     IN  IF kern.len + 2 > NFILE
           THEN kern' = [kern EXCEPT !.panicked = TRUE] /\ UNCHANGED <<procs, todo>>
         ELSE IF Cardinality(free) < 2
           THEN /\ kern' = fileclose(fileclose(k, k.len - 1), k.len)
                /\ Then(p, <<<<"exit">>>>) /\ UNCHANGED procs
         ELSE /\ kern' = k
              /\ procs' = [procs EXCEPT ![p].ofile[r] = k.len - 1, ![p].ofile[w] = k.len]
              /\ Then(p, pipeCalls(Arg(p), Head(todo[p])[3], r, w) \o Rest(p))
  /\ UNCHANGED <<disk, shown, entered, expected>>

-----------------------------------------------------------------------------
(* write and read.                                                        *)

Overwrite(old, off, bytes) ==
  SubSeq(old, 1, off) \o bytes \o SubSeq(old, off + Len(bytes) + 1, Len(old))

(* printf, a character at a time, which does not look at the result, and  *)
(* cat, which exits when it cannot write.  A write to a pipe goes on when *)
(* there is room again; it fails when the pipe is full and has no reader. *)
sys_write(p) ==
  /\ Begins(p, "put") \/ Begins(p, "copy")
  /\ LET f == FileOf(p, 1)
         s == procs[p].ofile[1]
         bytes == IF Begins(p, "put") THEN <<Arg(p)>> ELSE Arg(p)
         q == kern.pipes[f.pipe]
         k == Min({PIPECAP - Len(q.bytes), Len(bytes)})
     IN  \/ /\ f.kind = "cons"
            /\ shown' = shown \o bytes
            /\ Then(p, Rest(p)) /\ UNCHANGED <<kern, disk>>
         \/ /\ f.kind = "file" /\ "w" \in f.rw
            /\ disk' = [disk EXCEPT ![f.name] = Overwrite(@, f.off, bytes)]
            /\ kern' = [kern EXCEPT !.mem[s].off = @ + Len(bytes)]
            /\ Then(p, Rest(p)) /\ UNCHANGED shown
         \/ /\ f.kind = "pipe" /\ "w" \in f.rw /\ k > 0
            /\ kern' = [kern EXCEPT !.pipes[f.pipe].bytes = @ \o SubSeq(bytes, 1, k)]
            /\ Then(p, IF k = Len(bytes) THEN Rest(p)
                       ELSE <<<<"copy", SubSeq(bytes, k + 1, Len(bytes))>>>> \o Rest(p))
            /\ UNCHANGED <<disk, shown>>
         \/ /\ "w" \notin f.rw \/ (f.kind = "pipe" /\ k = 0 /\ "r" \notin q.open)
            /\ Then(p, IF Begins(p, "put") THEN Rest(p) ELSE <<<<"exit">>>>)
            /\ UNCHANGED <<kern, disk, shown>>
  /\ UNCHANGED <<procs, entered, expected>>

(* The read of cat.  It waits on an empty pipe that has a writer. *)
sys_read(p) ==
  /\ Begins(p, "cat")
  /\ LET f == FileOf(p, Arg(p))
         s == procs[p].ofile[Arg(p)]
         q == kern.pipes[f.pipe]
         there == CASE f.kind = "pipe" -> q.bytes
                    [] f.kind = "file" -> SubSeq(disk[f.name], f.off + 1, Len(disk[f.name]))
                    [] OTHER -> <<>>
         k == Min({BUFSIZE, Len(there)})
     IN  \/ /\ "r" \in f.rw /\ k > 0
            /\ kern' = IF f.kind = "pipe"
                         THEN [kern EXCEPT !.pipes[f.pipe].bytes = SubSeq(@, k + 1, Len(@))]
                         ELSE [kern EXCEPT !.mem[s].off = @ + k]
            /\ Then(p, <<<<"copy", SubSeq(there, 1, k)>>>> \o todo[p])
         \/ /\ "r" \notin f.rw \/ (k = 0 /\ (f.kind = "pipe" => "w" \notin q.open))
            /\ Then(p, IF "r" \in f.rw THEN Rest(p) ELSE <<<<"exit">>>>) /\ UNCHANGED kern
  /\ UNCHANGED <<procs, disk, shown, entered, expected>>

-----------------------------------------------------------------------------
(* Processes.                                                             *)

(* fork in sh and init: the child gets a reference to every open file.    *)
(* Without a free process fork1 exits; when init does, the kernel panics. *)
Forks(p, q, calls, then) ==
  /\ kern' = FoldLeft(LAMBDA k, d : IF d - 1 \in Open(p) THEN filedup(k, procs[p].ofile[d - 1]) ELSE k,
                      kern, [d \in 1 .. NOFILE |-> d])
  /\ procs' = [procs EXCEPT ![q] = [state |-> "RUNNABLE", parent |-> p, ofile |-> procs[p].ofile]]
  /\ todo' = [todo EXCEPT ![p] = then, ![q] = calls]

sys_fork(p) ==
  /\ Begins(p, "fork") \/ Begins(p, "start")
  /\ LET free == {q \in Process : procs[q].state = "UNUSED"}
         q == Min(free)
     IN  IF free # {}
           THEN IF Begins(p, "start") THEN Forks(p, q, shMain, <<<<"reap", q>>>>)
                                      ELSE Forks(p, q, Arg(p), Rest(p))
           ELSE /\ Then(p, <<<<"exit">>>>)
                /\ kern' = [kern EXCEPT !.panicked = (p = 1)]
                /\ UNCHANGED procs
  /\ UNCHANGED <<disk, shown, entered, expected>>

(* exit: it closes the descriptors, one after the other; then the parent  *)
(* is woken and init gets the children.                                   *)
sys_exit(p) ==
  /\ Begins(p, "exit")
  /\ IF Open(p) # {}
       THEN LET d == Min(Open(p)) IN
            /\ kern' = fileclose(kern, procs[p].ofile[d])
            /\ procs' = [procs EXCEPT ![p].ofile[d] = 0]
            /\ UNCHANGED todo
       ELSE /\ procs' = [q \in Process |->
                  IF q = p THEN [procs[q] EXCEPT !.state = "ZOMBIE"]
                  ELSE IF procs[q].parent = p THEN [procs[q] EXCEPT !.parent = 1] ELSE procs[q]]
            /\ Then(p, <<>>)
            /\ UNCHANGED kern
  /\ UNCHANGED <<disk, shown, entered, expected>>

Children(p) == {q \in Process : procs[q].parent = p}
Zombies(p) == {q \in Children(p) : procs[q].state = "ZOMBIE"}

(* wait: the first child that has exited, or -1 without children.  init   *)
(* goes on until it is its shell and starts another one.                  *)
sys_wait(p) ==
  /\ Begins(p, "wait") \/ Begins(p, "reap")
  /\ Zombies(p) # {} \/ Children(p) = {}
  /\ LET q == Min(Zombies(p)) IN
     /\ procs' = IF Children(p) = {} THEN procs ELSE [procs EXCEPT ![q] = Unused]
     /\ Then(p, IF Begins(p, "wait") THEN Rest(p)
                ELSE IF Children(p) = {} \/ q = Arg(p) THEN <<<<"start">>>>
                ELSE todo[p])
  /\ UNCHANGED <<kern, disk, shown, entered, expected>>

-----------------------------------------------------------------------------
(* What a line should do: the bytes that a command writes, what it leaves *)
(* of its input, and the files after it, if its parts ran one after the   *)
(* other.                                                                 *)
RECURSIVE Meaning(_, _, _)
Meaning(cmd, in, d) ==
  LET Does(out, rest, files) == [out |-> out, rest |-> rest, disk |-> files]
      Found(argv, k) == \A i \in 2 .. k : argv[i] \in FileName /\ d[argv[i]] # Absent
      ofCat(argv) == FoldLeft(LAMBDA out, k : IF Found(argv, k) THEN out \o d[argv[k]] ELSE out,
                              <<>>, [k \in 1 .. Len(argv) - 1 |-> k + 1])
  IN
  CASE cmd.type = "EXEC" /\ cmd.argv # <<>> /\ cmd.argv[1] = <<"e">> ->
         Does(Join(cmd.argv), in, d)
    [] cmd.type = "EXEC" /\ cmd.argv # <<>> /\ cmd.argv[1] = <<"c">> ->
         IF Len(cmd.argv) = 1 THEN Does(in, <<>>, d) ELSE Does(ofCat(cmd.argv), in, d)
    [] cmd.type = "REDIR" /\ cmd.fd = 0 ->
         IF d[cmd.file] = Absent THEN Does(<<>>, in, d)
         ELSE LET r == Meaning(cmd.cmd, d[cmd.file], d) IN Does(r.out, in, r.disk)
    [] cmd.type = "REDIR" /\ cmd.fd = 1 ->
         LET made == [d EXCEPT ![cmd.file] = IF @ = Absent THEN <<>> ELSE @]
             r == Meaning(cmd.cmd, in, made)
         IN  Does(<<>>, r.rest, [r.disk EXCEPT ![cmd.file] = Overwrite(@, 0, r.out)])
    [] cmd.type = "LIST" ->
         LET l == Meaning(cmd.left, in, d)
             r == Meaning(cmd.right, l.rest, l.disk)
         IN  Does(l.out \o r.out, r.rest, r.disk)
    [] cmd.type = "PIPE" ->
         LET l == Meaning(cmd.left, in, d)
             r == Meaning(cmd.right, l.out, l.disk)
         IN  Does(r.out, l.rest, r.disk)
    [] cmd.type = "BACK" -> Meaning(cmd.cmd, in, d)
    [] OTHER -> Does(<<>>, in, d)

(* A command that is left running makes the order open. *)
RECURSIVE Waits(_)
Waits(cmd) ==
  CASE cmd.type = "BACK" -> FALSE
    [] cmd.type \in {"PIPE", "LIST"} -> Waits(cmd.left) /\ Waits(cmd.right)
    [] cmd.type = "REDIR" -> Waits(cmd.cmd)
    [] OTHER -> TRUE

-----------------------------------------------------------------------------
(* The loop of sh: a line, or end of file. *)
Expects(m, cmd) ==
  expected' = [out |-> expected.out \o m.out, disk |-> m.disk, exact |-> expected.exact /\ Waits(cmd)]

RunLine(p, cmd) ==
  /\ Then(p, <<<<"fork", runcmd(cmd)>>, <<"wait">>>> \o todo[p])
  /\ Expects(Meaning(cmd, <<>>, expected.disk), cmd)

getcmd(p, line) ==
  /\ Begins(p, "prompt") /\ entered < MaxLines
  /\ RunLine(p, parsecmd(line))
  /\ entered' = entered + 1
  /\ UNCHANGED <<kern, procs, disk, shown>>

EndOfInput(p) ==
  /\ Begins(p, "prompt") /\ entered < MaxLines
  /\ Then(p, <<<<"exit">>>>)
  /\ entered' = entered + 1
  /\ UNCHANGED <<kern, procs, disk, shown, expected>>

ShellStep(p) ==
  \/ OpenConsole(p) \/ sys_open(p) \/ sys_close(p) \/ sys_dup(p) \/ sys_pipe(p)
  \/ sys_write(p) \/ sys_read(p) \/ sys_fork(p) \/ sys_exit(p) \/ sys_wait(p)

ShellNext ==
  \E p \in Process :
    ShellStep(p) \/ EndOfInput(p) \/ \E line \in Lines : getcmd(p, line)

ShellSpec == ShellInit /\ [][ShellNext]_shVars

-----------------------------------------------------------------------------
Sound == ~kern.moved /\ ~kern.panicked

(* Every file structure counts exactly the descriptors that point to it,  *)
(* over fork, dup, close and exit in any order, and a pipe's end is open  *)
(* as long as somebody has it open and no longer: else a reader would     *)
(* wait for ever, or miss what is still to come.  (As long as no close    *)
(* has moved an entry that is in use.)                                    *)
FilesExact ==
  Sound =>
    /\ \A s \in 1 .. NFILE :
         LET users == {<<p, d>> \in Process \X FD : procs[p].ofile[d] = s}
         IN  IF s <= kern.len THEN kern.mem[s].ref = Cardinality(users) /\ users # {}
             ELSE users = {}
    /\ \A x \in PipeId :
         kern.pipes[x].open =
           UNION {kern.mem[s].rw : s \in {t \in 1 .. kern.len : kern.mem[t].pipe = x}}

(* The shell waits for the user, and all it has started is gone. *)
AtPrompt == \E p \in Process : procs[p].state = "RUNNABLE" /\ todo[p] = <<<<"prompt">>>>
Quiet == AtPrompt /\ Cardinality({p \in Process : procs[p].state # "UNUSED"}) = 2

(* No command ever hangs: some process can go on until the shell is at    *)
(* its prompt again and all processes have been reaped, also when the     *)
(* writer of a pipeline ends before its reader, when there is no process  *)
(* left for fork, and when the shell is restarted.  (A reader that ends   *)
(* first moves entries of the file table, and the state is not Sound.)    *)
NobodyStuck ==
  Sound /\ ~Quiet => \E p \in Process : ENABLED ShellStep(p)

(* When the shell is back at its prompt, the console shows and the files  *)
(* hold exactly what the lines mean, read as a user would: the processes  *)
(* that run them at the same time, the order in which they fork, close    *)
(* and exit, and the size of the pipe make no difference.                 *)
OutputRight ==
  Sound /\ Quiet /\ expected.exact => shown = expected.out /\ disk = expected.disk

(* "Close file f.  (Decrement ref count, close when reaches 0.)" *)
CloseWorks == ~kern.panicked
=============================================================================
