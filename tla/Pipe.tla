-------------------------------- MODULE Pipe --------------------------------
(***************************************************************************)
(* A pipe shared by processes, from pipe() to the close of its last end.   *)
(*                                                                         *)
(*   src/kernel/src/pipe.rs   pipealloc, pipeclose, pipewrite, piperead    *)
(*   src/kernel/c/proc.c      sleep, wakeup, kill                          *)
(*                                                                         *)
(* The bytes of a call are copied one per step; the lock of the pipe keeps *)
(* other calls out meanwhile, but not kill, which takes only ptable.lock.  *)
(* sleep takes ptable.lock before it gives the pipe's lock back (module    *)
(* SleepLock), so it is one step.  nread and nwrite are 32-bit counters    *)
(* that wrap; here they wrap at Wrap.                                      *)
(***************************************************************************)
EXTENDS Naturals, Sequences

CONSTANTS
  Proc,      \* processes that share the pipe
  Killable,  \* those that may be killed
  Val,       \* bytes
  MaxN,      \* largest byte count of a call
  PIPESIZE,  \* capacity of the ring
  Wrap,      \* 2^32: a multiple of PIPESIZE
  None

ASSUME PipeAssumption ==
  /\ PIPESIZE \in Nat \ {0} /\ Wrap \in Nat /\ Wrap > PIPESIZE /\ Wrap % PIPESIZE = 0
  /\ MaxN \in Nat /\ Killable \subseteq Proc /\ None \notin Proc \cup Val /\ Val # {}

VARIABLES
  alloc,                \* the page of the pipe is in use
  lock,                 \* holder of Pipe.lock
  data, nread, nwrite,  \* the ring and its counters
  readopen, writeopen,
  fds,                  \* the ends a process has open
  pc, n, i,             \* a process; bytes asked for; bytes done
  killed,
  delivered,            \* byte the last step copied to a reader
  unwoken               \* a writer has returned -1 since readers were last woken

ring == <<data, nread, nwrite>>
ends == <<readopen, writeopen>>
vars == <<alloc, lock, ring, ends, fds, pc, n, i, killed, delivered, unwoken>>

ReadLocations  == {"read", "readwait", "readsleep", "rasleep", "rrelock", "copy"}
WriteLocations == {"write", "put", "writesleep", "wasleep", "wrelock"}
CloseLocations == {"closer", "closew", "kfree"}

TypeOK ==
  /\ alloc \in BOOLEAN /\ lock \in Proc \cup {None}
  /\ data \in [0..PIPESIZE - 1 -> Val] /\ nread \in 0..Wrap - 1 /\ nwrite \in 0..Wrap - 1
  /\ readopen \in BOOLEAN /\ writeopen \in BOOLEAN
  /\ fds \in [Proc -> SUBSET {"r", "w"}]
  /\ pc \in [Proc -> {"user"} \cup ReadLocations \cup WriteLocations \cup CloseLocations]
  /\ n \in [Proc -> 0..MaxN] /\ i \in [Proc -> 0..MaxN]
  /\ killed \in [Proc -> BOOLEAN]
  /\ delivered \in Val \cup {None} /\ unwoken \in BOOLEAN

(* What kfree fills a page with. *)
Junk == [k \in 0..PIPESIZE - 1 |-> CHOOSE v \in Val : TRUE]

Init ==
  /\ alloc = FALSE /\ lock = None
  /\ data = Junk /\ nread = 0 /\ nwrite = 0
  /\ readopen = FALSE /\ writeopen = FALSE
  /\ fds = [p \in Proc |-> {}]
  /\ pc = [p \in Proc |-> "user"]
  /\ n = [p \in Proc |-> 0] /\ i = [p \in Proc |-> 0]
  /\ killed = [p \in Proc |-> FALSE]
  /\ delivered = None /\ unwoken = FALSE

-----------------------------------------------------------------------------
Goto(p, from, to) == pc[p] = from /\ pc' = [pc EXCEPT ![p] = to]

(* acquire(&p->lock), entering at loc. *)
Lock(p, from, loc) == lock = None /\ lock' = p /\ Goto(p, from, loc)

(* wakeup(&nread) or wakeup(&nwrite), as p goes on to loc. *)
Wake(p, asleep, relock, loc) ==
  pc' = [q \in Proc |-> IF q = p THEN loc ELSE IF pc[q] = asleep THEN relock ELSE pc[q]]

(* Mutation: nobody is woken. *)
WakeWriters_None(p, loc) == pc' = [pc EXCEPT ![p] = loc]

WakeReaders(p, loc) == Wake(p, "rasleep", "rrelock", loc)
WakeWriters(p, loc) == Wake(p, "wasleep", "wrelock", loc)

(* The call returns: its lock is given back, its locals are gone. *)
Return(p) ==
  /\ lock' = None
  /\ n' = [n EXCEPT ![p] = 0] /\ i' = [i EXCEPT ![p] = 0]

(* Mutation: room for one byte too many. *)
Full_OffByOne == nwrite = (nread + PIPESIZE + 1) % Wrap

Inc(k) == (k + 1) % Wrap
Empty == nread = nwrite
Full  == nwrite = (nread + PIPESIZE) % Wrap

-----------------------------------------------------------------------------
(* pipealloc, for a process that gets both ends. *)
Pipealloc(p) ==
  /\ ~alloc /\ pc[p] = "user" /\ ~killed[p]
  /\ alloc' = TRUE /\ readopen' = TRUE /\ writeopen' = TRUE
  /\ nread' = 0 /\ nwrite' = 0 /\ lock' = None
  /\ fds' = [fds EXCEPT ![p] = {"r", "w"}]
  /\ delivered' = None
  /\ unwoken' = FALSE
  /\ UNCHANGED <<data, pc, n, i, killed>>

(* fork: the child's descriptors are those of the parent. *)
Fork(p, q) ==
  /\ pc[p] = "user" /\ ~killed[p] /\ pc[q] = "user" /\ ~killed[q] /\ fds[q] = {}
  /\ fds' = [fds EXCEPT ![q] = fds[p]]
  /\ delivered' = None
  /\ UNCHANGED <<alloc, lock, ring, ends, pc, n, i, killed, unwoken>>

(* Mutation: every close of an end calls pipeclose. *)
Fileclose_NotLast(p, e) ==
  /\ pc[p] = "user" /\ e \in fds[p]
  /\ fds' = [fds EXCEPT ![p] = @ \ {e}]
  /\ Goto(p, "user", IF e = "w" THEN "closew" ELSE "closer")
  /\ delivered' = None
  /\ UNCHANGED <<alloc, lock, ring, ends, n, i, killed, unwoken>>

(* fileclose: the last close of an end calls pipeclose. *)
Fileclose(p, e) ==
  /\ pc[p] = "user" /\ e \in fds[p]
  /\ fds' = [fds EXCEPT ![p] = @ \ {e}]
  /\ IF \E q \in Proc \ {p} : e \in fds[q] THEN UNCHANGED pc
     ELSE Goto(p, "user", IF e = "w" THEN "closew" ELSE "closer")
  /\ delivered' = None
  /\ UNCHANGED <<alloc, lock, ring, ends, n, i, killed, unwoken>>

(* pipeclose: its critical section ... *)
Pipeclose(p) ==
  /\ lock = None
  /\ \/ /\ pc[p] = "closew"
        /\ writeopen' = FALSE /\ UNCHANGED readopen
        /\ WakeReaders(p, IF readopen THEN "user" ELSE "kfree") /\ unwoken' = FALSE
     \/ /\ pc[p] = "closer"
        /\ readopen' = FALSE /\ UNCHANGED writeopen
        /\ WakeWriters(p, IF writeopen THEN "user" ELSE "kfree") /\ UNCHANGED unwoken
  /\ delivered' = None
  /\ UNCHANGED <<alloc, lock, ring, fds, n, i, killed>>

(* ... and the kfree that follows it when both ends are closed.  It fills *)
(* the page; what the counters become does not matter any more.           *)
Kfree(p) ==
  /\ Goto(p, "kfree", "user")
  /\ alloc' = FALSE
  /\ data' = Junk /\ nread' = 0 /\ nwrite' = 0
  /\ delivered' = None
  /\ UNCHANGED <<lock, ends, fds, n, i, killed, unwoken>>

-----------------------------------------------------------------------------
(* read and write on a descriptor reach piperead and pipewrite. *)
Call(p, e, k) ==
  /\ pc[p] = "user" /\ ~killed[p] /\ e \in fds[p]
  /\ pc' = [pc EXCEPT ![p] = IF e = "r" THEN "read" ELSE "write"]
  /\ n' = [n EXCEPT ![p] = k]
  /\ delivered' = None
  /\ UNCHANGED <<alloc, lock, ring, ends, fds, i, killed, unwoken>>

(* Mutation: if instead of while around piperead's sleep. *)
LockCall_NoTest(p) ==
  /\ \/ Lock(p, "read", "readwait") \/ Lock(p, "rrelock", "copy")
     \/ Lock(p, "write", "put") \/ Lock(p, "wrelock", "put")
  /\ delivered' = None
  /\ UNCHANGED <<alloc, ring, ends, fds, n, i, killed, unwoken>>

LockCall(p) ==
  /\ \/ Lock(p, "read", "readwait") \/ Lock(p, "rrelock", "readwait")
     \/ Lock(p, "write", "put") \/ Lock(p, "wrelock", "put")
  /\ delivered' = None
  /\ UNCHANGED <<alloc, ring, ends, fds, n, i, killed, unwoken>>

(* pipewrite, one turn of its loop: *)
Pipewrite(p, v) ==
  /\ pc[p] = "put"
  /\ \/ /\ i[p] < n[p] /\ Full
        /\ IF ~readopen \/ killed[p]
             THEN Goto(p, "put", "user") /\ Return(p) /\ unwoken' = TRUE
             ELSE WakeReaders(p, "writesleep") /\ unwoken' = FALSE /\ UNCHANGED <<lock, n, i>>
        /\ UNCHANGED ring
     \/ /\ i[p] < n[p] /\ ~Full
        /\ data' = [data EXCEPT ![nwrite % PIPESIZE] = v]
        /\ nwrite' = Inc(nwrite)
        /\ i' = [i EXCEPT ![p] = @ + 1]
        /\ UNCHANGED <<lock, nread, pc, n, unwoken>>
     \/ /\ i[p] = n[p]
        /\ WakeReaders(p, "user") /\ Return(p) /\ unwoken' = FALSE
        /\ UNCHANGED ring
  /\ delivered' = None
  /\ UNCHANGED <<alloc, ends, fds, killed>>

(* piperead, the loop that waits for bytes, *)
PipereadWait(p) ==
  /\ pc[p] = "readwait"
  /\ IF Empty /\ writeopen
       THEN IF killed[p] THEN Goto(p, "readwait", "user") /\ Return(p)
                         ELSE Goto(p, "readwait", "readsleep") /\ UNCHANGED <<lock, n, i>>
       ELSE Goto(p, "readwait", "copy") /\ UNCHANGED <<lock, n, i>>
  /\ delivered' = None
  /\ UNCHANGED <<alloc, ring, ends, fds, killed, unwoken>>

(* and the one that copies them. *)
Piperead(p) ==
  /\ pc[p] = "copy"
  /\ IF i[p] = n[p] \/ Empty
       THEN /\ WakeWriters(p, "user") /\ Return(p)
            /\ delivered' = None
            /\ UNCHANGED ring
       ELSE /\ delivered' = data[nread % PIPESIZE]
            /\ nread' = Inc(nread)
            /\ i' = [i EXCEPT ![p] = @ + 1]
            /\ UNCHANGED <<data, nwrite, lock, pc, n>>
  /\ UNCHANGED <<alloc, ends, fds, killed, unwoken>>

(* sleep(&nread, &lock) and sleep(&nwrite, &lock). *)
Sleep(p) ==
  /\ Goto(p, "readsleep", "rasleep") \/ Goto(p, "writesleep", "wasleep")
  /\ lock' = None
  /\ delivered' = None
  /\ UNCHANGED <<alloc, ring, ends, fds, n, i, killed, unwoken>>

(* kill: marks the process, and wakes it if it is asleep. *)
Kill(p) ==
  /\ p \in Killable /\ ~killed[p]
  /\ killed' = [killed EXCEPT ![p] = TRUE]
  /\ pc' = [pc EXCEPT ![p] = CASE @ = "rasleep" -> "rrelock" [] @ = "wasleep" -> "wrelock" [] OTHER -> @]
  /\ delivered' = None
  /\ UNCHANGED <<alloc, lock, ring, ends, fds, n, i, unwoken>>

Step(p) ==
  \/ LockCall(p) \/ PipereadWait(p) \/ Piperead(p) \/ Sleep(p)
  \/ Pipeclose(p) \/ Kfree(p)
  \/ \E v \in Val : Pipewrite(p, v)

User(p) ==
  \/ Pipealloc(p) \/ Kill(p)
  \/ \E q \in Proc : Fork(p, q)
  \/ \E e \in {"r", "w"} : Fileclose(p, e) \/ \E k \in 0..MaxN : Call(p, e, k)

Next == \E p \in Proc : Step(p) \/ User(p)

Spec == Init /\ [][Next]_vars

(* A process in the kernel keeps running, and gets a lock that is free    *)
(* again and again: xchg gives no order, so this is the usual assumption  *)
(* that no CPU loses every race.                                          *)
FairSpec == Spec /\ \A p \in Proc : SF_vars(Step(p))

-----------------------------------------------------------------------------
(* The bytes in the ring, oldest first. *)
Contents ==
  [k \in 1..((nwrite + Wrap - nread) % Wrap) |-> data[((nread + k - 1) % Wrap) % PIPESIZE]]

(* Whatever the interleaving of readers, writers, closes and kills, and   *)
(* across the wrap of the counters, the pipe is a bounded FIFO: no byte is *)
(* lost, repeated, reordered or read from an overwritten slot.            *)
F == INSTANCE ByteStream WITH
       Capacity <- PIPESIZE,
       stream <- IF alloc THEN Contents ELSE <<>>,
       open <- IF alloc THEN {e \in {"r", "w"} : IF e = "r" THEN readopen ELSE writeopen} ELSE {}
RefinesStream == F!Spec

(* pipeclose frees the page once, and nobody is in the pipe or has it     *)
(* open then.                                                             *)
NoUseAfterFree ==
  /\ TypeOK
  /\ \A p \in Proc :
       \/ pc[p] = "user" /\ fds[p] = {}
       \/ alloc /\ (pc[p] = "kfree" => \A q \in Proc \ {p} : pc[q] = "user" /\ fds[q] = {})

(* Nobody sleeps for something that is already there: with the lock free, *)
(* a sleeping writer has a full pipe with a reader before it, a sleeping  *)
(* reader an empty one with a writer.  The one exception is a writer that *)
(* was killed after it had filled the pipe: it returns -1 without waking  *)
(* the readers, which then sleep until the next writer wakes them.        *)
NoLostWakeup ==
  lock = None =>
    \A p \in Proc :
      /\ pc[p] = "wasleep" => Full /\ readopen
      /\ pc[p] = "rasleep" => writeopen /\ (Empty \/ unwoken)

(* piperead returns 0 to a caller that asked for bytes only at end of     *)
(* file: nothing left and no writer.                                      *)
EndOfFile ==
  [][\A p \in Proc : pc[p] = "copy" /\ pc'[p] = "user" /\ i[p] = 0 /\ n[p] > 0 => Empty /\ ~writeopen]_vars

(* A killed process gets out of piperead and pipewrite: kill's comment is *)
(* "Wake process from sleep if necessary".                                *)
KilledReturns ==
  \A p \in Proc : killed[p] /\ pc[p] \in ReadLocations \cup WriteLocations ~> pc[p] = "user"
=============================================================================
