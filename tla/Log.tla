--------------------------------- MODULE Log ---------------------------------
(***************************************************************************)
(* The write-ahead log, with crashes at any moment.                        *)
(*                                                                         *)
(*   src/kernel/c/log.c    begin_op, log_write, end_op, commit, write_log, *)
(*                         write_head, install_trans, read_head,           *)
(*                         recover_from_log, initlog                       *)
(*                                                                         *)
(* A critical section under log.lock is one action, and so is sleep, which *)
(* gives the lock back atomically (module SleepLock).  Every bwrite is one *)
(* action: a block is one disk sector.  cache[b] is the content bread      *)
(* returns for home block b: the cached buffer, which log_write pins, or   *)
(* else the block on disk.  One block buffer is used by one process at a   *)
(* time; see module BufferCache for how far the cache keeps that promise.  *)
(***************************************************************************)
EXTENDS Naturals, Sequences, FiniteSets, Functions

CONSTANTS
  Proc,         \* processes making file system calls
  Block,        \* home blocks
  Val,          \* block contents
  InitVal,      \* their content at first
  LOGSIZE,      \* data blocks the log header has room for
  MAXOPBLOCKS,  \* blocks begin_op reserves for a system call
  OpBlocks,     \* distinct blocks a system call does write
  LogBlocks,    \* superblock.nlog: blocks of the log area, header included
  None          \* no block

ASSUME LogAssumption ==
  /\ InitVal \in Val /\ IsFiniteSet(Proc)
  /\ MAXOPBLOCKS \in Nat \ {0} /\ LOGSIZE \in Nat \ {0} /\ LogBlocks \in Nat \ {0}
  /\ OpBlocks \in 1..MAXOPBLOCKS
  /\ None \notin Block

VARIABLES
  disk, logblk, dhead,      \* on disk: home blocks, log blocks, log header
  cache,                    \* home blocks in memory
  lh,                       \* log.lh: the blocks of the transaction
  outstanding, committing,  \* log.outstanding, log.committing
  tail,                     \* loop variable of write_log and install_trans
  pc, arg, written,         \* a process; its block; the blocks it has written
  mode                      \* "run", or the step of recover_from_log

diskVars == <<disk, logblk, dhead>>
vars == <<diskVars, cache, lh, outstanding, committing, tail, pc, arg, written, mode>>

Slots == 1..LOGSIZE

TypeOK ==
  /\ disk \in [Block -> Val] /\ cache \in [Block -> Val]
  /\ logblk \in [Slots -> Val]
  /\ dhead \in Seq(Block) /\ Len(dhead) <= LOGSIZE
  /\ lh \in Seq(Block) /\ Len(lh) <= LOGSIZE
  /\ outstanding \in 0..Cardinality(Proc)
  /\ committing \in BOOLEAN
  /\ tail \in 0..LOGSIZE
  /\ pc \in [Proc -> {"idle", "begin", "asleep", "op", "log_write", "write_log", "commit",
                      "install", "erase", "committed", "panic"}]
  /\ arg \in [Proc -> Block \cup {None}]
  /\ written \in [Proc -> SUBSET Block]
  /\ mode \in {"run", "read_head", "install", "erase"}

Init ==
  /\ disk = [b \in Block |-> InitVal] /\ cache = disk
  /\ logblk = [i \in Slots |-> InitVal]
  /\ dhead = <<>> /\ lh = <<>>
  /\ outstanding = 0 /\ committing = FALSE
  /\ tail = 0
  /\ pc = [p \in Proc |-> "idle"]
  /\ arg = [p \in Proc |-> None]
  /\ written = [p \in Proc |-> {}]
  /\ mode = "run"

-----------------------------------------------------------------------------
Goto(p, from, to) == pc[p] = from /\ pc' = [pc EXCEPT ![p] = to]

(* wakeup(&log), as p goes on to loc. *)
WakeupLog(p, loc) ==
  pc' = [q \in Proc |-> IF q = p THEN loc ELSE IF pc[q] = "asleep" THEN "begin" ELSE pc[q]]

(* A file system call starts. *)
Call(p) ==
  /\ mode = "run"
  /\ Goto(p, "idle", "begin")
  /\ UNCHANGED <<diskVars, cache, lh, outstanding, committing, tail, arg, written, mode>>

(* Mutation: a commit in progress goes unnoticed. *)
MustWait_NoCommitting == Len(lh) + (outstanding + 1) * MAXOPBLOCKS > LOGSIZE

(* When begin_op has to wait. *)
MustWait == committing \/ Len(lh) + (outstanding + 1) * MAXOPBLOCKS > LOGSIZE

(* begin_op, one turn of its loop. *)
begin_op(p) ==
  /\ pc[p] = "begin"
  /\ IF MustWait
       THEN Goto(p, "begin", "asleep") /\ UNCHANGED <<outstanding, written>>
       ELSE /\ Goto(p, "begin", "op")
            /\ outstanding' = outstanding + 1
            /\ written' = [written EXCEPT ![p] = {}]
  /\ UNCHANGED <<diskVars, cache, lh, committing, tail, arg, mode>>

(* The call changes block b in its buffer and calls log_write, whose      *)
(* checks do not take log.lock.                                           *)
Modify(p, b, v) ==
  /\ pc[p] = "op"
  /\ Cardinality(written[p] \cup {b}) <= OpBlocks
  /\ \A q \in Proc : pc[q] = "log_write" => arg[q] # b
  /\ cache' = [cache EXCEPT ![b] = v]
  /\ arg' = [arg EXCEPT ![p] = b]
  /\ Goto(p, "op", IF Len(lh) >= LOGSIZE \/ Len(lh) >= LogBlocks - 1 \/ outstanding < 1
                     THEN "panic" ELSE "log_write")
  /\ UNCHANGED <<diskVars, lh, outstanding, committing, tail, written, mode>>

(* log_write's critical section: absorb the block or append it. *)
log_write(p) ==
  /\ Goto(p, "log_write", "op")
  /\ lh' = IF arg[p] \in Range(lh) THEN lh ELSE Append(lh, arg[p])
  /\ written' = [written EXCEPT ![p] = @ \cup {arg[p]}]
  /\ arg' = [arg EXCEPT ![p] = None]
  /\ UNCHANGED <<diskVars, cache, outstanding, committing, tail, mode>>

(* end_op: the last call commits, the others wake who waits for space. *)
end_op(p) ==
  /\ pc[p] = "op"
  /\ outstanding' = outstanding - 1
  /\ IF committing THEN Goto(p, "op", "panic") /\ UNCHANGED committing
     ELSE IF outstanding = 1
       THEN /\ committing' = TRUE
            /\ Goto(p, "op", IF lh = <<>> THEN "committed" ELSE "write_log")
       ELSE WakeupLog(p, "idle") /\ UNCHANGED committing
  /\ UNCHANGED <<diskVars, cache, lh, tail, arg, written, mode>>

(* Mutation: the loop does not advance tail. *)
write_log_NoAdvance(p) ==
  /\ pc[p] = "write_log"
  /\ logblk' = [logblk EXCEPT ![tail + 1] = cache[lh[tail + 1]]]
  /\ IF tail + 1 = Len(lh) THEN Goto(p, "write_log", "commit") ELSE UNCHANGED pc
  /\ UNCHANGED <<disk, dhead, cache, lh, outstanding, committing, tail, arg, written, mode>>

(* commit: write_log, one bwrite per step ... *)
write_log(p) ==
  /\ pc[p] = "write_log"
  /\ logblk' = [logblk EXCEPT ![tail + 1] = cache[lh[tail + 1]]]
  /\ IF tail + 1 = Len(lh) THEN tail' = 0 /\ Goto(p, "write_log", "commit")
                           ELSE tail' = tail + 1 /\ UNCHANGED pc
  /\ UNCHANGED <<disk, dhead, cache, lh, outstanding, committing, arg, written, mode>>

(* Mutation: the header is not written. *)
write_head_Skipped(p) ==
  /\ Goto(p, "commit", "install")
  /\ UNCHANGED <<diskVars, cache, lh, outstanding, committing, tail, arg, written, mode>>

(* ... write_head, the real commit ... *)
write_head(p) ==
  /\ Goto(p, "commit", "install")
  /\ dhead' = lh
  /\ UNCHANGED <<disk, logblk, cache, lh, outstanding, committing, tail, arg, written, mode>>

(* install_trans's loop body: log block to home block. *)
InstallBlock ==
  /\ disk' = [disk EXCEPT ![lh[tail + 1]] = logblk[tail + 1]]
  /\ cache' = [cache EXCEPT ![lh[tail + 1]] = logblk[tail + 1]]

(* ... install_trans ... *)
install_trans(p) ==
  /\ pc[p] = "install"
  /\ InstallBlock
  /\ IF tail + 1 = Len(lh) THEN tail' = 0 /\ Goto(p, "install", "erase")
                           ELSE tail' = tail + 1 /\ UNCHANGED pc
  /\ UNCHANGED <<logblk, dhead, lh, outstanding, committing, arg, written, mode>>

(* ... log.lh.n = 0 and write_head again. *)
EraseHead(p) ==
  /\ Goto(p, "erase", "committed")
  /\ lh' = <<>> /\ dhead' = <<>>
  /\ UNCHANGED <<disk, logblk, cache, outstanding, committing, tail, arg, written, mode>>

(* end_op after commit. *)
EndCommit(p) ==
  /\ pc[p] = "committed"
  /\ committing' = FALSE
  /\ WakeupLog(p, "idle")
  /\ UNCHANGED <<diskVars, cache, lh, outstanding, tail, arg, written, mode>>

(* Power failure: memory is lost, the next boot runs recover_from_log. *)
Crash ==
  /\ mode' = "read_head"
  /\ cache' = disk
  /\ lh' = <<>> /\ outstanding' = 0 /\ committing' = FALSE /\ tail' = 0
  /\ pc' = [p \in Proc |-> "idle"]
  /\ written' = [p \in Proc |-> {}]
  /\ arg' = [p \in Proc |-> None]
  /\ UNCHANGED diskVars

read_head ==
  /\ mode = "read_head"
  /\ lh' = dhead
  /\ mode' = IF dhead = <<>> THEN "erase" ELSE "install"
  /\ UNCHANGED <<diskVars, cache, outstanding, committing, tail, pc, arg, written>>

RecoverInstall ==
  /\ mode = "install"
  /\ InstallBlock
  /\ IF tail + 1 = Len(lh) THEN tail' = 0 /\ mode' = "erase"
                           ELSE tail' = tail + 1 /\ UNCHANGED mode
  /\ UNCHANGED <<logblk, dhead, lh, outstanding, committing, pc, arg, written>>

RecoverErase ==
  /\ mode = "erase"
  /\ lh' = <<>> /\ dhead' = <<>>
  /\ mode' = "run"
  /\ UNCHANGED <<disk, logblk, cache, outstanding, committing, tail, pc, arg, written>>

Step(p) ==
  \/ begin_op(p) \/ log_write(p) \/ end_op(p) \/ write_log(p) \/ write_head(p)
  \/ install_trans(p) \/ EraseHead(p) \/ EndCommit(p)

Recover == read_head \/ RecoverInstall \/ RecoverErase

Next ==
  \/ \E p \in Proc : Call(p) \/ Step(p) \/ \E b \in Block, v \in Val : Modify(p, b, v)
  \/ Recover
  \/ Crash

Spec == Init /\ [][Next]_vars

(* Processes keep running and a file system call ends some time. *)
FairSpec == Spec /\ WF_vars(Recover)
                 /\ \A p \in Proc : WF_vars(Step(p)) /\ SF_vars(end_op(p))

-----------------------------------------------------------------------------
(* What a crash right now would leave after recovery. *)
Overlay ==
  [b \in Block |-> IF b \in Range(dhead) THEN logblk[CHOOSE i \in DOMAIN dhead : dhead[i] = b]
                   ELSE disk[b]]

(* The blocks as system calls see them. *)
Mem == IF mode = "run" THEN cache ELSE Overlay

InOp == {p \in Proc : pc[p] \in {"op", "log_write"}}

(* The log makes file system calls atomic with respect to crashes at any  *)
(* step, of a commit or of a recovery.                                    *)
A == INSTANCE CrashAtomicDisk WITH
       mem <- Mem,
       durable <- Overlay,
       active <- InOp
CrashAtomic == A!Spec

InCommit == {"write_log", "commit", "install", "erase", "committed"}

(* One process at a time commits, and while it does no system call is in  *)
(* progress.  Once the last end_op has returned, everything written is on *)
(* disk in its home location.  And begin_op's reservation is enough: no   *)
(* panic "too big a transaction", "log_write outside of trans" or         *)
(* "log.committing".  And no wakeup is lost: a call sleeps in begin_op    *)
(* only while there is a commit or no space, also when an end_op that     *)
(* does not commit has given space back.                                  *)
CommitAlone ==
  /\ TypeOK
  /\ \A p \in Proc : pc[p] # "panic"
  /\ outstanding = Cardinality(InOp)
  /\ committing <=> \E p \in Proc : pc[p] \in InCommit
  /\ \A p \in Proc : pc[p] \in InCommit => InOp = {} /\ \A q \in Proc \ {p} : pc[q] \notin InCommit
  /\ mode = "run" /\ outstanding = 0 /\ ~committing => disk = cache /\ dhead = <<>>
  /\ \A p \in Proc : pc[p] = "asleep" => MustWait

(* A call that begin_op put to sleep is not forgotten: it is woken, and   *)
(* some call gets in, unless the machine crashes.                         *)
Progress ==
  /\ \A p \in Proc : pc[p] = "asleep" ~> pc[p] # "asleep"
  /\ (\E p \in Proc : pc[p] = "asleep") ~> (mode # "run" \/ \E p \in Proc : pc[p] = "op")
=============================================================================
