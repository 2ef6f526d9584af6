------------------------------ MODULE SpinLock ------------------------------
(***************************************************************************)
(* Spin locks, the per-CPU interrupt nesting count and context switching.  *)
(*                                                                         *)
(*   src/kernel/src/spinlock.rs    SpinLockC: acquire, release, is_locked  *)
(*   src/kernel/src/interrupt.rs   push_cli, pop_cli                       *)
(*   src/kernel/src/proc.rs        my_cpu_id, enter_scheduler              *)
(*   src/kernel/c/proc.c           scheduler, yield_proc, forkret          *)
(*   src/kernel/src/trap.rs        entry to and return from a handler      *)
(*                                                                         *)
(* A context is a kernel stack: one per process, and one per CPU for its   *)
(* scheduler, named by the CPU itself.  cur[c] is the context that CPU c   *)
(* executes.  An interrupt taken by a context pushes a trap frame on its   *)
(* stack (saved) and runs the handler on the same stack.  What the code    *)
(* does between lock operations is left open: any context may take any     *)
(* lock that follows, in Rank, the locks its CPU holds, which is the lock  *)
(* discipline of src/docs/Notes, and release any lock it holds.            *)
(***************************************************************************)
EXTENDS Naturals, FiniteSets

CONSTANTS
  CPU,        \* the processors; also their scheduler contexts
  Proc,       \* the processes
  Lock,       \* the spin locks
  PT,         \* ptable.lock
  Rank,       \* Rank[l]: position of l in the lock order
  NoCpu,      \* null in SpinLockC.cpu
  NoFrame     \* no trap frame on the stack

ASSUME LockAssumption ==
  /\ CPU \cap Proc = {}
  /\ PT \in Lock
  /\ Rank \in [Lock -> Nat]
  /\ NoCpu \notin CPU

VARIABLES
  locked,     \* SpinLockC.locked
  owner,      \* SpinLockC.cpu
  ncli,       \* Cpu.ncli
  intena,     \* Cpu.intena
  iflag,      \* the interrupt flag of the CPU's eflags
  cur,        \* the context the CPU executes
  held,       \* the locks between acquire and release in the CPU's code
  pc,         \* where a context is
  arg,        \* the lock passed to acquire or release
  efl,        \* push_cli's local copy of the interrupt flag
  saved,      \* the trap frame of the interrupted code, or NoFrame
  sav,        \* enter_scheduler's local copy of intena
  fresh       \* the process has not yet returned to user space

cpuVars == <<ncli, intena, iflag>>
vars == <<locked, owner, cpuVars, cur, held, pc, arg, efl, saved, sav, fresh>>

Ctx == CPU \cup Proc

Locations == {"run", "cli", "holding", "holding2", "cas", "setcpu",
              "release", "unlock", "popcli", "forkret", "swtch", "panic"}

Frame == [pc : {"run", "cli"}, arg : Lock, efl : BOOLEAN]

ASSUME FrameAssumption == NoFrame \notin Frame

TypeOK ==
  /\ locked \in [Lock -> BOOLEAN]
  /\ owner \in [Lock -> CPU \cup {NoCpu}]
  /\ ncli \in [CPU -> Nat]
  /\ intena \in [CPU -> BOOLEAN]
  /\ iflag \in [CPU -> BOOLEAN]
  /\ cur \in [CPU -> Ctx]
  /\ held \in [CPU -> SUBSET Lock]
  /\ pc \in [Ctx -> Locations]
  /\ arg \in [Ctx -> Lock]
  /\ efl \in [Ctx -> BOOLEAN]
  /\ saved \in [Ctx -> Frame \cup {NoFrame}]
  /\ sav \in [Ctx -> BOOLEAN]
  /\ fresh \in [Ctx -> BOOLEAN]

InHandler(x) == saved[x] # NoFrame

(* allocproc leaves a new process a context that resumes in forkret, with *)
(* ptable.lock held by the scheduler that switches to it.                 *)
Init ==
  /\ locked = [l \in Lock |-> FALSE]
  /\ owner = [l \in Lock |-> NoCpu]
  /\ ncli = [c \in CPU |-> 0]
  /\ intena = [c \in CPU |-> FALSE]
  /\ iflag = [c \in CPU |-> FALSE]
  /\ cur = [c \in CPU |-> c]
  /\ held = [c \in CPU |-> {}]
  /\ pc = [x \in Ctx |-> IF x \in Proc THEN "forkret" ELSE "run"]
  /\ arg = [x \in Ctx |-> PT]
  /\ efl = [x \in Ctx |-> FALSE]
  /\ saved = [x \in Ctx |-> NoFrame]
  /\ sav = [x \in Ctx |-> FALSE]
  /\ fresh = [x \in Ctx |-> x \in Proc]

-----------------------------------------------------------------------------
(* The steps below are taken by the context x = cur[c] of CPU c.          *)

Goto(x, loc) == pc' = [pc EXCEPT ![x] = loc]

(* acquire or release returns, and forgets its argument. *)
Return(x) == Goto(x, "run") /\ arg' = [arg EXCEPT ![x] = PT]

(* A CPU follows the lock order. *)
MayAcquire(c, l) == \A h \in held[c] : Rank[h] < Rank[l]

(* acquire calls push_cli, which first reads eflags. *)
AcquireStart(c, l) ==
  LET x == cur[c] IN
  /\ pc[x] = "run"
  /\ x \in Proc \/ InHandler(x)
  /\ MayAcquire(c, l)
  /\ arg' = [arg EXCEPT ![x] = l]
  /\ efl' = [efl EXCEPT ![x] = iflag[c]]
  /\ Goto(x, "cli")
  /\ UNCHANGED <<locked, owner, cpuVars, cur, held, saved, sav, fresh>>

(* The top of scheduler's loop: sti, then acquire(&ptable.lock). *)
SchedulerLoop(c) ==
  /\ cur[c] = c /\ pc[c] = "run" /\ ~InHandler(c)
  /\ held[c] = {}
  /\ iflag' = [iflag EXCEPT ![c] = TRUE]
  /\ arg' = [arg EXCEPT ![c] = PT]
  /\ efl' = [efl EXCEPT ![c] = TRUE]
  /\ Goto(c, "cli")
  /\ UNCHANGED <<locked, owner, ncli, intena, cur, held, saved, sav, fresh>>

(* The rest of push_cli.  From cli on nothing else runs on this CPU. *)
PushCli(c) ==
  LET x == cur[c] IN
  /\ pc[x] = "cli"
  /\ iflag' = [iflag EXCEPT ![c] = FALSE]
  /\ intena' = IF ncli[c] = 0 THEN [intena EXCEPT ![c] = efl[x]] ELSE intena
  /\ ncli' = [ncli EXCEPT ![c] = @ + 1]
  /\ efl' = [efl EXCEPT ![x] = FALSE]
  /\ Goto(x, "holding")
  /\ UNCHANGED <<locked, owner, cur, held, arg, saved, sav, fresh>>

(* assert!(!self.is_locked()): the first load, of locked. *)
HoldingLoadLocked(c) ==
  LET x == cur[c] IN
  /\ pc[x] = "holding"
  /\ Goto(x, IF locked[arg[x]] THEN "holding2" ELSE "cas")
  /\ UNCHANGED <<locked, owner, cpuVars, cur, held, arg, efl, saved, sav, fresh>>

(* ... and the second, of cpu, another CPU's stores possibly in between. *)
HoldingLoadCpu(c) ==
  LET x == cur[c] IN
  /\ pc[x] = "holding2"
  /\ Goto(x, IF owner[arg[x]] = c THEN "panic" ELSE "cas")
  /\ UNCHANGED <<locked, owner, cpuVars, cur, held, arg, efl, saved, sav, fresh>>

(* Mutation: a store instead of a compare-and-exchange. *)
CompareExchange_Store(c) ==
  LET x == cur[c] IN
  /\ pc[x] = "cas"
  /\ locked' = [locked EXCEPT ![arg[x]] = TRUE]
  /\ held' = [held EXCEPT ![c] = @ \cup {arg[x]}]
  /\ Goto(x, "setcpu")
  /\ UNCHANGED <<owner, cpuVars, cur, arg, efl, saved, sav, fresh>>

(* The compare-and-exchange that succeeds; a failing one changes nothing. *)
CompareExchange(c) ==
  LET x == cur[c] IN
  /\ pc[x] = "cas"
  /\ ~locked[arg[x]]
  /\ locked' = [locked EXCEPT ![arg[x]] = TRUE]
  /\ held' = [held EXCEPT ![c] = @ \cup {arg[x]}]
  /\ Goto(x, "setcpu")
  /\ UNCHANGED <<owner, cpuVars, cur, arg, efl, saved, sav, fresh>>

SetCpu(c) ==
  LET x == cur[c] IN
  /\ pc[x] = "setcpu"
  /\ owner' = [owner EXCEPT ![arg[x]] = c]
  /\ Return(x)
  /\ UNCHANGED <<locked, cpuVars, cur, held, efl, saved, sav, fresh>>

ReleaseStart(c, l) ==
  LET x == cur[c] IN
  /\ pc[x] = "run"
  /\ l \in held[c]
  /\ arg' = [arg EXCEPT ![x] = l]
  /\ Goto(x, "release")
  /\ UNCHANGED <<locked, owner, cpuVars, cur, held, efl, saved, sav, fresh>>

(* assert!(self.is_locked()); self.cpu = null. *)
ClearCpu(c) ==
  LET x == cur[c] IN
  /\ pc[x] = "release"
  /\ IF locked[arg[x]] /\ owner[arg[x]] = c
       THEN owner' = [owner EXCEPT ![arg[x]] = NoCpu] /\ Goto(x, "unlock")
       ELSE UNCHANGED owner /\ Goto(x, "panic")
  /\ UNCHANGED <<locked, cpuVars, cur, held, arg, efl, saved, sav, fresh>>

Unlock(c) ==
  LET x == cur[c] IN
  /\ pc[x] = "unlock"
  /\ locked' = [locked EXCEPT ![arg[x]] = FALSE]
  /\ held' = [held EXCEPT ![c] = @ \ {arg[x]}]
  /\ Goto(x, "popcli")
  /\ UNCHANGED <<owner, cpuVars, cur, arg, efl, saved, sav, fresh>>

PopCli(c) ==
  LET x == cur[c] IN
  /\ pc[x] = "popcli"
  /\ IF iflag[c] \/ ncli[c] = 0
       THEN Goto(x, "panic") /\ UNCHANGED <<cpuVars, arg>>
       ELSE /\ ncli' = [ncli EXCEPT ![c] = @ - 1]
            /\ iflag' = [iflag EXCEPT ![c] = ncli[c] = 1 /\ intena[c]]
            /\ Return(x)
            /\ UNCHANGED intena
  /\ UNCHANGED <<locked, owner, cur, held, efl, saved, sav, fresh>>

(* Mutation: whoever is resumed is taken to have had interrupts off. *)
SwitchTo_NoIntena(c, p) ==
  /\ cur[c] = c /\ pc[c] = "run" /\ ~InHandler(c)
  /\ held[c] = {PT}
  /\ pc[p] \in {"swtch", "forkret"}
  /\ cur' = [cur EXCEPT ![c] = p]
  /\ intena' = [intena EXCEPT ![c] = FALSE]
  /\ sav' = [sav EXCEPT ![p] = FALSE]
  /\ Goto(p, "run")
  /\ UNCHANGED <<locked, owner, ncli, iflag, held, arg, efl, saved, fresh>>

(* scheduler's loop body: pick a process that is not running and swtch to *)
(* it.  A process that slept or yielded resumes in enter_scheduler, a new *)
(* one in forkret.                                                        *)
SwitchTo(c, p) ==
  /\ cur[c] = c /\ pc[c] = "run" /\ ~InHandler(c)
  /\ held[c] = {PT}
  /\ pc[p] \in {"swtch", "forkret"}
  /\ cur' = [cur EXCEPT ![c] = p]
  /\ intena' = IF pc[p] = "swtch" THEN [intena EXCEPT ![c] = sav[p]] ELSE intena
  /\ sav' = [sav EXCEPT ![p] = FALSE]
  /\ Goto(p, "run")
  /\ UNCHANGED <<locked, owner, ncli, iflag, held, arg, efl, saved, fresh>>

(* The checks enter_scheduler makes before it switches. *)
EnterSchedulerOK(c) == ncli[c] = 1 /\ ~iflag[c]

(* enter_scheduler, called by yield_proc and sleep with ptable.lock held. *)
EnterScheduler(c) ==
  LET x == cur[c] IN
  /\ x \in Proc /\ pc[x] = "run"
  /\ held[c] = {PT}
  /\ IF EnterSchedulerOK(c)
       THEN /\ sav' = [sav EXCEPT ![x] = intena[c]]
            /\ cur' = [cur EXCEPT ![c] = c]
            /\ Goto(x, "swtch")
       ELSE Goto(x, "panic") /\ UNCHANGED <<sav, cur>>
  /\ UNCHANGED <<locked, owner, cpuVars, held, arg, efl, saved, fresh>>

(* exit ends in enter_scheduler and its stack is never used again; the    *)
(* slot later starts a new process in forkret.  A handler calls exit only *)
(* when it interrupted user code.                                         *)
Exit(c) ==
  LET x == cur[c] IN
  /\ x \in Proc /\ pc[x] = "run" /\ ~fresh[x]
  /\ held[c] = {PT}
  /\ InHandler(x) => saved[x].pc = "run"
  /\ IF EnterSchedulerOK(c)
       THEN /\ cur' = [cur EXCEPT ![c] = c]
            /\ saved' = [saved EXCEPT ![x] = NoFrame]
            /\ fresh' = [fresh EXCEPT ![x] = TRUE]
            /\ Goto(x, "forkret")
       ELSE Goto(x, "panic") /\ UNCHANGED <<cur, saved, fresh>>
  /\ UNCHANGED <<locked, owner, cpuVars, held, arg, efl, sav>>

(* forkret returns to trapret, whose iret loads FL_IF from the trap frame. *)
Trapret(c) ==
  LET x == cur[c] IN
  /\ x \in Proc /\ pc[x] = "run" /\ fresh[x] /\ ~InHandler(x)
  /\ held[c] = {}
  /\ fresh' = [fresh EXCEPT ![x] = FALSE]
  /\ iflag' = [iflag EXCEPT ![c] = TRUE]
  /\ UNCHANGED <<locked, owner, ncli, intena, cur, held, pc, arg, efl, saved, sav>>

(* An interrupt gate pushes the interrupted state and clears the flag. *)
Interrupt(c) ==
  LET x == cur[c] IN
  /\ iflag[c] /\ ~InHandler(x)
  /\ pc[x] \in {"run", "cli"}
  /\ saved' = [saved EXCEPT ![x] = [pc |-> pc[x], arg |-> arg[x], efl |-> efl[x]]]
  /\ iflag' = [iflag EXCEPT ![c] = FALSE]
  /\ Return(x)
  /\ efl' = [efl EXCEPT ![x] = FALSE]
  /\ UNCHANGED <<locked, owner, ncli, intena, cur, held, sav, fresh>>

Iret(c) ==
  LET x == cur[c] IN
  /\ InHandler(x) /\ pc[x] = "run"
  /\ held[c] = {}
  /\ arg' = [arg EXCEPT ![x] = saved[x].arg]
  /\ efl' = [efl EXCEPT ![x] = saved[x].efl]
  /\ Goto(x, saved[x].pc)
  /\ saved' = [saved EXCEPT ![x] = NoFrame]
  /\ iflag' = [iflag EXCEPT ![c] = TRUE]
  /\ UNCHANGED <<locked, owner, ncli, intena, cur, held, sav, fresh>>

Next ==
  \E c \in CPU :
    \/ \E l \in Lock : AcquireStart(c, l) \/ ReleaseStart(c, l)
    \/ \E p \in Proc : SwitchTo(c, p)
    \/ SchedulerLoop(c) \/ PushCli(c) \/ HoldingLoadLocked(c)
    \/ HoldingLoadCpu(c) \/ CompareExchange(c) \/ SetCpu(c)
    \/ ClearCpu(c) \/ Unlock(c) \/ PopCli(c)
    \/ EnterScheduler(c) \/ Exit(c) \/ Trapret(c)
    \/ Interrupt(c) \/ Iret(c)

Spec == Init /\ [][Next]_vars

-----------------------------------------------------------------------------
(* Two CPUs are never both between the compare-and-exchange and the store *)
(* of 0 of the same SpinLockC, whatever interrupts and context switches   *)
(* come in between; locked tells exactly whether some CPU is.             *)
MutualExclusion ==
  /\ \A c, d \in CPU : c # d => held[c] \cap held[d] = {}
  /\ \A l \in Lock : locked[l] <=> \E c \in CPU : l \in held[c]

(* None of the assertions and panics of acquire, release, pop_cli and     *)
(* enter_scheduler fires when callers follow the lock order and call      *)
(* sched with ptable.lock alone: is_locked, read in two loads while other *)
(* CPUs store, never takes another CPU's lock for this CPU's own.         *)
NoPanic == \A x \in Ctx : pc[x] # "panic"

(* While its code holds a lock, a CPU takes no interrupt, so no handler   *)
(* can spin on a lock that the code below it on the same stack holds;     *)
(* and a handler itself runs with interrupts off to its end.              *)
InterruptsOff ==
  \A c \in CPU : held[c] # {} \/ InHandler(cur[c]) => ~iflag[c]

(* intena belongs to the kernel thread: once a process has been to user   *)
(* space, its code outside handlers and locks runs with interrupts on,    *)
(* although it may have slept and been moved to a CPU whose intena some   *)
(* other thread left behind.                                              *)
InterruptsRestored ==
  \A c \in CPU :
    LET x == cur[c] IN
    x \in Proc /\ pc[x] = "run" /\ held[c] = {} /\ ~InHandler(x) /\ ~fresh[x]
      => iflag[c]

(* What push_cli, pop_cli and enter_scheduler keep for every kernel       *)
(* thread: interrupts are off where they must be and on again where they  *)
(* may be, and no assertion fires on the way.                             *)
InterruptsExact == NoPanic /\ InterruptsOff /\ InterruptsRestored
=============================================================================
