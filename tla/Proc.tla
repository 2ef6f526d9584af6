-------------------------------- MODULE Proc --------------------------------
(***************************************************************************)
(* The process table: process life cycle and scheduling.                   *)
(*                                                                         *)
(*   src/kernel/c/proc.c       allocproc, userinit, fork, exit, wait,      *)
(*                             scheduler, yield_proc, forkret, sleep,      *)
(*                             wakeup1, wakeup, kill                       *)
(*   src/kernel/src/proc.rs    enter_scheduler                             *)
(*   src/kernel/src/trap.rs    trap_handler: where killed is looked at     *)
(*                                                                         *)
(* ptable.lock excludes (module SpinLock), so a critical section is one    *)
(* action; what the code does without the lock is an action of its own.    *)
(* ptlock tells who holds the lock where it is handed over by swtch: from  *)
(* a process to the scheduler of its CPU, and from the scheduler to a      *)
(* process that resumes in wait.  A process that is switched out resumes   *)
(* where it was: pc does not change while it is not RUNNING.               *)
(***************************************************************************)
EXTENDS Naturals, FiniteSetsExt

CONSTANTS
  NPROC,      \* size of ptable.proc
  CPU,        \* the processors
  Device,     \* sleep channels of the disk, the clock, the log and the sleep locks
  Event,      \* sleep channels of the pipes and the console
  KillArgs,   \* the arguments user programs pass to kill
  MaxPid,     \* bound on the pids handed out
  None        \* null pointers, and "nobody"

Slot == 0..NPROC-1
Chan == Device \cup Event
initproc == 0

ASSUME ProcAssumption ==
  /\ NPROC \in Nat \ {0} /\ MaxPid \in Nat \ {0}
  /\ KillArgs \subseteq Nat
  /\ None \notin Slot \cup CPU \cup Chan
  /\ Slot \cap CPU = {} /\ Slot \cap Chan = {}

VARIABLES
  state, pid, parent, killed, chan,   \* struct proc
  nextpid,                            \* the pid allocproc hands out next
  cpuproc,                            \* Cpu.proc
  scan,                               \* scheduler's loop variable
  ptlock,                             \* holder of ptable.lock across swtch
  pc, np                              \* kernel code of the process; fork's np

procVars == <<state, pid, parent, killed, chan>>
vars == <<procVars, nextpid, cpuproc, scan, ptlock, pc, np>>

States == {"UNUSED", "EMBRYO", "SLEEPING", "RUNNABLE", "RUNNING", "ZOMBIE"}

TypeOK ==
  /\ state \in [Slot -> States]
  /\ pid \in [Slot -> 0..MaxPid]
  /\ parent \in [Slot -> Slot \cup {None}]
  /\ killed \in [Slot -> BOOLEAN]
  /\ chan \in [Slot -> Slot \cup Chan \cup {None}]
  /\ nextpid \in 1..(MaxPid + 1)
  /\ cpuproc \in [CPU -> Slot \cup {None}]
  /\ scan \in [CPU -> 0..NPROC]
  /\ ptlock \in Slot \cup CPU \cup {None}
  /\ pc \in [Slot -> {"user", "sysret", "timer", "fork2", "fork3", "fork4", "wait",
                      "ksleep", "poll", "psleep", "exit", "panic"}]
  /\ np \in [Slot -> Slot \cup {None}]

(* userinit has made slot 0 the first process. *)
Init ==
  /\ state = [p \in Slot |-> IF p = initproc THEN "RUNNABLE" ELSE "UNUSED"]
  /\ pid = [p \in Slot |-> IF p = initproc THEN 1 ELSE 0]
  /\ parent = [p \in Slot |-> None]
  /\ killed = [p \in Slot |-> FALSE]
  /\ chan = [p \in Slot |-> None]
  /\ nextpid = 2
  /\ cpuproc = [c \in CPU |-> None]
  /\ scan = [c \in CPU |-> 0]
  /\ ptlock = None
  /\ pc = [p \in Slot |-> "user"]
  /\ np = [p \in Slot |-> None]

-----------------------------------------------------------------------------
Goto(p, loc) == pc' = [pc EXCEPT ![p] = loc]

(* p executes kernel code; pc[p] = loc and nobody holds ptable.lock. *)
At(p, loc) == state[p] = "RUNNING" /\ pc[p] = loc /\ ptlock = None

(* Mutation: nobody is woken. *)
wakeup1_None(st, ch) == st

(* wakeup1, as a function of the process states. *)
wakeup1(st, ch) ==
  [q \in Slot |-> IF st[q] = "SLEEPING" /\ chan[q] = ch THEN "RUNNABLE" ELSE st[q]]

(* Mutation: c->proc = 0 is forgotten. *)
EnterScheduler_KeepsProc(p) == ptlock' = (CHOOSE d \in CPU : cpuproc[d] = p) /\ UNCHANGED cpuproc

(* enter_scheduler: the scheduler of p's CPU goes on, with the lock. *)
EnterScheduler(p) ==
  LET c == CHOOSE d \in CPU : cpuproc[d] = p IN
  /\ cpuproc' = [cpuproc EXCEPT ![c] = None]
  /\ ptlock' = c

(* Mutation: the scan skips the slot after the one that ran. *)
Schedule_SkipsOne(c) ==
  LET ready == {p \in Slot : p >= scan[c] /\ state[p] = "RUNNABLE"}
      p == Min(ready)
  IN
  /\ cpuproc[c] = None /\ ptlock \in {None, c}
  /\ IF ready = {}
       THEN scan' = [scan EXCEPT ![c] = 0] /\ ptlock' = None /\ UNCHANGED <<procVars, cpuproc>>
       ELSE /\ scan' = [scan EXCEPT ![c] = p + 2]
            /\ cpuproc' = [cpuproc EXCEPT ![c] = p]
            /\ state' = [state EXCEPT ![p] = "RUNNING"]
            /\ chan' = [chan EXCEPT ![p] = None]
            /\ ptlock' = IF chan[p] = p THEN p ELSE None
            /\ UNCHANGED <<pid, parent, killed>>
  /\ UNCHANGED <<nextpid, pc, np>>

(* scheduler: from its place in the table, the next RUNNABLE process, or  *)
(* the end of the loop and release(&ptable.lock).  The process clears     *)
(* chan after a sleep and releases the lock, except in wait; a new one    *)
(* releases it in forkret.                                                *)
Schedule(c) ==
  LET ready == {p \in Slot : p >= scan[c] /\ state[p] = "RUNNABLE"}
      p == Min(ready)
  IN
  /\ cpuproc[c] = None /\ ptlock \in {None, c}
  /\ IF ready = {}
       THEN /\ scan' = [scan EXCEPT ![c] = 0]
            /\ ptlock' = None
            /\ UNCHANGED <<procVars, cpuproc>>
       ELSE /\ scan' = [scan EXCEPT ![c] = p + 1]
            /\ cpuproc' = [cpuproc EXCEPT ![c] = p]
            /\ state' = [state EXCEPT ![p] = "RUNNING"]
            /\ chan' = [chan EXCEPT ![p] = None]
            /\ ptlock' = IF chan[p] = p THEN p ELSE None
            /\ UNCHANGED <<pid, parent, killed>>
  /\ UNCHANGED <<nextpid, pc, np>>

(* A clock tick in kernel code: yield_proc. *)
Yield(p) ==
  /\ state[p] = "RUNNING" /\ ptlock = None
  /\ pc[p] \notin {"user", "timer", "panic"}
  /\ state' = [state EXCEPT ![p] = "RUNNABLE"]
  /\ EnterScheduler(p)
  /\ UNCHANGED <<pid, parent, killed, chan, nextpid, scan, pc, np>>

(* A clock tick in user code: exit if killed, else yield_proc ... *)
Timer(p) ==
  /\ At(p, "user")
  /\ IF killed[p]
       THEN Goto(p, "exit") /\ UNCHANGED <<state, cpuproc, ptlock>>
       ELSE /\ Goto(p, "timer")
            /\ state' = [state EXCEPT ![p] = "RUNNABLE"]
            /\ EnterScheduler(p)
  /\ UNCHANGED <<pid, parent, killed, chan, nextpid, scan, np>>

(* ... and, as at the end of a system call, exit if killed meanwhile. *)
TrapReturn(p) ==
  /\ state[p] = "RUNNING" /\ pc[p] \in {"sysret", "timer"}
  /\ Goto(p, IF killed[p] THEN "exit" ELSE "user")
  /\ UNCHANGED <<procVars, nextpid, cpuproc, scan, ptlock, np>>

(* Entry to a system call other than fork: exit if killed.  The first     *)
(* process, src/xv6/init.c, reads neither the console nor a pipe.         *)
Syscall(p, call) ==
  /\ state[p] = "RUNNING" /\ pc[p] = "user"
  /\ p = initproc => call # "poll"
  /\ Goto(p, IF killed[p] THEN "exit" ELSE call)
  /\ UNCHANGED <<procVars, nextpid, cpuproc, scan, ptlock, np>>

(* fork: allocproc's critical section.  -1 when the table is full. *)
Allocproc(p) ==
  LET free == {q \in Slot : state[q] = "UNUSED"}
      q == Min(free)
  IN
  /\ At(p, "user") /\ ~killed[p]
  /\ nextpid <= MaxPid
  /\ IF free = {}
       THEN Goto(p, "sysret") /\ UNCHANGED <<state, pid, nextpid, np>>
       ELSE /\ state' = [state EXCEPT ![q] = "EMBRYO"]
            /\ pid' = [pid EXCEPT ![q] = nextpid]
            /\ nextpid' = nextpid + 1
            /\ np' = [np EXCEPT ![p] = q]
            /\ Goto(p, "fork2")
  /\ UNCHANGED <<parent, killed, chan, cpuproc, scan, ptlock>>

(* kalloc of the kernel stack (fork2) or copyuvm (fork3) fails: the slot  *)
(* is given back without the lock, and keeps its pid.                     *)
ForkFails(p) ==
  /\ state[p] = "RUNNING" /\ pc[p] \in {"fork2", "fork3"}
  /\ state' = [state EXCEPT ![np[p]] = "UNUSED"]
  /\ np' = [np EXCEPT ![p] = None]
  /\ Goto(p, "sysret")
  /\ UNCHANGED <<pid, parent, killed, chan, nextpid, cpuproc, scan, ptlock>>

ForkStack(p) ==
  /\ state[p] = "RUNNING" /\ pc[p] = "fork2"
  /\ pc' = [pc EXCEPT ![p] = "fork3", ![np[p]] = "user"]
  /\ UNCHANGED <<procVars, nextpid, cpuproc, scan, ptlock, np>>

(* copyuvm succeeded; np->parent = curproc, without the lock. *)
ForkParent(p) ==
  /\ state[p] = "RUNNING" /\ pc[p] = "fork3"
  /\ parent' = [parent EXCEPT ![np[p]] = p]
  /\ Goto(p, "fork4")
  /\ UNCHANGED <<state, pid, killed, chan, nextpid, cpuproc, scan, ptlock, np>>

ForkPublish(p) ==
  /\ At(p, "fork4")
  /\ state' = [state EXCEPT ![np[p]] = "RUNNABLE"]
  /\ np' = [np EXCEPT ![p] = None]
  /\ Goto(p, "sysret")
  /\ UNCHANGED <<pid, parent, killed, chan, nextpid, cpuproc, scan, ptlock>>

(* exit: the first process must not; any other closes its files, for      *)
(* which it may Sleep, wakes its parent, leaves its children to init,     *)
(* wakes init if one of them is a zombie, and never returns from the      *)
(* scheduler.                                                             *)
ExitInit(p) ==
  /\ state[p] = "RUNNING" /\ pc[p] = "exit" /\ p = initproc
  /\ Goto(p, "panic")
  /\ UNCHANGED <<procVars, nextpid, cpuproc, scan, ptlock, np>>

Exit(p) ==
  LET orphans == {q \in Slot : parent[q] = p}
      st1 == wakeup1(state, parent[p])
      st2 == IF \E q \in orphans : state[q] = "ZOMBIE" THEN wakeup1(st1, initproc) ELSE st1
  IN
  /\ At(p, "exit") /\ p # initproc
  /\ state' = [st2 EXCEPT ![p] = "ZOMBIE"]
  /\ parent' = [q \in Slot |-> IF q \in orphans THEN initproc ELSE parent[q]]
  /\ EnterScheduler(p)
  /\ UNCHANGED <<pid, killed, chan, nextpid, scan, pc, np>>

(* wait: one pass over the table, with the lock freshly acquired or kept  *)
(* since the scheduler resumed the sleeper.                               *)
Wait(p) ==
  LET kids == {q \in Slot : parent[q] = p}
      zombies == {q \in kids : state[q] = "ZOMBIE"}
      z == Min(zombies)
  IN
  /\ state[p] = "RUNNING" /\ pc[p] = "wait" /\ ptlock \in {None, p}
  /\ \/ /\ zombies # {}
        /\ state' = [state EXCEPT ![z] = "UNUSED"]
        /\ pid' = [pid EXCEPT ![z] = 0]
        /\ parent' = [parent EXCEPT ![z] = None]
        /\ killed' = [killed EXCEPT ![z] = FALSE]
        /\ ptlock' = None
        /\ Goto(p, "sysret")
        /\ UNCHANGED <<chan, cpuproc>>
     \/ /\ zombies = {} /\ (kids = {} \/ killed[p])
        /\ ptlock' = None
        /\ Goto(p, "sysret")
        /\ UNCHANGED <<procVars, cpuproc>>
     \/ /\ zombies = {} /\ kids # {} /\ ~killed[p]
        /\ state' = [state EXCEPT ![p] = "SLEEPING"]
        /\ chan' = [chan EXCEPT ![p] = p]
        /\ EnterScheduler(p)
        /\ UNCHANGED <<pid, parent, killed, pc>>
  /\ UNCHANGED <<nextpid, scan, np>>

(* sleep: p resumes at loc. *)
SleepOn(p, ch, loc) ==
  /\ state' = [state EXCEPT ![p] = "SLEEPING"]
  /\ chan' = [chan EXCEPT ![p] = ch]
  /\ EnterScheduler(p)
  /\ Goto(p, loc)
  /\ UNCHANGED <<pid, parent, killed, nextpid, scan, np>>

(* A system call, or exit, waits for the disk, for a sleep lock or for    *)
(* the log, any number of times.  These loops do not look at killed.      *)
Sleep(p, ch) ==
  /\ At(p, "ksleep") \/ (At(p, "exit") /\ p # initproc)
  /\ SleepOn(p, ch, pc[p])

SleepDone(p) ==
  /\ state[p] = "RUNNING" /\ pc[p] = "ksleep"
  /\ Goto(p, "sysret")
  /\ UNCHANGED <<procVars, nextpid, cpuproc, scan, ptlock, np>>

(* The loops of piperead, pipewrite, consoleread and sys_sleep: what they *)
(* wait for is there, or they look at killed, without ptable.lock ...     *)
Poll(p) ==
  /\ state[p] = "RUNNING" /\ pc[p] = "poll"
  /\ \/ Goto(p, "sysret")
     \/ ~killed[p] /\ Goto(p, "psleep")
  /\ UNCHANGED <<procVars, nextpid, cpuproc, scan, ptlock, np>>

(* ... and sleep, although killed may be set by now. *)
PollSleep(p, ch) == At(p, "psleep") /\ SleepOn(p, ch, "poll")

(* wakeup, from an interrupt handler or another process. *)
Wakeup(ch) ==
  /\ ptlock = None
  /\ state' = wakeup1(state, ch)
  /\ UNCHANGED <<pid, parent, killed, chan, nextpid, cpuproc, scan, ptlock, pc, np>>

(* Mutation: kill leaves a sleeping process asleep. *)
Kill_NoWake(p, n) ==
  LET found == {q \in Slot : pid[q] = n} IN
  /\ At(p, "user") /\ ~killed[p]
  /\ killed' = [q \in Slot |-> killed[q] \/ (found # {} /\ q = Min(found))]
  /\ Goto(p, "sysret")
  /\ UNCHANGED <<state, pid, parent, chan, nextpid, cpuproc, scan, ptlock, np>>

(* kill: the first slot with that pid, whatever its state. *)
Kill(p, n) ==
  LET found == {q \in Slot : pid[q] = n}
      q == Min(found)
  IN
  /\ At(p, "user") /\ ~killed[p]
  /\ IF found = {} THEN UNCHANGED <<killed, state>>
     ELSE /\ killed' = [killed EXCEPT ![q] = TRUE]
          /\ state' = [state EXCEPT ![q] = IF @ = "SLEEPING" THEN "RUNNABLE" ELSE @]
  /\ Goto(p, "sysret")
  /\ UNCHANGED <<pid, parent, chan, nextpid, cpuproc, scan, ptlock, np>>

(* What the kernel goes on to do for p by itself. *)
Step(p) ==
  \/ TrapReturn(p) \/ ForkFails(p) \/ ForkStack(p) \/ ForkParent(p) \/ ForkPublish(p)
  \/ ExitInit(p) \/ Exit(p) \/ Wait(p) \/ SleepDone(p) \/ Poll(p)
  \/ \E ch \in Chan : PollSleep(p, ch)

UserCall(p) ==
  \/ Allocproc(p)
  \/ \E n \in KillArgs : Kill(p, n)
  \/ \E call \in {"wait", "ksleep", "poll", "exit"} : Syscall(p, call)

ClockTick(c) == \E p \in Slot : cpuproc[c] = p /\ (Timer(p) \/ Yield(p))

Next ==
  \/ \E c \in CPU : Schedule(c) \/ ClockTick(c)
  \/ \E p \in Slot : Step(p) \/ UserCall(p)
  \/ \E p \in Slot, ch \in Device : Sleep(p, ch)
  \/ \E ch \in Chan : Wakeup(ch)

Spec == Init /\ [][Next]_vars

(* The first process, src/xv6/init.c, calls wait in a loop.  CPUs         *)
(* run their schedulers and take clock interrupts; a process that is      *)
(* given a CPU again and again between ticks gets on with its system      *)
(* call; devices answer.  Nobody has to write to a pipe or press a key.   *)
Fairness ==
  /\ \A c \in CPU : WF_vars(Schedule(c)) /\ SF_vars(ClockTick(c))
  /\ \A p \in Slot : SF_vars(Step(p))
  /\ \A ch \in Device : SF_vars(Wakeup(ch))
  /\ SF_vars(Syscall(initproc, "wait"))

FairSpec == Spec /\ Fairness

-----------------------------------------------------------------------------
Live == {"SLEEPING", "RUNNABLE", "RUNNING"}

(* A process is RUNNING on one CPU, its scheduler's c->proc, or on none:  *)
(* no kernel stack is ever used by two CPUs.  And processes that exist    *)
(* have distinct pids, also while fork initialises one without the lock.  *)
OneCpu ==
  /\ TypeOK
  /\ \A p \in Slot : state[p] = "RUNNING" <=> \E c \in CPU : cpuproc[c] = p
  /\ \A c, d \in CPU : cpuproc[c] = cpuproc[d] /\ c # d => cpuproc[c] = None
  /\ \A p, q \in Slot : state[p] # "UNUSED" /\ state[q] # "UNUSED" /\ pid[p] = pid[q] => p = q

(* Whoever may turn into a zombie has somebody to reap it: the parent of  *)
(* every process but the first is itself alive, whatever order parents    *)
(* and children exit in.  And exit's wakeups are enough: a parent asleep  *)
(* in wait has no zombie child (its own or inherited) and has not been    *)
(* killed.                                                                *)
WaitMissesNothing ==
  /\ \A p \in Slot \ {initproc} :
       state[p] \in Live \cup {"ZOMBIE"} => parent[p] \in Slot /\ state[parent[p]] \in Live
  /\ \A p \in Slot : state[p] = "SLEEPING" /\ chan[p] = p =>
       /\ ~killed[p]
       /\ \A q \in Slot : parent[q] = p => state[q] # "ZOMBIE"

(* "Kill the process with the given pid": a process that allocproc just   *)
(* created, under a pid never used before, is not marked killed.          *)
BornUnkilled ==
  [][\A p \in Slot : state[p] = "UNUSED" /\ state'[p] = "EMBRYO" => ~killed'[p]]_vars

(* exit has panicked: "init exiting". *)
Panicked == pc[initproc] = "panic"

(* The scheduler's scan starves nobody. *)
NoStarvation ==
  \A p \in Slot : state[p] = "RUNNABLE" ~> state[p] = "RUNNING" \/ Panicked

(* p waits for a pipe or for the console, past its test of killed. *)
PastTest(p) == pc[p] = "psleep" \/ (state[p] = "SLEEPING" /\ chan[p] \in Event)

(* A killed process dies, be it in user code, in wait, in exit or in a    *)
(* call that waits for the disk, for the clock, or for a pipe or the      *)
(* console nobody writes to: it is woken, and gets to a place where       *)
(* trap_handler looks at killed.  Only a kill between the test and the    *)
(* sleep of the loops of pipes and the console is missed: no other step   *)
(* leaves a killed process there.                                         *)
KilledDies ==
  /\ \A p \in Slot \ {initproc} :
       killed[p] /\ state[p] \in Live /\ ~PastTest(p)
         ~> state[p] \in {"ZOMBIE", "UNUSED"} \/ Panicked
  /\ [][\A p \in Slot : (killed[p] /\ PastTest(p))' => PastTest(p) /\ (killed[p] \/ pc[p] = "psleep")]_vars

(* The zombies that init inherits do not fill the table. *)
OrphansReaped ==
  \A p \in Slot :
    state[p] = "ZOMBIE" /\ parent[p] = initproc ~> state[p] = "UNUSED" \/ Panicked
=============================================================================
