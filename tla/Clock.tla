------------------------------- MODULE Clock --------------------------------
(***************************************************************************)
(* The clock: the timer interrupt of CPU 0, and the processes in sys_sleep.*)
(*                                                                         *)
(*   src/kernel/src/trap.rs    TICKS, TICKSLOCK, the timer interrupt       *)
(*   src/kernel/c/sysproc.c    sys_sleep                                   *)
(*                                                                         *)
(* TICKS is a 32-bit counter; here it wraps at TickWrap.  A process holds  *)
(* TICKSLOCK from its test to the end of sleep, which gives it back in the *)
(* step that puts the process to sleep (module SleepLock); kill takes only *)
(* ptable.lock and may come in between.                                    *)
(***************************************************************************)
EXTENDS Integers

CONSTANTS
  Sleeper,   \* the processes that call sleep
  TickWrap,  \* 2^32
  MaxTicks,  \* bound: the timer interrupts of a behaviour
  Nobody

ASSUME ClockAssumption ==
  /\ TickWrap \in Nat \ {0} /\ MaxTicks \in Nat /\ Nobody \notin Sleeper

VARIABLES
  TICKS,
  tickslock,     \* holder of TICKSLOCK
  at,            \* where a process is
  ticks0, want,  \* sys_sleep: TICKS at its start, its argument n
  doomed,        \* p->killed
  since          \* interrupts since the start of the call

clockVars == <<TICKS, tickslock, at, ticks0, want, doomed, since>>

(* In user space; "slept" when the last call returned 0. *)
Outside == {"user", "slept"}

ClockTypeOK ==
  /\ TICKS \in 0 .. TickWrap - 1
  /\ tickslock \in Sleeper \cup {Nobody}
  /\ at \in [Sleeper -> Outside \cup {"call", "test", "sleep", "asleep", "woken"}]
  /\ ticks0 \in [Sleeper -> 0 .. TickWrap - 1] /\ want \in [Sleeper -> 0 .. TickWrap - 1]
  /\ doomed \in [Sleeper -> BOOLEAN] /\ since \in [Sleeper -> Nat]

ClockInit ==
  /\ TICKS = 0 /\ tickslock = Nobody
  /\ at = [p \in Sleeper |-> "user"]
  /\ ticks0 = [p \in Sleeper |-> 0] /\ want = [p \in Sleeper |-> 0]
  /\ doomed = [p \in Sleeper |-> FALSE]
  /\ since = [p \in Sleeper |-> 0]

(* TICKS - ticks0, as unsigned numbers. *)
Elapsed(p) == (TICKS + TickWrap - ticks0[p]) % TickWrap

(* The timer interrupt: TICKS += 1; wakeup(&TICKS), under TICKSLOCK. *)
TimerInterrupt ==
  /\ tickslock = Nobody
  /\ \A p \in Sleeper : at[p] \notin Outside => since[p] < MaxTicks
  /\ TICKS' = (TICKS + 1) % TickWrap
  /\ at' = [p \in Sleeper |-> IF at[p] = "asleep" THEN "woken" ELSE at[p]]
  /\ since' = [p \in Sleeper |-> IF at[p] \in Outside THEN since[p] ELSE since[p] + 1]
  /\ UNCHANGED <<tickslock, ticks0, want, doomed>>

(* sleep(n): n is an int that the comparison takes as unsigned. *)
SysSleep(p, n) ==
  /\ at[p] \in Outside /\ ~doomed[p]
  /\ at' = [at EXCEPT ![p] = "call"]
  /\ want' = [want EXCEPT ![p] = n % TickWrap]
  /\ UNCHANGED <<TICKS, tickslock, ticks0, doomed, since>>

(* acquire(&TICKSLOCK); ticks0 = TICKS, *)
StartSleep(p) ==
  /\ at[p] = "call" /\ tickslock = Nobody
  /\ tickslock' = p
  /\ at' = [at EXCEPT ![p] = "test"]
  /\ ticks0' = [ticks0 EXCEPT ![p] = TICKS]
  /\ since' = [since EXCEPT ![p] = 0]
  /\ UNCHANGED <<TICKS, want, doomed>>

(* Mutation: a call that is not a tick old returns. *)
TestTicks_OffByOne(p) ==
  /\ at[p] = "test"
  /\ \/ /\ Elapsed(p) + 1 < want[p] /\ ~doomed[p]
        /\ at' = [at EXCEPT ![p] = "sleep"] /\ UNCHANGED tickslock
     \/ /\ Elapsed(p) + 1 < want[p] /\ doomed[p]
        /\ at' = [at EXCEPT ![p] = "user"] /\ tickslock' = Nobody
     \/ /\ Elapsed(p) + 1 >= want[p]
        /\ at' = [at EXCEPT ![p] = "slept"] /\ tickslock' = Nobody
  /\ UNCHANGED <<TICKS, ticks0, want, doomed, since>>

(* while(TICKS - ticks0 < n): it sleeps, or returns 0, or -1 when killed. *)
TestTicks(p) ==
  /\ at[p] = "test"
  /\ \/ /\ Elapsed(p) < want[p] /\ ~doomed[p]
        /\ at' = [at EXCEPT ![p] = "sleep"] /\ UNCHANGED tickslock
     \/ /\ Elapsed(p) < want[p] /\ doomed[p]
        /\ at' = [at EXCEPT ![p] = "user"] /\ tickslock' = Nobody
     \/ /\ Elapsed(p) >= want[p]
        /\ at' = [at EXCEPT ![p] = "slept"] /\ tickslock' = Nobody
  /\ UNCHANGED <<TICKS, ticks0, want, doomed, since>>

(* sleep(&TICKS, &TICKSLOCK), until somebody wakes it, *)
SleepOnTicks(p) ==
  /\ at[p] = "sleep"
  /\ at' = [at EXCEPT ![p] = "asleep"] /\ tickslock' = Nobody
  /\ UNCHANGED <<TICKS, ticks0, want, doomed, since>>

(* and the rest of it. *)
WakeOnTicks(p) ==
  /\ at[p] = "woken" /\ tickslock = Nobody
  /\ at' = [at EXCEPT ![p] = "test"] /\ tickslock' = p
  /\ UNCHANGED <<TICKS, ticks0, want, doomed, since>>

(* kill: it wakes the process if it is asleep. *)
KillSleeper(p) ==
  /\ ~doomed[p]
  /\ doomed' = [doomed EXCEPT ![p] = TRUE]
  /\ at' = [at EXCEPT ![p] = IF @ = "asleep" THEN "woken" ELSE @]
  /\ UNCHANGED <<TICKS, tickslock, ticks0, want, since>>

ClockNext ==
  \/ TimerInterrupt
  \/ \E p \in Sleeper :
       \/ StartSleep(p) \/ TestTicks(p) \/ SleepOnTicks(p) \/ WakeOnTicks(p) \/ KillSleeper(p)
       \/ \E n \in -1 .. TickWrap - 2 : SysSleep(p, n)

ClockSpec == ClockInit /\ [][ClockNext]_clockVars

-----------------------------------------------------------------------------
(* sys_sleep sleeps neither too long nor too short, also across the wrap  *)
(* of TICKS: a process is asleep only while fewer than n interrupts have  *)
(* come since its call, and 0 is returned only after n of them.  (The one *)
(* exception is a process that was runnable but got no CPU for a full     *)
(* turn of the counter: it waits for the rest of another turn.)           *)
SleepExact ==
  \A p \in Sleeper :
    /\ at[p] \in {"sleep", "asleep"} => since[p] < want[p] \/ since[p] >= TickWrap
    /\ at[p] = "slept" => since[p] >= want[p]
=============================================================================
