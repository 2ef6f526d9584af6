------------------------------ MODULE SleepLock ------------------------------
(***************************************************************************)
(* Sleep locks on top of sleep and wakeup, one lock operation per step.    *)
(*                                                                         *)
(*   src/kernel/src/sleeplock.rs   SleepLockC: acquire, release, is_locked *)
(*   src/kernel/c/proc.c           sleep, wakeup, wakeup1, kill            *)
(*                                                                         *)
(* Two spin locks are involved: lk, the one inside the sleep lock, and pt, *)
(* ptable.lock.  The order in which sleep takes pt before it gives lk back *)
(* and in which release clears taken before it calls wakeup is what keeps *)
(* a wakeup from being lost, so each of these is a step.                   *)
(***************************************************************************)
CONSTANTS Locker, None

ASSUME NoneAssumption == None \notin Locker

VARIABLES
  taken,     \* SleepLockC.locked
  pid,        \* SleepLockC.pid: the holder, or None for 0
  lk,         \* holder of SleepLockC.lock
  pt,         \* holder of ptable.lock
  state,      \* Process.state as far as the scheduler is concerned
  doing       \* where the process is

lockVars == <<taken, pid, lk, pt, state, doing>>

LockerAt ==
  {"idle",                                  \* neither holds nor wants the lock
   "test",                                  \* acquire: has lk, looks at taken
   "sleep1", "sleep2", "sleep3", "asleep",  \* sleep(self, &self.lock)
   "relock",                                \* sleep: reacquires lk
   "locked",                                \* acquire: has set taken and pid
   "cs",                                    \* holds the sleep lock
   "unlock", "wakeup", "wakeup2", "unlocked"} \* release

LockTypeOK ==
  /\ taken \in BOOLEAN
  /\ pid \in Locker \cup {None}
  /\ lk \in Locker \cup {None}
  /\ pt \in Locker \cup {None}
  /\ state \in [Locker -> {"RUNNING", "SLEEPING", "RUNNABLE"}]
  /\ doing \in [Locker -> LockerAt]

LockInit ==
  /\ taken = FALSE /\ pid = None
  /\ lk = None /\ pt = None
  /\ state = [p \in Locker |-> "RUNNING"]
  /\ doing = [p \in Locker |-> "idle"]

-----------------------------------------------------------------------------
GoesTo(p, from, to) == doing[p] = from /\ doing' = [doing EXCEPT ![p] = to]

(* self.lock.acquire() *)
Acquire(p) ==
  /\ lk = None /\ lk' = p
  /\ GoesTo(p, "idle", "test")
  /\ UNCHANGED <<taken, pid, pt, state>>

(* while self.locked != 0 { sleep ... } self.locked = 1; self.pid = ... *)
Test(p) ==
  \/ /\ taken
     /\ GoesTo(p, "test", "sleep1")
     /\ UNCHANGED <<taken, pid, lk, pt, state>>
  \/ /\ ~taken
     /\ GoesTo(p, "test", "locked")
     /\ taken' = TRUE /\ pid' = p
     /\ UNCHANGED <<lk, pt, state>>

(* self.lock.release() at the end of acquire *)
AcquireDone(p) ==
  /\ GoesTo(p, "locked", "cs")
  /\ lk' = None
  /\ UNCHANGED <<taken, pid, pt, state>>

(* Mutation: sleep gives lk back before it has ptable.lock. *)
SleepLockPt_Late(p) ==
  /\ GoesTo(p, "sleep1", "sleep3")
  /\ lk' = None
  /\ UNCHANGED <<taken, pid, pt, state>>

(* sleep: acquire(&ptable.lock) *)
SleepLockPt(p) ==
  /\ GoesTo(p, "sleep1", "sleep2")
  /\ pt = None /\ pt' = p
  /\ UNCHANGED <<taken, pid, lk, state>>

(* sleep: release(lk) *)
SleepReleaseLk(p) ==
  /\ GoesTo(p, "sleep2", "sleep3")
  /\ lk' = None
  /\ UNCHANGED <<taken, pid, pt, state>>

(* sleep: SLEEPING on this lock's channel, then sched, whose scheduler    *)
(* releases ptable.lock                                                   *)
SleepSched(p) ==
  /\ GoesTo(p, "sleep3", "asleep")
  /\ state' = [state EXCEPT ![p] = "SLEEPING"]
  /\ pt' = None
  /\ UNCHANGED <<taken, pid, lk>>

(* The scheduler takes ptable.lock, resumes the process; sleep releases it. *)
Resume(p) ==
  /\ pt = None /\ state[p] = "RUNNABLE"
  /\ GoesTo(p, "asleep", "relock")
  /\ state' = [state EXCEPT ![p] = "RUNNING"]
  /\ UNCHANGED <<taken, pid, lk, pt>>

(* Mutation: if instead of while around sleep. *)
Relock_NoTest(p) ==
  /\ lk = None /\ lk' = p
  /\ GoesTo(p, "relock", "locked")
  /\ taken' = TRUE /\ pid' = p
  /\ UNCHANGED <<pt, state>>

(* sleep: acquire(lk) *)
Relock(p) ==
  /\ lk = None /\ lk' = p
  /\ GoesTo(p, "relock", "test")
  /\ UNCHANGED <<taken, pid, pt, state>>

(* release: self.lock.acquire() *)
Release(p) ==
  /\ lk = None /\ lk' = p
  /\ GoesTo(p, "cs", "unlock")
  /\ UNCHANGED <<taken, pid, pt, state>>

(* Mutation: release leaves its pid in the lock. *)
Unlocks_KeepsPid(p) ==
  /\ GoesTo(p, "unlock", "wakeup")
  /\ taken' = FALSE
  /\ UNCHANGED <<pid, lk, pt, state>>

(* self.locked = 0; self.pid = 0 *)
Unlocks(p) ==
  /\ GoesTo(p, "unlock", "wakeup")
  /\ taken' = FALSE /\ pid' = None
  /\ UNCHANGED <<lk, pt, state>>

(* wakeup: acquire(&ptable.lock) *)
WakeupLockPt(p) ==
  /\ GoesTo(p, "wakeup", "wakeup2")
  /\ pt = None /\ pt' = p
  /\ UNCHANGED <<taken, pid, lk, state>>

(* wakeup1 and release(&ptable.lock); everybody asleep here sleeps on     *)
(* this lock's channel                                                    *)
Wakeup1(p) ==
  /\ GoesTo(p, "wakeup2", "unlocked")
  /\ state' = [q \in Locker |-> IF state[q] = "SLEEPING" THEN "RUNNABLE" ELSE state[q]]
  /\ pt' = None
  /\ UNCHANGED <<taken, pid, lk>>

ReleaseDone(p) ==
  /\ GoesTo(p, "unlocked", "idle")
  /\ lk' = None
  /\ UNCHANGED <<taken, pid, pt, state>>

(* kill makes a sleeper RUNNABLE although the lock may still be held. *)
Kill(p) ==
  /\ pt = None /\ state[p] = "SLEEPING"
  /\ state' = [state EXCEPT ![p] = "RUNNABLE"]
  /\ UNCHANGED <<taken, pid, lk, pt, doing>>

Step(p) ==
  \/ Test(p) \/ AcquireDone(p) \/ SleepLockPt(p) \/ SleepReleaseLk(p) \/ SleepSched(p)
  \/ Resume(p) \/ Relock(p) \/ Release(p) \/ Unlocks(p) \/ WakeupLockPt(p)
  \/ Wakeup1(p) \/ ReleaseDone(p)

LockNext == \E p \in Locker : Acquire(p) \/ Step(p) \/ Kill(p)

LockSpec == LockInit /\ [][LockNext]_lockVars

-----------------------------------------------------------------------------
(* is_locked, for the process p: what iunlock, brelse and bwrite assert. *)
is_locked(p) == taken /\ pid = p

Inside == {"locked", "cs", "unlock"}

(* is_locked answers whether the caller is inside the lock, and nobody    *)
(* else is: the sleep lock excludes although acquire gives lk up while it *)
(* waits.                                                                 *)
Exclusion ==
  \A p \in Locker : is_locked(p) <=> doing[p] \in Inside

(* No wakeup is lost: when a process sleeps on the lock, the lock is held *)
(* by somebody who has yet to release it, or its wakeup is under way.     *)
NoLostWakeup ==
  (\E p \in Locker : state[p] = "SLEEPING") =>
    \E q \in Locker : doing[q] \in Inside \cup {"wakeup", "wakeup2"}

M == INSTANCE Mutex WITH Proc <- Locker, holder <- pid

(* The sleep lock implements the abstract mutex, with SleepLockC.pid as   *)
(* the holder: it goes from one process to the next through 0 only.       *)
RefinesMutex == M!Spec
=============================================================================
