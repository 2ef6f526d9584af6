------------------------------ MODULE MCLocks -------------------------------
(***************************************************************************)
(* Locks and sleeping: spin locks and context switches with two CPUs, two  *)
(* processes, ptable.lock and one lock that comes before it in the order;  *)
(* and the users of sleep and wakeup: a sleep lock, the clock and the      *)
(* console.  They share no state, so a behaviour is one of one of them:    *)
(* which, is chosen at the start.  The keys and the ticks of a behaviour   *)
(* are bounded, so the clock and the console may stop.                     *)
(***************************************************************************)
EXTENDS SpinLock, SleepLock, Clock, Console, TLC

CONSTANTS c1, c2, p1, p2, l1, l2

VARIABLE part

MCCPU == {c1, c2}
MCProc == {p1, p2}
MCLock == {l1, l2}
MCRank == [l \in MCLock |-> IF l = l2 THEN 2 ELSE 1]
Symmetry == Permutations(MCCPU) \cup Permutations(MCProc)

MCText == {<<"o", "\n">>}

MCInit ==
  /\ Init /\ LockInit /\ ClockInit /\ ConsoleInit
  /\ part \in {"spinlock", "sleeplock", "clock", "console"}

MCNext ==
  /\ UNCHANGED part
  /\ \/ part = "spinlock" /\ Next /\ UNCHANGED <<lockVars, clockVars, consVars>>
     \/ part = "sleeplock" /\ LockNext /\ UNCHANGED <<vars, clockVars, consVars>>
     \/ part = "clock" /\ ClockNext /\ UNCHANGED <<vars, lockVars, consVars>>
     \/ part = "console" /\ ConsoleNext /\ UNCHANGED <<vars, lockVars, clockVars>>
     \/ part \in {"clock", "console"} /\ UNCHANGED <<vars, lockVars, clockVars, consVars>>

MCSpec == MCInit /\ [][MCNext]_<<part, vars, lockVars, clockVars, consVars>>
=============================================================================
