---------------------------- MODULE SleepProofs -----------------------------
(***************************************************************************)
(* The users of sleep and wakeup that stand alone.  The sleep lock         *)
(* excludes, loses no wakeup and implements the mutex, for any set of      *)
(* processes; sys_sleep keeps its time, for any number of processes, any   *)
(* wrap of the tick counter and any number of interrupts; the console      *)
(* wakes its readers and implements the terminal, for any readers, keys    *)
(* and texts and any size of its line buffer.                              *)
(***************************************************************************)
EXTENDS SleepLock, Clock, Console, SequenceTheorems, TLAPS

(* Who holds the two spin locks, and who is switched out. *)
SpinInv ==
  \A p \in Locker :
    /\ lk = p <=> doing[p] \in {"test", "sleep1", "sleep2", "locked",
                             "unlock", "wakeup", "wakeup2", "unlocked"}
    /\ pt = p <=> doing[p] \in {"sleep2", "sleep3", "wakeup2"}
    /\ state[p] = "RUNNING" <=> doing[p] # "asleep"

(* pid is set exactly when taken is. *)
PidInv == taken <=> pid # None

(* Between its test of taken and its SLEEPING a process holds lk or pt,  *)
(* so the holder cannot get past wakeup's acquire(&ptable.lock).          *)
SleepInv ==
  \A p \in Locker :
    /\ doing[p] \in {"sleep1", "sleep2"} => taken
    /\ doing[p] = "sleep3" => taken \/ \E q \in Locker : doing[q] = "wakeup"
    /\ state[p] = "SLEEPING" => taken \/ \E q \in Locker : doing[q] \in {"wakeup", "wakeup2"}

IInv == LockTypeOK /\ SpinInv /\ PidInv /\ Exclusion /\ SleepInv

LEMMA InitIInv == LockInit => IInv
BY NoneAssumption, Zenon DEF LockInit, IInv, LockTypeOK, LockerAt, SpinInv, PidInv, Exclusion, is_locked,
   Inside, SleepInv

(* Every step preserves the invariant; one case per operation. *)
LEMMA NextIInv == IInv /\ [LockNext]_lockVars => IInv'
<1> SUFFICES ASSUME IInv, [LockNext]_lockVars PROVE IInv'
  OBVIOUS
<1> USE NoneAssumption DEF IInv, GoesTo, LockTypeOK, LockerAt, SpinInv, PidInv, Exclusion,
        is_locked, Inside, SleepInv
<1>1. ASSUME NEW p \in Locker, Acquire(p) PROVE IInv'
  BY <1>1 DEF Acquire
<1>2. ASSUME NEW p \in Locker, Test(p) PROVE IInv'
  <2>1. CASE taken
    BY <1>2, <2>1 DEF Test
  <2>2. CASE ~taken
    <3>1. doing[p] = "test" /\ taken' /\ pid' = p /\ UNCHANGED <<lk, pt, state>>
      BY <1>2, <2>2 DEF Test
    <3>2. doing' = [doing EXCEPT ![p] = "locked"]
      BY <1>2, <2>2 DEF Test
    <3>3. \A q \in Locker : doing[q] \notin Inside
      BY <2>2
    <3>4. LockTypeOK' /\ SpinInv' /\ PidInv'
      BY <2>2, <3>1, <3>2
    <3>5. Exclusion'
      BY <3>1, <3>2, <3>3
    <3>6. SleepInv'
      BY <3>1
    <3> QED
      BY <3>4, <3>5, <3>6
  <2> QED
    BY <2>1, <2>2
<1>3. ASSUME NEW p \in Locker, AcquireDone(p) PROVE IInv'
  BY <1>3 DEF AcquireDone
<1>4. ASSUME NEW p \in Locker, SleepLockPt(p) PROVE IInv'
  BY <1>4 DEF SleepLockPt
<1>5. ASSUME NEW p \in Locker, SleepReleaseLk(p) PROVE IInv'
  BY <1>5 DEF SleepReleaseLk
<1>6. ASSUME NEW p \in Locker, SleepSched(p) PROVE IInv'
  BY <1>6 DEF SleepSched
<1>7. ASSUME NEW p \in Locker, Resume(p) PROVE IInv'
  BY <1>7 DEF Resume
<1>8. ASSUME NEW p \in Locker, Relock(p) PROVE IInv'
  BY <1>8 DEF Relock
<1>9. ASSUME NEW p \in Locker, Release(p) PROVE IInv'
  BY <1>9 DEF Release
<1>10. ASSUME NEW p \in Locker, Unlocks(p) PROVE IInv'
  BY <1>10, ZenonT(40) DEF Unlocks
<1>11. ASSUME NEW p \in Locker, WakeupLockPt(p) PROVE IInv'
  BY <1>11 DEF WakeupLockPt
<1>12. ASSUME NEW p \in Locker, Wakeup1(p) PROVE IInv'
  BY <1>12 DEF Wakeup1
<1>13. ASSUME NEW p \in Locker, ReleaseDone(p) PROVE IInv'
  BY <1>13 DEF ReleaseDone
<1>14. ASSUME NEW p \in Locker, Kill(p) PROVE IInv'
  BY <1>14 DEF Kill
<1>15. CASE UNCHANGED lockVars
  BY <1>15 DEF lockVars
<1> QED
  BY <1>1, <1>2, <1>3, <1>4, <1>5, <1>6, <1>7, <1>8, <1>9, <1>10, <1>11, <1>12, Zenon,
     <1>13, <1>14, <1>15 DEF LockNext, Step

LEMMA SpecIInv == LockSpec => []IInv
BY InitIInv, NextIInv, PTL DEF LockSpec

(* SleepLockC.acquire and release exclude, and is_locked is exact. *)
THEOREM SleepLockExcludes == LockSpec => []Exclusion
<1>1. IInv => Exclusion
  BY DEF IInv
<1> QED
  BY <1>1, SpecIInv, PTL

(* A process asleep on the lock is always owed a wakeup. *)
THEOREM SleepLockWakes == LockSpec => []NoLostWakeup
<1>1. IInv => NoLostWakeup
  <2> SUFFICES ASSUME IInv, NEW p \in Locker, state[p] = "SLEEPING"
               PROVE  \E q \in Locker : doing[q] \in Inside \cup {"wakeup", "wakeup2"}
    BY DEF NoLostWakeup
  <2>1. CASE taken
    BY <2>1 DEF IInv, PidInv, LockTypeOK, Exclusion, is_locked
  <2>2. CASE ~taken
    BY <2>2 DEF IInv, SleepInv
  <2> QED
    BY <2>1, <2>2
<1> QED
  BY <1>1, SpecIInv, PTL

(* Every step of the sleep lock is a step of the mutex, or none. *)
THEOREM SleepLockRefinesMutex == LockSpec => RefinesMutex
<1>1. LockInit => M!Init
  BY DEF LockInit, M!Init
<1>2. IInv /\ [LockNext]_lockVars => [M!Next]_pid
  <2> SUFFICES ASSUME IInv, [LockNext]_lockVars, pid' # pid PROVE M!Next
    OBVIOUS
  <2>1. PICK p \in Locker : Test(p) \/ Unlocks(p)
    BY DEF LockNext, Step, lockVars, Acquire, AcquireDone, SleepLockPt, SleepReleaseLk, SleepSched,
       Resume, Relock, Release, WakeupLockPt, Wakeup1, ReleaseDone, Kill
  <2>2. CASE Test(p)
    BY <2>2 DEF Test, IInv, PidInv, M!Next, M!Acquire
  <2>3. CASE Unlocks(p)
    BY <2>3 DEF Unlocks, GoesTo, IInv, Exclusion, is_locked, Inside, M!Next, M!Release
  <2> QED
    BY <2>1, <2>2, <2>3
<1> QED
  BY <1>1, <1>2, SpecIInv, PTL DEF LockSpec, RefinesMutex, M!Spec

-----------------------------------------------------------------------------
(* A process that has read ticks0 and is still in the loop of sys_sleep. *)
Counting == {"test", "sleep", "asleep", "woken"}

(* The inductive invariant: what the loop computes from the counter that   *)
(* wraps is the true number of interrupts until the first full turn of the *)
(* counter, and never more than it; a process between its test and its     *)
(* sleep holds TICKSLOCK, so that no interrupt comes in between; and one   *)
(* that is asleep has seen no interrupt since its test.                    *)
ClockInv ==
  /\ ClockTypeOK
  /\ \A p \in Sleeper :
       /\ at[p] \in Counting =>
            /\ Elapsed(p) <= since[p]
            /\ since[p] < TickWrap => Elapsed(p) = since[p]
       /\ at[p] \in {"test", "sleep"} => tickslock = p
       /\ at[p] \in {"sleep", "asleep"} => Elapsed(p) < want[p]
       /\ at[p] = "slept" => since[p] >= want[p]

-----------------------------------------------------------------------------
(* The unsigned difference, without the modulus. *)
LEMMA Difference ==
  ASSUME NEW a \in 0 .. TickWrap - 1, NEW b \in 0 .. TickWrap - 1
  PROVE  (a + TickWrap - b) % TickWrap = IF a >= b THEN a - b ELSE a - b + TickWrap
<1>1. CASE a >= b
  <2>1. a + TickWrap - b = (a - b) + TickWrap /\ a - b \in 0 .. TickWrap - 1
    BY <1>1, ClockAssumption
  <2> QED BY <1>1, <2>1, ClockAssumption
<1>2. CASE a < b
  BY <1>2, ClockAssumption
<1> QED BY <1>1, <1>2

(* The timer interrupt, without the modulus. *)
LEMMA Ticks ==
  ASSUME NEW a \in 0 .. TickWrap - 1
  PROVE  (a + 1) % TickWrap = IF a = TickWrap - 1 THEN 0 ELSE a + 1
BY ClockAssumption

(* No other step changes the time a process has counted. *)
LEMMA StepKeepsElapsed ==
  ASSUME UNCHANGED <<TICKS, ticks0>>
  PROVE  \A q \in Sleeper : Elapsed(q)' = Elapsed(q)
BY DEF Elapsed

LEMMA ElapsedNat ==
  ASSUME ClockTypeOK, NEW q \in Sleeper
  PROVE  Elapsed(q) \in 0 .. TickWrap - 1
BY ClockAssumption, Difference DEF Elapsed, ClockTypeOK

(* An interrupt counts one more, in the counter and in truth. *)
LEMMA TickCounts ==
  ASSUME ClockTypeOK, TICKS' = (TICKS + 1) % TickWrap, UNCHANGED ticks0, NEW q \in Sleeper
  PROVE  Elapsed(q)' = IF Elapsed(q) = TickWrap - 1 THEN 0 ELSE Elapsed(q) + 1
<1>1. TICKS \in 0 .. TickWrap - 1 /\ ticks0[q] \in 0 .. TickWrap - 1
  BY DEF ClockTypeOK
<1>2. TICKS' = (IF TICKS = TickWrap - 1 THEN 0 ELSE TICKS + 1) /\ TICKS' \in 0 .. TickWrap - 1
  BY <1>1, Ticks, ClockAssumption
<1>3. Elapsed(q) = IF TICKS >= ticks0[q] THEN TICKS - ticks0[q] ELSE TICKS - ticks0[q] + TickWrap
  BY <1>1, Difference DEF Elapsed
<1>4. Elapsed(q)' = IF TICKS' >= ticks0[q] THEN TICKS' - ticks0[q] ELSE TICKS' - ticks0[q] + TickWrap
  BY <1>1, <1>2, Difference DEF Elapsed
<1> QED BY <1>1, <1>2, <1>3, <1>4, ClockAssumption

LEMMA ClockInitInv == ClockInit => ClockInv
BY ClockAssumption DEF ClockInit, ClockInv, ClockTypeOK, Counting, Outside

LEMMA ClockStepInv == ClockInv /\ [ClockNext]_clockVars => ClockInv'
<1> SUFFICES ASSUME ClockInv, [ClockNext]_clockVars PROVE ClockInv'
  OBVIOUS
<1> USE ClockAssumption DEF ClockInv, Counting, Outside
<1>1. CASE TimerInterrupt
  <2>1. \A q \in Sleeper :
          /\ Elapsed(q) \in 0 .. TickWrap - 1
          /\ Elapsed(q)' = IF Elapsed(q) = TickWrap - 1 THEN 0 ELSE Elapsed(q) + 1
    BY <1>1, ElapsedNat, TickCounts DEF TimerInterrupt
  <2>2. ClockTypeOK'
    BY <1>1, Ticks DEF TimerInterrupt, ClockTypeOK
  <2>3. ASSUME NEW q \in Sleeper, at'[q] \in Counting
        PROVE  at'[q] = "woken" /\ at[q] \in {"asleep", "woken"} /\ since'[q] = since[q] + 1
    BY <1>1, <2>3 DEF TimerInterrupt, ClockTypeOK
  <2>4. \A q \in Sleeper : at'[q] = "slept" => at[q] = "slept" /\ since'[q] = since[q] /\ want'[q] = want[q]
    BY <1>1 DEF TimerInterrupt, ClockTypeOK
  <2> QED BY <2>1, <2>2, <2>3, <2>4 DEF ClockTypeOK
<1>2. ASSUME NEW p \in Sleeper, NEW k \in -1 .. TickWrap - 2, SysSleep(p, k) PROVE ClockInv'
  <2>1. k % TickWrap \in 0 .. TickWrap - 1
    OBVIOUS
  <2> QED BY <1>2, <2>1, StepKeepsElapsed DEF SysSleep, ClockTypeOK
<1>3. ASSUME NEW p \in Sleeper, StartSleep(p) PROVE ClockInv'
  <2>1. Elapsed(p)' = 0
    BY <1>3, Difference DEF StartSleep, ClockTypeOK, Elapsed
  <2>2. \A q \in Sleeper \ {p} : Elapsed(q)' = Elapsed(q)
    BY <1>3 DEF StartSleep, ClockTypeOK, Elapsed
  <2> QED BY <1>3, <2>1, <2>2 DEF StartSleep, ClockTypeOK
<1>4. ASSUME NEW p \in Sleeper, TestTicks(p) PROVE ClockInv'
  BY <1>4, StepKeepsElapsed, ElapsedNat DEF TestTicks, ClockTypeOK
<1>5. ASSUME NEW p \in Sleeper, SleepOnTicks(p) PROVE ClockInv'
  BY <1>5, StepKeepsElapsed DEF SleepOnTicks, ClockTypeOK
<1>6. ASSUME NEW p \in Sleeper, WakeOnTicks(p) PROVE ClockInv'
  BY <1>6, StepKeepsElapsed DEF WakeOnTicks, ClockTypeOK
<1>7. ASSUME NEW p \in Sleeper, KillSleeper(p) PROVE ClockInv'
  BY <1>7, StepKeepsElapsed DEF KillSleeper, ClockTypeOK
<1>8. CASE UNCHANGED clockVars
  BY <1>8, StepKeepsElapsed DEF clockVars, ClockTypeOK
<1> QED BY <1>1, <1>2, <1>3, <1>4, <1>5, <1>6, <1>7, <1>8, Zenon DEF ClockNext

LEMMA ClockInvExact == ClockInv => SleepExact
<1> SUFFICES ASSUME ClockInv, NEW p \in Sleeper
             PROVE  /\ at[p] \in {"sleep", "asleep"} => since[p] < want[p] \/ since[p] >= TickWrap
                    /\ at[p] = "slept" => since[p] >= want[p]
  BY DEF SleepExact
<1>1. since[p] \in Nat /\ want[p] \in 0 .. TickWrap - 1 /\ Elapsed(p) \in 0 .. TickWrap - 1
  BY ElapsedNat DEF ClockInv, ClockTypeOK
<1> QED BY <1>1, ClockAssumption DEF ClockInv, Counting

-----------------------------------------------------------------------------
(* For any number of processes and any size of the counter, sys_sleep     *)
(* (src/kernel/c/sysproc.c) sleeps neither too long nor too short.        *)
THEOREM SleepKeepsTime == ClockSpec => []SleepExact
BY ClockInitInv, ClockStepInv, ClockInvExact, PTL DEF ClockSpec
-----------------------------------------------------------------------------
(* The inductive invariant: a reader in the loop of consoleread holds      *)
(* cons.lock, up to the step that puts it to sleep; and nothing is left in *)
(* the line buffer when a reader is about to sleep or asleep.              *)
ConsoleInv ==
  /\ loc \in [Reader -> ReaderAt]
  /\ \A p \in Reader :
       /\ loc[p] \in {"loop", "sleep"} => consLock = p
       /\ loc[p] \in {"sleep", "asleep"} => r = w

LEMMA ConsoleInitInv == ConsoleInit => ConsoleInv
BY Zenon DEF ConsoleInit, ConsoleInv, ReaderAt

(* A key hands a line over only together with a wakeup. *)
LEMMA KeyWakes ==
  ASSUME ConsoleInv, NEW c, consoleintr(c)
  PROVE  ConsoleInv'
<1>1. consLock = Noone /\ consLock' = consLock
  BY DEF consoleintr
<1>2. \A p \in Reader : loc[p] \notin {"loop", "sleep"}
  BY <1>1, ConsoleAssumption DEF ConsoleInv
<1>3. ASSUME UNCHANGED <<r, w, loc>> PROVE ConsoleInv'
  BY <1>1, <1>3 DEF ConsoleInv
<1>4. ASSUME NEW d, Insert(d) PROVE ConsoleInv'
  <2>1. loc' = [p \in Reader |-> IF Wakes(d, e') /\ loc[p] = "asleep" THEN "woken" ELSE loc[p]]
    BY <1>4 DEF Insert
  <2>2. UNCHANGED r /\ (~Wakes(d, e') => w' = w)
    BY <1>4 DEF Insert, Wakes
  <2>3. loc' \in [Reader -> ReaderAt]
    BY <2>1 DEF ConsoleInv, ReaderAt
  <2>4. \A p \in Reader : loc'[p] \notin {"loop", "sleep"}
    BY <1>2, <2>1
  <2>5. \A p \in Reader : loc'[p] = "asleep" => loc[p] = "asleep" /\ ~Wakes(d, e')
    BY <2>1
  <2> QED BY <2>2, <2>3, <2>4, <2>5 DEF ConsoleInv
<1> QED BY <1>3, <1>4 DEF consoleintr, Erase, input

LEMMA ConsoleStepInv == ConsoleInv /\ [ConsoleNext]_consVars => ConsoleInv'
<1> SUFFICES ASSUME ConsoleInv, [ConsoleNext]_consVars PROVE ConsoleInv'
  OBVIOUS
<1> USE ConsoleAssumption DEF ConsoleInv, ReaderAt, Move, input
<1>1. ASSUME NEW c \in Keys, consoleintr(c) PROVE ConsoleInv'
  BY <1>1, KeyWakes
<1>2. ASSUME NEW p \in Reader, NEW k \in 0 .. MaxRead, CallConsole(p, k) PROVE ConsoleInv'
  BY <1>2 DEF CallConsole
<1>3. ASSUME NEW p \in Reader, WakeConsole(p) PROVE ConsoleInv'
  BY <1>3 DEF WakeConsole
<1>4. ASSUME NEW p \in Reader, consoleread(p) PROVE ConsoleInv'
  <2>1. loc[p] = "loop" /\ consLock = p /\ w' = w
    BY <1>4 DEF consoleread
  <2>2. \A q \in Reader \ {p} : loc[q] \notin {"loop", "sleep"}
    BY <2>1
  <2>3. CASE Leave(p) /\ UNCHANGED r
    BY <2>1, <2>2, <2>3 DEF Leave
  <2>4. CASE r = w /\ Move(p, "sleep") /\ UNCHANGED <<r, consLock>>
    BY <2>1, <2>2, <2>4
  <2>5. CASE r # w /\ (Leave(p) \/ UNCHANGED <<consLock, loc>>)
    BY <2>1, <2>2, <2>5 DEF Leave
  <2> QED BY <1>4, <2>3, <2>4, <2>5 DEF consoleread
<1>5. ASSUME NEW p \in Reader, SleepConsole(p) PROVE ConsoleInv'
  BY <1>5 DEF SleepConsole
<1>6. ASSUME NEW p \in Reader, KillReader(p) PROVE ConsoleInv'
  BY <1>6 DEF KillReader
<1>7. ASSUME NEW text \in Text, consolewrite(text) PROVE ConsoleInv'
  BY <1>7 DEF consolewrite
<1>8. CASE UNCHANGED consVars
  BY <1>8 DEF consVars
<1> QED BY <1>1, <1>2, <1>3, <1>4, <1>5, <1>6, <1>7, <1>8 DEF ConsoleNext

-----------------------------------------------------------------------------
(* For any number of readers and any size of the line buffer, no reader   *)
(* of the console sleeps while there is something to read: consoleread    *)
(* and consoleintr (src/kernel/c/console.c) lose no wakeup.               *)
THEOREM ConsoleWakes == ConsoleSpec => []ReadersWoken
<1>1. ConsoleInv => ReadersWoken
  BY DEF ConsoleInv, ReadersWoken
<1> QED BY <1>1, ConsoleInitInv, ConsoleStepInv, PTL DEF ConsoleSpec

-----------------------------------------------------------------------------
(* Division with a remainder. *)
LEMMA Divides == ASSUME NEW m \in Nat \ {0}, NEW a \in Int
  PROVE a \div m \in Int /\ a % m \in 0 .. m - 1 /\ a = m * (a \div m) + (a % m)
OBVIOUS

LEMMA Multiple == ASSUME NEW m \in Nat \ {0}, NEW x \in Int, NEW y \in Int
  PROVE m * (x - y) = m * x - m * y /\ m * (x + y) = m * x + m * y /\ (x > 0 => m * x >= m) /\ m * x \in Int
OBVIOUS

LEMMA Remainder ==
  ASSUME NEW m \in Nat \ {0}, NEW x \in Int, NEW d \in 0 .. m - 1, NEW a \in Int, a = m * x + d
  PROVE  a % m = d
<1> DEFINE y == a \div m
           g == a % m
<1>1. y \in Int /\ g \in 0 .. m - 1 /\ a = m * y + g
  BY Divides
<1> HIDE DEF y, g
<1>2. y - x \in Int /\ x - y \in Int
  BY <1>1
<1>3. /\ m * (y - x) = m * y - m * x /\ m * (x - y) = m * x - m * y
      /\ m * x \in Int /\ m * y \in Int
      /\ (y - x > 0 => m * (y - x) >= m) /\ (x - y > 0 => m * (x - y) >= m)
  BY <1>1, <1>2, Multiple
<1>4. ~(y - x > 0) /\ ~(x - y > 0)
  BY <1>1, <1>3
<1>5. y = x
  BY <1>1, <1>4
<1>6. g = d
  BY <1>1, <1>3, <1>5
<1> QED BY <1>6 DEF g

(* A multiple of m changes no remainder, *)
LEMMA SameRemainder ==
  ASSUME NEW m \in Nat \ {0}, NEW a \in Int, NEW k \in Int
  PROVE  (m * k + a) % m = a % m
<1> DEFINE x == a \div m
           d == a % m
<1>1. x \in Int /\ d \in 0 .. m - 1 /\ a = m * x + d
  BY Divides
<1> HIDE DEF x, d
<1>2. m * (x + k) = m * x + m * k /\ m * x \in Int /\ m * k \in Int
  BY <1>1, Multiple
<1>3. m * k + a = m * (x + k) + d /\ m * k + a \in Int /\ x + k \in Int
  BY <1>1, <1>2
<1>4. (m * k + a) % m = d
  BY <1>1, <1>3, Remainder
<1> QED BY <1>4 DEF d

(* less than m does. *)
LEMMA OtherRemainder ==
  ASSUME NEW m \in Nat \ {0}, NEW a \in Int, NEW g \in 1 .. m - 1
  PROVE  (a + g) % m # a % m
<1> DEFINE x == a \div m
           d == a % m
<1>1. x \in Int /\ d \in 0 .. m - 1 /\ a = m * x + d
  BY Divides
<1>2. d = a % m
  OBVIOUS
<1> HIDE DEF x, d
<1>3. m * (x + 1) = m * x + m /\ m * x \in Int /\ x + 1 \in Int
  BY <1>1, Multiple
<1>4. CASE d + g < m
  <2>1. a + g = m * x + (d + g) /\ d + g \in 0 .. m - 1 /\ a + g \in Int
    BY <1>1, <1>3, <1>4
  <2>2. (a + g) % m = d + g
    BY <1>1, <2>1, Remainder
  <2> QED BY <1>1, <1>2, <2>2
<1>5. CASE d + g >= m
  <2> DEFINE z == x + 1
             h == d + g - m
  <2>1. a + g = m * z + h /\ h \in 0 .. m - 1 /\ a + g \in Int /\ z \in Int
    BY <1>1, <1>3, <1>5
  <2>2. (a + g) % m = h
    <3> HIDE DEF z, h
    <3> QED BY <2>1, Remainder, Zenon
  <2> QED BY <1>1, <1>2, <2>2
<1> QED BY <1>1, <1>4, <1>5

-----------------------------------------------------------------------------
(* The indices, without the modulus. *)
LEMMA ConsoleSizes ==
  /\ INPUT_BUF \in Nat \ {0} /\ IndexWrap \in Nat \ {0} /\ INPUT_BUF < IndexWrap
  /\ StartIndex \in 0 .. IndexWrap - 1
BY ConsoleAssumption

LEMMA OnceAround ==
  ASSUME NEW a \in 0 .. 2 * IndexWrap - 1
  PROVE  a % IndexWrap = IF a < IndexWrap THEN a ELSE a - IndexWrap
<1>1. CASE a < IndexWrap
  BY <1>1, ConsoleSizes
<1>2. CASE a >= IndexWrap
  <2>1. a = IndexWrap * 1 + (a - IndexWrap) /\ a - IndexWrap \in 0 .. IndexWrap - 1
    BY <1>2, ConsoleSizes
  <2> QED BY <1>2, <2>1, ConsoleSizes, Remainder
<1> QED BY <1>1, <1>2, ConsoleSizes

LEMMA PlusIs ==
  ASSUME NEW a \in 0 .. IndexWrap - 1, NEW k \in 0 .. IndexWrap
  PROVE  /\ Plus(a, k) = IF a + k < IndexWrap THEN a + k ELSE a + k - IndexWrap
         /\ Plus(a, k) \in 0 .. IndexWrap - 1
<1> DEFINE b == a + k
<1>1. b \in 0 .. 2 * IndexWrap - 1
  BY ConsoleSizes
<1>2. b % IndexWrap = IF b < IndexWrap THEN b ELSE b - IndexWrap
  <2> HIDE DEF b
  <2> QED BY <1>1, OnceAround
<1> QED BY <1>2, ConsoleSizes DEF Plus

LEMMA MinusIs ==
  ASSUME NEW a \in 0 .. IndexWrap - 1, NEW k \in 0 .. IndexWrap - 1
  PROVE  /\ Minus(a, k) = IF a >= k THEN a - k ELSE a - k + IndexWrap
         /\ Minus(a, k) \in 0 .. IndexWrap - 1
<1> DEFINE b == a + IndexWrap - k
<1>1. b \in 0 .. 2 * IndexWrap - 1
  BY ConsoleSizes
<1>2. b % IndexWrap = IF b < IndexWrap THEN b ELSE b - IndexWrap
  <2> HIDE DEF b
  <2> QED BY <1>1, OnceAround
<1> QED BY <1>2, ConsoleSizes DEF Minus

(* An index that has wrapped is at the slot it would be at otherwise. *)
LEMMA SameSlot ==
  ASSUME NEW a \in Int
  PROVE  (a - IndexWrap) % INPUT_BUF = a % INPUT_BUF
<1> DEFINE x == IndexWrap \div INPUT_BUF
<1>1. x \in Int /\ IndexWrap = INPUT_BUF * x
  BY ConsoleAssumption, Divides
<1> HIDE DEF x
<1> DEFINE k == -x
<1>2. k \in Int /\ INPUT_BUF * k = - IndexWrap
  BY <1>1, ConsoleSizes
<1> HIDE DEF k
<1>3. a - IndexWrap = INPUT_BUF * k + a
  BY <1>2, ConsoleSizes
<1> QED BY <1>2, <1>3, ConsoleSizes, SameRemainder, Zenon

-----------------------------------------------------------------------------
(* n characters of b from index i on. *)
Chars(b, i, n) == [k \in 1 .. n |-> b[(i + k - 1) % INPUT_BUF]]

Buffers == [0 .. INPUT_BUF - 1 -> Stored \cup {"old"}]

LEMMA CharsSeq ==
  ASSUME NEW b \in Buffers, NEW i \in Int, NEW n \in Nat
  PROVE  /\ Chars(b, i, n) \in Seq(Stored \cup {"old"}) /\ Len(Chars(b, i, n)) = n
         /\ \A k \in 1 .. n : Chars(b, i, n)[k] = b[(i + k - 1) % INPUT_BUF]
<1>1. \A k \in 1 .. n : (i + k - 1) % INPUT_BUF \in 0 .. INPUT_BUF - 1
  BY Divides, ConsoleSizes
<1>2. Chars(b, i, n) \in [1 .. n -> Stored \cup {"old"}]
  BY <1>1, Zenon DEF Chars, Buffers
<1>3. Chars(b, i, n) \in Seq(Stored \cup {"old"})
  BY <1>2, SeqDef
<1>4. Len(Chars(b, i, n)) = n
  BY <1>2, <1>3, LenProperties
<1> QED BY <1>3, <1>4 DEF Chars

(* Only the slots count. *)
LEMMA CharsEqual ==
  ASSUME NEW b, NEW d, NEW i \in Int, NEW j \in Int, NEW n \in Nat,
         \A k \in 1 .. n : b[(i + k - 1) % INPUT_BUF] = d[(j + k - 1) % INPUT_BUF]
  PROVE  Chars(b, i, n) = Chars(d, j, n)
BY Zenon DEF Chars

LEMMA CharsWrap ==
  ASSUME NEW b, NEW i \in Int, NEW n \in Nat
  PROVE  Chars(b, i - IndexWrap, n) = Chars(b, i, n)
<1> DEFINE j == i - IndexWrap
<1>1. ASSUME NEW k \in 1 .. n PROVE (j + k - 1) % INPUT_BUF = (i + k - 1) % INPUT_BUF
  <2> DEFINE a == i + k - 1
  <2>1. a \in Int /\ j + k - 1 = a - IndexWrap
    BY ConsoleSizes
  <2>2. (a - IndexWrap) % INPUT_BUF = a % INPUT_BUF
    <3> HIDE DEF a
    <3> QED BY <2>1, SameSlot
  <2> QED BY <2>1, <2>2
<1> HIDE DEF j
<1>2. \A k \in 1 .. n : b[(j + k - 1) % INPUT_BUF] = b[(i + k - 1) % INPUT_BUF]
  BY <1>1, Zenon
<1>3. Chars(b, j, n) = Chars(b, i, n)
  BY <1>2, Zenon DEF Chars
<1> QED BY <1>3, Zenon DEF j

(* What is between two indices. *)
LEMMA BetweenChars ==
  ASSUME NEW b, NEW i \in 0 .. IndexWrap - 1, NEW n \in 0 .. IndexWrap - 1
  PROVE  [k \in 1 .. n |-> b[Plus(i, k - 1) % INPUT_BUF]] = Chars(b, i, n)
<1> SUFFICES ASSUME NEW k \in 1 .. n PROVE Plus(i, k - 1) % INPUT_BUF = (i + k - 1) % INPUT_BUF
  BY Zenon DEF Chars
<1> DEFINE a == i + k - 1
           h == k - 1
<1>1. h \in 0 .. IndexWrap /\ a \in Int /\ i + h = a
  BY ConsoleSizes
<1>2. Plus(i, h) = a \/ Plus(i, h) = a - IndexWrap
  <2> HIDE DEF a, h
  <2>1. Plus(i, h) = IF i + h < IndexWrap THEN i + h ELSE i + h - IndexWrap
    BY <1>1, PlusIs
  <2> QED BY <1>1, <2>1, ConsoleSizes
<1>3. (a - IndexWrap) % INPUT_BUF = a % INPUT_BUF
  <2> HIDE DEF a
  <2> QED BY <1>1, SameSlot
<1> QED BY <1>2, <1>3

(* One after the other. *)
LEMMA CharsJoin ==
  ASSUME NEW b \in Buffers, NEW i \in Int, NEW m \in Nat, NEW n \in Nat
  PROVE  Chars(b, i, m + n) = Chars(b, i, m) \o Chars(b, i + m, n)
<1> DEFINE s == Chars(b, i, m + n)
           t == Chars(b, i, m)
           u == Chars(b, i + m, n)
           C == Stored \cup {"old"}
<1>1. s \in Seq(C) /\ Len(s) = m + n /\ \A k \in 1 .. m + n : s[k] = b[(i + k - 1) % INPUT_BUF]
  BY CharsSeq
<1>2. t \in Seq(C) /\ Len(t) = m /\ \A k \in 1 .. m : t[k] = b[(i + k - 1) % INPUT_BUF]
  BY CharsSeq
<1>3. u \in Seq(C) /\ Len(u) = n /\ \A k \in 1 .. n : u[k] = b[((i + m) + k - 1) % INPUT_BUF]
  BY CharsSeq
<1> HIDE DEF s, t, u, C
<1>4. /\ t \o u \in Seq(C) /\ Len(t \o u) = m + n
      /\ \A k \in 1 .. m + n : (t \o u)[k] = IF k <= m THEN t[k] ELSE u[k - m]
  <2>1. /\ t \o u \in Seq(C) /\ Len(t \o u) = Len(t) + Len(u)
        /\ \A k \in 1 .. Len(t) + Len(u) : (t \o u)[k] = IF k <= Len(t) THEN t[k] ELSE u[k - Len(t)]
    BY <1>2, <1>3, ConcatProperties, Zenon
  <2> QED BY <1>2, <1>3, <2>1, Zenon
<1>5. ASSUME NEW k \in 1 .. m + n PROVE s[k] = (t \o u)[k]
  <2>1. CASE k <= m
    <3>1. k \in 1 .. m
      BY <2>1
    <3> QED BY <1>1, <1>2, <1>4, <2>1, <3>1, Zenon
  <2>2. CASE ~(k <= m)
    <3>1. k - m \in 1 .. n /\ (i + m) + (k - m) - 1 = i + k - 1
      BY <2>2
    <3> QED BY <1>1, <1>3, <1>4, <2>2, <3>1, Zenon
  <2> QED BY <2>1, <2>2, Zenon
<1>6. s = t \o u
  BY <1>1, <1>4, <1>5, SeqEqual, Zenon
<1> QED BY <1>6 DEF s, t, u

(* A character put behind the last one overwrites none of the others. *)
LEMMA CharsPut ==
  ASSUME NEW b \in Buffers, NEW i \in Int, NEW n \in 0 .. INPUT_BUF - 1, NEW c \in Stored
  PROVE  /\ [b EXCEPT ![(i + n) % INPUT_BUF] = c] \in Buffers
         /\ Chars([b EXCEPT ![(i + n) % INPUT_BUF] = c], i, n + 1) = Append(Chars(b, i, n), c)
         /\ \A m \in 0 .. n : Chars([b EXCEPT ![(i + n) % INPUT_BUF] = c], i, m) = Chars(b, i, m)
<1> DEFINE d == [b EXCEPT ![(i + n) % INPUT_BUF] = c]
           C == Stored \cup {"old"}
           s == Chars(b, i, n)
           t == Chars(d, i, n + 1)
<1>0. n \in Nat /\ n + 1 \in Nat /\ (i + n) % INPUT_BUF \in 0 .. INPUT_BUF - 1
  BY Divides, ConsoleSizes
<1>1. d \in Buffers
  BY Zenon DEF Buffers
<1>2. ASSUME NEW k \in 1 .. n PROVE d[(i + k - 1) % INPUT_BUF] = b[(i + k - 1) % INPUT_BUF]
  <2> DEFINE a == i + k - 1
             g == n - k + 1
  <2>1. a \in Int /\ g \in 1 .. INPUT_BUF - 1 /\ a + g = i + n
    BY ConsoleSizes
  <2>2. (a + g) % INPUT_BUF # a % INPUT_BUF
    <3> HIDE DEF a, g
    <3> QED BY <2>1, OtherRemainder, ConsoleSizes, Zenon
  <2>3. (i + n) % INPUT_BUF # (i + k - 1) % INPUT_BUF
    BY <2>1, <2>2
  <2>4. (i + k - 1) % INPUT_BUF \in 0 .. INPUT_BUF - 1
    BY Divides, ConsoleSizes
  <2> QED BY <2>3, <2>4 DEF Buffers
<1>3. d[(i + n) % INPUT_BUF] = c
  BY <1>0 DEF Buffers
<1> HIDE DEF d
<1>4. ASSUME NEW m \in 0 .. n PROVE Chars(d, i, m) = Chars(b, i, m)
  <2>1. \A k \in 1 .. m : k \in 1 .. n
    BY <1>0
  <2> QED BY <1>2, <2>1, Zenon DEF Chars
<1>5. s \in Seq(C) /\ Len(s) = n /\ \A k \in 1 .. n : s[k] = b[(i + k - 1) % INPUT_BUF]
  BY <1>0, CharsSeq
<1>6. t \in Seq(C) /\ Len(t) = n + 1 /\ \A k \in 1 .. n + 1 : t[k] = d[(i + k - 1) % INPUT_BUF]
  BY <1>0, <1>1, CharsSeq
<1>7. c \in C
  OBVIOUS
<1> HIDE DEF s, t, C
<1>8. /\ Append(s, c) \in Seq(C) /\ Len(Append(s, c)) = n + 1
      /\ \A k \in 1 .. n : Append(s, c)[k] = s[k]
      /\ Append(s, c)[n + 1] = c
  BY <1>5, <1>7, AppendProperties
<1>9. ASSUME NEW k \in 1 .. n + 1 PROVE t[k] = Append(s, c)[k]
  <2>1. CASE k \in 1 .. n
    <3>1. s[k] = b[(i + k - 1) % INPUT_BUF] /\ Append(s, c)[k] = s[k]
      BY <1>5, <1>8, <2>1, Zenon
    <3>2. t[k] = d[(i + k - 1) % INPUT_BUF]
      BY <1>6, Zenon
    <3> QED BY <1>2, <2>1, <3>1, <3>2, Zenon
  <2>2. CASE k = n + 1
    <3>1. i + k - 1 = i + n
      BY <2>2
    <3> QED BY <1>3, <1>6, <1>8, <2>2, <3>1
  <2>3. k \in 1 .. n \/ k = n + 1
    BY <1>0
  <2> QED BY <2>1, <2>2, <2>3, Zenon
<1>10. t = Append(s, c)
  BY <1>6, <1>8, <1>9, SeqEqual
<1> QED BY <1>1, <1>4, <1>10, Zenon DEF d, s, t

(* The first is taken, *)
LEMMA CharsTake ==
  ASSUME NEW b \in Buffers, NEW i \in Int, NEW n \in Nat \ {0}
  PROVE  Chars(b, i, n) # <<>> /\ Tail(Chars(b, i, n)) = Chars(b, i + 1, n - 1)
<1> DEFINE C == Stored \cup {"old"}
           s == Chars(b, i, n)
           t == Chars(b, i + 1, n - 1)
<1>1. s \in Seq(C) /\ Len(s) = n /\ \A k \in 1 .. n : s[k] = b[(i + k - 1) % INPUT_BUF]
  BY CharsSeq
<1>2. t \in Seq(C) /\ Len(t) = n - 1 /\ \A k \in 1 .. n - 1 : t[k] = b[((i + 1) + k - 1) % INPUT_BUF]
  BY CharsSeq
<1> HIDE DEF s, t, C
<1>3. s # <<>>
  BY <1>1
<1>4. Tail(s) \in Seq(C) /\ Len(Tail(s)) = n - 1 /\ \A k \in 1 .. n - 1 : Tail(s)[k] = s[k + 1]
  BY <1>1, <1>3, HeadTailProperties
<1>5. ASSUME NEW k \in 1 .. n - 1 PROVE Tail(s)[k] = t[k]
  <2>1. k + 1 \in 1 .. n /\ i + (k + 1) - 1 = (i + 1) + k - 1
    OBVIOUS
  <2> QED BY <1>1, <1>2, <1>4, <2>1, ZenonT(40)
<1>6. Tail(s) = t
  BY <1>2, <1>4, <1>5, SeqEqual, Zenon
<1> QED BY <1>3, <1>6 DEF s, t

(* or the last. *)
LEMMA CharsCut ==
  ASSUME NEW b \in Buffers, NEW i \in Int, NEW n \in Nat \ {0}
  PROVE  /\ Chars(b, i, n) # <<>>
         /\ SubSeq(Chars(b, i, n), 1, Len(Chars(b, i, n)) - 1) = Chars(b, i, n - 1)
<1> DEFINE C == Stored \cup {"old"}
           s == Chars(b, i, n)
           t == Chars(b, i, n - 1)
<1>1. s \in Seq(C) /\ Len(s) = n /\ \A k \in 1 .. n : s[k] = b[(i + k - 1) % INPUT_BUF]
  BY CharsSeq
<1>2. t \in Seq(C) /\ Len(t) = n - 1 /\ \A k \in 1 .. n - 1 : t[k] = b[(i + k - 1) % INPUT_BUF]
  BY CharsSeq
<1> HIDE DEF s, t, C
<1>3. s # <<>>
  BY <1>1
<1> DEFINE u == SubSeq(s, 1, n - 1)
<1>4. \A k \in 1 .. n - 1 : s[k] \in C
  BY <1>1
<1>5. /\ u \in Seq(C) /\ Len(u) = n - 1
      /\ \A k \in 1 .. n - 1 : u[k] = s[k]
  BY <1>1, <1>4
<1> HIDE DEF u
<1>6. ASSUME NEW k \in 1 .. n - 1 PROVE u[k] = t[k]
  <2>1. k \in 1 .. n
    OBVIOUS
  <2> QED BY <1>1, <1>2, <1>5, <2>1, Zenon
<1>7. u = t
  BY <1>2, <1>5, <1>6, SeqEqual, Zenon
<1> QED BY <1>1, <1>3, <1>7 DEF s, t, u

-----------------------------------------------------------------------------
(* The queue is from i to j, the line from j to l. *)
LEMMA Distances ==
  ASSUME NEW i \in 0 .. IndexWrap - 1, NEW j \in 0 .. IndexWrap - 1, NEW l \in 0 .. IndexWrap - 1,
         Minus(j, i) + Minus(l, j) <= INPUT_BUF
  PROVE  /\ Minus(j, i) \in Nat /\ Minus(l, j) \in Nat
         /\ Minus(l, i) = Minus(j, i) + Minus(l, j)
         /\ j \in {i + Minus(j, i), (i + Minus(j, i)) - IndexWrap}
         /\ l \in {j + Minus(l, j), (j + Minus(l, j)) - IndexWrap}
         /\ Minus(j, i) = 0 <=> i = j
<1>1. /\ Minus(j, i) = (IF j >= i THEN j - i ELSE j - i + IndexWrap) /\ Minus(j, i) \in 0 .. IndexWrap - 1
      /\ Minus(l, j) = (IF l >= j THEN l - j ELSE l - j + IndexWrap) /\ Minus(l, j) \in 0 .. IndexWrap - 1
      /\ Minus(l, i) = (IF l >= i THEN l - i ELSE l - i + IndexWrap) /\ Minus(l, i) \in 0 .. IndexWrap - 1
  BY MinusIs
<1> QED BY <1>1, ConsoleSizes

(* A character more, *)
LEMMA DistancesPut ==
  ASSUME NEW i \in 0 .. IndexWrap - 1, NEW l \in 0 .. IndexWrap - 1, Minus(l, i) < INPUT_BUF
  PROVE  /\ Plus(l, 1) \in 0 .. IndexWrap - 1
         /\ Minus(Plus(l, 1), i) = Minus(l, i) + 1
         /\ Plus(l, 1) = Plus(i, INPUT_BUF) <=> Minus(l, i) + 1 = INPUT_BUF
<1>1. 1 \in 0 .. IndexWrap /\ INPUT_BUF \in 0 .. IndexWrap
  BY ConsoleSizes
<1>2. /\ Plus(l, 1) = (IF l + 1 < IndexWrap THEN l + 1 ELSE l + 1 - IndexWrap) /\ Plus(l, 1) \in 0 .. IndexWrap - 1
      /\ Plus(i, INPUT_BUF) = IF i + INPUT_BUF < IndexWrap THEN i + INPUT_BUF ELSE i + INPUT_BUF - IndexWrap
  BY <1>1, PlusIs
<1>3. Minus(Plus(l, 1), i) = IF Plus(l, 1) >= i THEN Plus(l, 1) - i ELSE Plus(l, 1) - i + IndexWrap
  BY <1>2, MinusIs, Zenon
<1>4. Minus(l, i) = IF l >= i THEN l - i ELSE l - i + IndexWrap
  BY MinusIs
<1> QED BY <1>2, <1>3, <1>4, ConsoleSizes

(* one less at the front, *)
LEMMA DistancesTake ==
  ASSUME NEW i \in 0 .. IndexWrap - 1, NEW l \in 0 .. IndexWrap - 1, Minus(l, i) > 0
  PROVE  /\ Plus(i, 1) \in 0 .. IndexWrap - 1
         /\ Plus(i, 1) \in {i + 1, i + 1 - IndexWrap}
         /\ Minus(l, Plus(i, 1)) = Minus(l, i) - 1
<1>1. 1 \in 0 .. IndexWrap
  BY ConsoleSizes
<1>2. Plus(i, 1) = (IF i + 1 < IndexWrap THEN i + 1 ELSE i + 1 - IndexWrap) /\ Plus(i, 1) \in 0 .. IndexWrap - 1
  BY <1>1, PlusIs
<1>3. Minus(l, Plus(i, 1)) = IF l >= Plus(i, 1) THEN l - Plus(i, 1) ELSE l - Plus(i, 1) + IndexWrap
  BY <1>2, MinusIs, Zenon
<1>4. Minus(l, i) = IF l >= i THEN l - i ELSE l - i + IndexWrap
  BY MinusIs
<1> QED BY <1>2, <1>3, <1>4, ConsoleSizes

(* some less at the end. *)
LEMMA DistancesErase ==
  ASSUME NEW i \in 0 .. IndexWrap - 1, NEW l \in 0 .. IndexWrap - 1, NEW k \in 0 .. Minus(l, i)
  PROVE  /\ Minus(l, k) \in 0 .. IndexWrap - 1
         /\ Minus(l, k) \in {(i + Minus(l, i)) - k, ((i + Minus(l, i)) - k) - IndexWrap}
         /\ Minus(Minus(l, k), i) = Minus(l, i) - k
<1>1. Minus(l, i) = (IF l >= i THEN l - i ELSE l - i + IndexWrap) /\ Minus(l, i) \in 0 .. IndexWrap - 1
  BY MinusIs
<1>2. k \in 0 .. IndexWrap - 1
  BY <1>1, ConsoleSizes
<1>3. Minus(l, k) = (IF l >= k THEN l - k ELSE l - k + IndexWrap) /\ Minus(l, k) \in 0 .. IndexWrap - 1
  BY <1>2, MinusIs
<1>4. Minus(Minus(l, k), i) = IF Minus(l, k) >= i THEN Minus(l, k) - i ELSE Minus(l, k) - i + IndexWrap
  BY <1>3, MinusIs, Zenon
<1> QED BY <1>1, <1>3, <1>4, ConsoleSizes

-----------------------------------------------------------------------------
(* The line and the queue fit the line buffer, and the line has no end. *)
LineInv ==
  /\ buf \in Buffers
  /\ r \in 0 .. IndexWrap - 1 /\ w \in 0 .. IndexWrap - 1 /\ e \in 0 .. IndexWrap - 1
  /\ Minus(w, r) + Minus(e, w) <= INPUT_BUF
  /\ \A k \in 1 .. Minus(e, w) : buf[(w + k - 1) % INPUT_BUF] \notin {"\n", "^D"}

LEMMA LineInitInv == ConsoleInit => LineInv
<1> SUFFICES ASSUME ConsoleInit PROVE LineInv
  OBVIOUS
<1>1. buf \in Buffers
  BY Zenon DEF ConsoleInit, Buffers
<1>2. r = StartIndex /\ w = StartIndex /\ e = StartIndex
  BY Zenon DEF ConsoleInit
<1>3. Minus(StartIndex, StartIndex) = 0
  BY ConsoleSizes, MinusIs
<1> QED BY <1>1, <1>2, <1>3, ConsoleSizes DEF LineInv

(* The line and the queue, by their lengths. *)
LEMMA LineIs ==
  ASSUME LineInv
  PROVE  /\ Between(w, e) = Chars(buf, w, Minus(e, w)) /\ Between(r, w) = Chars(buf, r, Minus(w, r))
         /\ Minus(e, w) \in Nat /\ Minus(w, r) \in Nat
<1>1. /\ r \in 0 .. IndexWrap - 1 /\ w \in 0 .. IndexWrap - 1 /\ e \in 0 .. IndexWrap - 1
      /\ Minus(e, w) \in 0 .. IndexWrap - 1 /\ Minus(w, r) \in 0 .. IndexWrap - 1
  BY MinusIs DEF LineInv
<1>2. /\ Between(w, e) = [k \in 1 .. Minus(e, w) |-> buf[Plus(w, k - 1) % INPUT_BUF]]
      /\ Between(r, w) = [k \in 1 .. Minus(w, r) |-> buf[Plus(r, k - 1) % INPUT_BUF]]
  BY DEF Between, At
<1>3. Minus(e, w) \in Nat /\ Minus(w, r) \in Nat
  BY <1>1, ConsoleSizes
<1> QED BY <1>1, <1>2, <1>3, BetweenChars, Zenon

LEMMA LineIsNext ==
  ASSUME LineInv'
  PROVE  /\ Between(w, e)' = Chars(buf', w', Minus(e', w')) /\ Between(r, w)' = Chars(buf', r', Minus(w', r'))
         /\ Minus(e', w') \in Nat /\ Minus(w', r') \in Nat
<1>1. /\ r' \in 0 .. IndexWrap - 1 /\ w' \in 0 .. IndexWrap - 1 /\ e' \in 0 .. IndexWrap - 1
      /\ Minus(e', w') \in 0 .. IndexWrap - 1 /\ Minus(w', r') \in 0 .. IndexWrap - 1
  BY MinusIs DEF LineInv
<1>2. /\ Between(w, e)' = [k \in 1 .. Minus(e', w') |-> buf'[Plus(w', k - 1) % INPUT_BUF]]
      /\ Between(r, w)' = [k \in 1 .. Minus(w', r') |-> buf'[Plus(r', k - 1) % INPUT_BUF]]
  BY DEF Between, At, Minus, Plus
<1>3. Minus(e', w') \in Nat /\ Minus(w', r') \in Nat
  BY <1>1, ConsoleSizes
<1> QED BY <1>1, <1>2, <1>3, BetweenChars, Zenon

(* A reader takes a character. *)
LEMMA TakeStep ==
  ASSUME LineInv, r # w, r' = Plus(r, 1), UNCHANGED <<buf, w, e>>
  PROVE  LineInv' /\ T!Take
<1> DEFINE q == Minus(w, r)
<1>1. /\ buf \in Buffers /\ r \in 0 .. IndexWrap - 1 /\ w \in 0 .. IndexWrap - 1 /\ e \in 0 .. IndexWrap - 1
      /\ q + Minus(e, w) <= INPUT_BUF
  BY DEF LineInv
<1>2. q \in Nat \ {0} /\ Minus(e, w) \in Nat
  BY <1>1, Distances
<1>3. r' \in 0 .. IndexWrap - 1 /\ r' \in {r + 1, r + 1 - IndexWrap} /\ Minus(w, r') = q - 1
  BY <1>1, <1>2, DistancesTake
<1>4. LineInv'
  <2>1. Minus(w, r') + Minus(e, w) <= INPUT_BUF
    BY <1>1, <1>2, <1>3, ConsoleSizes
  <2> QED BY <1>1, <1>3, <2>1 DEF LineInv
<1>5. Between(r, w) = Chars(buf, r, q) /\ Between(r, w)' = Chars(buf, r', q - 1)
  BY <1>3, <1>4, LineIs, LineIsNext
<1> HIDE DEF q
<1>6. Chars(buf, r', q - 1) = Chars(buf, r + 1, q - 1)
  <2> DEFINE i == r + 1
             n == q - 1
  <2>1. i \in Int /\ n \in Nat /\ r' \in {i, i - IndexWrap}
    BY <1>1, <1>2, <1>3, ConsoleSizes
  <2>2. Chars(buf, r', n) = Chars(buf, i, n)
    <3> HIDE DEF i, n
    <3> QED BY <2>1, CharsWrap
  <2> QED BY <2>2
<1>7. Chars(buf, r, q) # <<>> /\ Tail(Chars(buf, r, q)) = Chars(buf, r + 1, q - 1)
  <2>1. r \in Int
    BY <1>1, ConsoleSizes
  <2> QED BY <1>1, <1>2, <2>1, CharsTake, Zenon
<1>8. UNCHANGED Between(w, e)
  BY DEF Between, At
<1> QED BY <1>4, <1>5, <1>6, <1>7, <1>8 DEF T!Take

(* ^H and ^U erase from the end of the line, and nothing that was entered. *)
LEMMA EraseStep ==
  ASSUME LineInv, NEW k \in 0 .. Minus(e, w), Erase(k)
  PROVE  /\ LineInv' /\ UNCHANGED Between(r, w)
         /\ Between(w, e)' = Chars(buf, w, Minus(e, w) - k)
<1> DEFINE n == Minus(e, w)
<1>1. /\ buf \in Buffers /\ r \in 0 .. IndexWrap - 1 /\ w \in 0 .. IndexWrap - 1 /\ e \in 0 .. IndexWrap - 1
      /\ Minus(w, r) + n <= INPUT_BUF
      /\ \A j \in 1 .. n : buf[(w + j - 1) % INPUT_BUF] \notin {"\n", "^D"}
  BY DEF LineInv
<1>2. n \in Nat /\ Minus(w, r) \in Nat
  BY LineIs
<1>3. e' = Minus(e, k) /\ UNCHANGED <<buf, r, w>>
  BY DEF Erase
<1>4. e' \in 0 .. IndexWrap - 1 /\ Minus(e', w) = n - k
  BY <1>1, <1>3, DistancesErase
<1>5. LineInv'
  <2> HIDE DEF n
  <2>1. Minus(w, r) + Minus(e', w) <= INPUT_BUF
    BY <1>1, <1>2, <1>4, ConsoleSizes
  <2>2. \A j \in 1 .. Minus(e', w) : j \in 1 .. n
    BY <1>2, <1>4
  <2> QED BY <1>1, <1>3, <1>4, <2>1, <2>2 DEF LineInv
<1>6. UNCHANGED Between(r, w)
  BY <1>3 DEF Between, At
<1> QED BY <1>3, <1>4, <1>5, <1>6, LineIsNext

LEMMA HStep ==
  ASSUME LineInv, e # w, Erase(1)
  PROVE  LineInv' /\ T!Erase
<1> DEFINE n == Minus(e, w)
<1>1. buf \in Buffers /\ w \in 0 .. IndexWrap - 1 /\ e \in 0 .. IndexWrap - 1
  BY DEF LineInv
<1>2. n \in Nat \ {0} /\ 1 \in 0 .. n /\ w \in Int
  <2>1. n = IF e >= w THEN e - w ELSE e - w + IndexWrap
    BY <1>1, MinusIs
  <2> HIDE DEF n
  <2> QED BY <1>1, <2>1, ConsoleSizes
<1>3. LineInv' /\ UNCHANGED Between(r, w) /\ Between(w, e)' = Chars(buf, w, n - 1)
  BY <1>2, EraseStep
<1>4. Between(w, e) = Chars(buf, w, n)
  BY LineIs
<1>5. Between(w, e) # <<>> /\ SubSeq(Between(w, e), 1, Len(Between(w, e)) - 1) = Chars(buf, w, n - 1)
  BY <1>1, <1>2, <1>4, CharsCut, Zenon
<1> QED BY <1>3, <1>5 DEF T!Erase

(* A line being edited has no end in it, so ^U erases all of it. *)
LEMMA KilledAll ==
  ASSUME LineInv
  PROVE  Killed = Minus(e, w)
<1> DEFINE n == Minus(e, w)
           S == {k \in 0 .. n : \A j \in 1 .. k : At(Minus(e, j)) # "\n"}
<1>1. /\ w \in 0 .. IndexWrap - 1 /\ e \in 0 .. IndexWrap - 1
      /\ \A j \in 1 .. n : buf[(w + j - 1) % INPUT_BUF] \notin {"\n", "^D"}
  BY DEF LineInv
<1>2. n \in Nat
  BY LineIs
<1>3. ASSUME NEW j \in 1 .. n PROVE At(Minus(e, j)) # "\n"
  <2> DEFINE a == (w + n) - j
             h == n - j + 1
  <2>1. j \in 0 .. n /\ a \in Int /\ h \in 1 .. n /\ w + h - 1 = a
    BY <1>1, <1>2, ConsoleSizes
  <2>2. Minus(e, j) = a \/ Minus(e, j) = a - IndexWrap
    BY <1>1, <2>1, DistancesErase
  <2>3. (a - IndexWrap) % INPUT_BUF = a % INPUT_BUF
    <3> HIDE DEF a
    <3> QED BY <2>1, SameSlot
  <2>4. Minus(e, j) % INPUT_BUF = (w + h - 1) % INPUT_BUF
    <3> HIDE DEF a, h
    <3> QED BY <2>1, <2>2, <2>3
  <2> QED BY <1>1, <2>1, <2>4 DEF At
<1>4. S = 0 .. n
  <2> SUFFICES ASSUME NEW k \in 0 .. n, NEW j \in 1 .. k PROVE At(Minus(e, j)) # "\n"
    OBVIOUS
  <2>1. j \in 1 .. n
    BY <1>2
  <2> QED BY <1>3, <2>1, Zenon
<1>5. Killed = Max(0 .. n)
  BY <1>4, Zenon DEF Killed
<1> HIDE DEF n
<1>6. Max(0 .. n) = n
  BY <1>2 DEF Max
<1> QED BY <1>5, <1>6 DEF n

LEMMA UStep ==
  ASSUME LineInv, Erase(Killed)
  PROVE  LineInv' /\ T!Kill
<1> DEFINE n == Minus(e, w)
<1>1. n \in Nat /\ Killed = n
  BY LineIs, KilledAll
<1>2. n \in 0 .. n /\ n - n = 0 /\ Erase(n)
  BY <1>1
<1>3. LineInv' /\ UNCHANGED Between(r, w) /\ Between(w, e)' = Chars(buf, w, n - n)
  BY <1>2, EraseStep
<1>4. Chars(buf, w, 0) = <<>>
  BY DEF Chars
<1> QED BY <1>2, <1>3, <1>4 DEF T!Kill

(* A character is typed. *)
LEMMA InsertStep ==
  ASSUME LineInv, NEW c \in Stored, Room, Insert(c)
  PROVE  LineInv' /\ T!Type(c)
<1> DEFINE q == Minus(w, r)
           n == Minus(e, w)
           ends == c \in {"\n", "^D"} \/ q + n + 1 = INPUT_BUF
           L == Between(w, e)
           Q == Between(r, w)
<1>1. /\ buf \in Buffers /\ r \in 0 .. IndexWrap - 1 /\ w \in 0 .. IndexWrap - 1 /\ e \in 0 .. IndexWrap - 1
      /\ q + n <= INPUT_BUF
      /\ \A k \in 1 .. n : buf[(w + k - 1) % INPUT_BUF] \notin {"\n", "^D"}
  BY DEF LineInv
<1>2. /\ q \in Nat /\ n \in Nat /\ Minus(e, r) = q + n
      /\ (w = r + q \/ w = (r + q) - IndexWrap) /\ (e = w + n \/ e = (w + n) - IndexWrap)
  BY <1>1, Distances
<1>3. q + n < INPUT_BUF
  BY <1>2 DEF Room
<1>4. /\ buf' = [buf EXCEPT ![e % INPUT_BUF] = c] /\ e' = Plus(e, 1) /\ r' = r
      /\ w' = IF c \in {"\n", "^D"} \/ e' = Plus(r, INPUT_BUF) THEN e' ELSE w
  BY DEF Insert
<1>5. L = Chars(buf, w, n) /\ Q = Chars(buf, r, q)
  BY LineIs
<1>6. /\ e' \in 0 .. IndexWrap - 1 /\ Minus(e', r) = q + n + 1 /\ Minus(e', w) = n + 1
      /\ w' = IF ends THEN e' ELSE w
  <2>1. Minus(e, r) < INPUT_BUF /\ Minus(e, w) < INPUT_BUF
    BY <1>2, <1>3, ConsoleSizes
  <2> QED BY <1>1, <1>2, <1>4, <2>1, DistancesPut
<1>7. e % INPUT_BUF = (w + n) % INPUT_BUF /\ e % INPUT_BUF = (r + (q + n)) % INPUT_BUF
  <2> DEFINE a == w + n
             b == r + (q + n)
  <2>1. a \in Int /\ b \in Int /\ b - IndexWrap \in Int
    BY <1>1, <1>2, ConsoleSizes
  <2>2. /\ e = a \/ e = a - IndexWrap
        /\ e = b \/ e = b - IndexWrap \/ e = (b - IndexWrap) - IndexWrap
    BY <1>1, <1>2, ConsoleSizes
  <2> HIDE DEF a, b
  <2>3. /\ (a - IndexWrap) % INPUT_BUF = a % INPUT_BUF
        /\ (b - IndexWrap) % INPUT_BUF = b % INPUT_BUF
        /\ ((b - IndexWrap) - IndexWrap) % INPUT_BUF = (b - IndexWrap) % INPUT_BUF
    BY <2>1, SameSlot, Zenon
  <2>4. e % INPUT_BUF = a % INPUT_BUF /\ e % INPUT_BUF = b % INPUT_BUF
    BY <2>2, <2>3, Zenon
  <2> QED BY <2>4 DEF a, b
<1> HIDE DEF q, n, L, Q
<1>8. n \in 0 .. INPUT_BUF - 1 /\ q + n \in 0 .. INPUT_BUF - 1 /\ q \in 0 .. q + n /\ r \in Int /\ w \in Int
  BY <1>1, <1>2, <1>3, ConsoleSizes
<1>9. buf' \in Buffers /\ Chars(buf', w, n + 1) = Append(L, c)
  <2>1. buf' = [buf EXCEPT ![(w + n) % INPUT_BUF] = c]
    BY <1>4, <1>7, Zenon
  <2> QED BY <1>1, <1>5, <1>8, <2>1, CharsPut, Zenon
<1>10. Chars(buf', r, q) = Q
  <2> DEFINE m == q + n
  <2>1. m \in 0 .. INPUT_BUF - 1 /\ q \in 0 .. m /\ buf' = [buf EXCEPT ![(r + m) % INPUT_BUF] = c]
    BY <1>4, <1>7, <1>8, Zenon
  <2> HIDE DEF m
  <2>2. \A k \in 0 .. m : Chars([buf EXCEPT ![(r + m) % INPUT_BUF] = c], r, k) = Chars(buf, r, k)
    BY <1>1, <1>8, <2>1, CharsPut, Zenon
  <2> QED BY <1>5, <2>1, <2>2, Zenon
<1>11. LineInv'
  <2>1. CASE ends
    <3>1. w' = e' /\ Minus(e', e') = 0
      BY <1>6, <2>1, MinusIs, ConsoleSizes
    <3>2. Minus(w', r') + Minus(e', w') <= INPUT_BUF /\ 1 .. Minus(e', w') = {}
      BY <1>2, <1>3, <1>4, <1>6, <3>1, ConsoleSizes
    <3> QED BY <1>1, <1>4, <1>6, <1>9, <3>1, <3>2 DEF LineInv
  <2>2. CASE ~ends
    <3>1. w' = w /\ c \notin {"\n", "^D"}
      BY <1>6, <2>2
    <3>2. Minus(w', r') + Minus(e', w') <= INPUT_BUF
      BY <1>2, <1>3, <1>4, <1>6, <3>1, ConsoleSizes DEF q
    <3>3. ASSUME NEW k \in 1 .. n + 1 PROVE buf'[(w + k - 1) % INPUT_BUF] \notin {"\n", "^D"}
      <4>1. buf'[(w + k - 1) % INPUT_BUF] = Append(L, c)[k]
        <5>1. Chars(buf', w, n + 1)[k] = buf'[(w + k - 1) % INPUT_BUF]
          BY DEF Chars
        <5> QED BY <1>9, <5>1, Zenon
      <4>2. Append(L, c)[k] = IF k \in 1 .. n THEN buf[(w + k - 1) % INPUT_BUF] ELSE c
        BY <1>1, <1>2, <1>5, <1>8, CharsSeq
      <4> QED BY <1>1, <3>1, <4>1, <4>2 DEF n
    <3> QED BY <1>1, <1>4, <1>6, <1>9, <3>1, <3>2, <3>3, Zenon DEF LineInv
  <2> QED BY <2>1, <2>2
<1>12. Between(w, e)' = Chars(buf', w', Minus(e', w')) /\ Between(r, w)' = Chars(buf', r, Minus(w', r))
  BY <1>4, <1>11, LineIsNext
<1>13. /\ Len(L) = n /\ Len(Q) = q /\ L \in Seq(Stored \cup {"old"})
       /\ Len(Append(L, c)) = n + 1 /\ Append(L, c)[n + 1] = c
  <2>1. Len(L) = n /\ Len(Q) = q /\ L \in Seq(Stored \cup {"old"}) /\ c \in Stored \cup {"old"}
    BY <1>1, <1>2, <1>5, <1>8, CharsSeq
  <2> QED BY <2>1, AppendProperties, Zenon
<1>14. CASE ends
  <2>1. w' = e' /\ Minus(e', e') = 0
    BY <1>6, <1>14, MinusIs, ConsoleSizes
  <2>2. Between(w, e)' = <<>>
    BY <1>12, <2>1 DEF Chars
  <2>3. Between(r, w)' = Chars(buf', r, q + (n + 1))
    BY <1>2, <1>6, <1>12, <2>1
  <2>4. Chars(buf', r, q + (n + 1)) = Chars(buf', r, q) \o Chars(buf', r + q, n + 1)
    <3> DEFINE m == n + 1
    <3>1. m \in Nat
      BY <1>2
    <3>2. Chars(buf', r, q + m) = Chars(buf', r, q) \o Chars(buf', r + q, m)
      <4> HIDE DEF m
      <4> QED BY <1>2, <1>8, <1>9, <3>1, CharsJoin, Zenon
    <3> QED BY <3>2
  <2>5. Chars(buf', r + q, n + 1) = Chars(buf', w, n + 1)
    <3> DEFINE i == r + q
               m == n + 1
    <3>1. i \in Int /\ m \in Nat /\ (w = i \/ w = i - IndexWrap)
      BY <1>2, <1>8
    <3>2. Chars(buf', i, m) = Chars(buf', w, m)
      <4> HIDE DEF i, m
      <4> QED BY <3>1, CharsWrap, Zenon
    <3> QED BY <3>2
  <2>6. Between(r, w)' = Q \o Append(L, c)
    BY <1>9, <1>10, <2>3, <2>4, <2>5, Zenon
  <2> QED BY <1>2, <1>3, <1>11, <1>13, <1>14, <2>2, <2>6 DEF T!Type, T!Enter, L, Q
<1>15. CASE ~ends
  <2>1. w' = w /\ Minus(e', w') = n + 1
    BY <1>6, <1>15
  <2>2. Between(w, e)' = Append(L, c) /\ Between(r, w)' = Q
    BY <1>9, <1>10, <1>12, <2>1 DEF q
  <2> QED BY <1>2, <1>3, <1>11, <1>13, <1>15, <2>2 DEF T!Type, T!Enter, L, Q
<1> QED BY <1>14, <1>15, Zenon

(* A step of the console is a step of the terminal, or none. *)
LEMMA TerminalStep ==
  ASSUME LineInv, [ConsoleNext]_consVars
  PROVE  LineInv' /\ [T!Next]_<<Between(w, e), Between(r, w)>>
<1>1. ASSUME UNCHANGED input PROVE LineInv' /\ UNCHANGED <<Between(w, e), Between(r, w)>>
  BY <1>1 DEF LineInv, Between, At, input
<1>2. ASSUME NEW c \in Keys, consoleintr(c) PROVE LineInv' /\ [T!Next]_<<Between(w, e), Between(r, w)>>
  <2>1. CASE c = "^U" /\ Erase(Killed)
    BY <2>1, UStep DEF T!Next
  <2>2. CASE c = "^H" /\ e # w /\ Erase(1)
    BY <2>2, HStep DEF T!Next
  <2>3. CASE c \notin {"^P", "^U", "^H"} /\ Room /\ Insert(IF c = "\r" THEN "\n" ELSE c)
    <3> DEFINE d == IF c = "\r" THEN "\n" ELSE c
    <3>1. d \in Stored
      BY <1>2, <2>3 DEF Keys, Stored
    <3>2. Room /\ Insert(d)
      BY <2>3
    <3> HIDE DEF d
    <3> QED BY <3>1, <3>2, InsertStep DEF T!Next
  <2>4. CASE UNCHANGED <<input, screen, loc>>
    BY <1>1, <2>4
  <2> QED BY <1>2, <2>1, <2>2, <2>3, <2>4 DEF consoleintr
<1>3. ASSUME NEW p \in Reader, consoleread(p) PROVE LineInv' /\ [T!Next]_<<Between(w, e), Between(r, w)>>
  <2>1. UNCHANGED <<buf, w, e>> /\ (UNCHANGED r \/ (r # w /\ r' = Plus(r, 1)))
    BY <1>3 DEF consoleread
  <2>2. CASE UNCHANGED r
    BY <1>1, <2>1, <2>2 DEF input
  <2>3. CASE r # w /\ r' = Plus(r, 1)
    BY <2>1, <2>3, TakeStep DEF T!Next
  <2> QED BY <2>1, <2>2, <2>3
<1>4. ASSUME NEW p \in Reader, WakeConsole(p) \/ SleepConsole(p) \/ KillReader(p) \/ \E k \in 0 .. MaxRead : CallConsole(p, k)
      PROVE  UNCHANGED input
  BY <1>4 DEF WakeConsole, SleepConsole, KillReader, CallConsole
<1>5. ASSUME NEW text \in Text, consolewrite(text) PROVE UNCHANGED input
  BY <1>5 DEF consolewrite
<1>6. CASE UNCHANGED consVars
  BY <1>1, <1>6 DEF consVars
<1> QED BY <1>1, <1>2, <1>3, <1>4, <1>5, <1>6 DEF ConsoleNext

(* The line buffer of the console (src/kernel/c/console.c), for any size   *)
(* of it, any number of readers and any keys, and wherever the indices     *)
(* wrap, is the edited line and the queue of the abstract terminal.        *)
THEOREM ConsoleIsTerminal == ConsoleSpec => RefinesTerminal
<1>1. ConsoleInit => T!Init
  <2> SUFFICES ASSUME ConsoleInit PROVE Between(w, e) = <<>> /\ Between(r, w) = <<>>
    BY DEF T!Init
  <2>1. Minus(e, w) = 0 /\ Minus(w, r) = 0
    <3>1. Minus(StartIndex, StartIndex) = 0
      BY MinusIs, ConsoleSizes
    <3> QED BY <3>1, Zenon DEF ConsoleInit
  <2> QED BY <2>1 DEF Between
<1>2. LineInv /\ [ConsoleNext]_consVars => LineInv' /\ [T!Next]_<<Between(w, e), Between(r, w)>>
  BY TerminalStep
<1> QED BY <1>1, <1>2, LineInitInv, PTL DEF ConsoleSpec, RefinesTerminal, T!Spec
=============================================================================
