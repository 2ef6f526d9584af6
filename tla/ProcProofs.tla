----------------------------- MODULE ProcProofs ------------------------------
(***************************************************************************)
(* The process table, for any number of slots, processors and channels.    *)
(***************************************************************************)
EXTENDS Proc, WellFoundedInduction, TLAPS

(* A process in fork, past allocproc. *)
Forking == {"fork2", "fork3", "fork4"}

(* c->proc and RUNNING say the same. *)
CpuInv ==
  /\ \A p \in Slot : state[p] = "RUNNING" <=> \E c \in CPU : cpuproc[c] = p
  /\ \A c, d \in CPU : cpuproc[c] = cpuproc[d] /\ c # d => cpuproc[c] = None

(* pids in use are distinct and have been handed out. *)
PidInv ==
  /\ \A p \in Slot : pid[p] < nextpid
  /\ \A p, q \in Slot : state[p] # "UNUSED" /\ state[q] # "UNUSED" /\ pid[p] = pid[q] => p = q

(* The slot fork fills without the lock belongs to one process, and       *)
(* nobody changes its state meanwhile.                                    *)
ForkInv ==
  /\ \A p \in Slot : pc[p] \in Forking =>
       /\ state[p] \in {"RUNNING", "RUNNABLE"}
       /\ np[p] \in Slot /\ state[np[p]] = "EMBRYO"
       /\ pc[p] = "fork4" => parent[np[p]] = p
  /\ \A p, q \in Slot : pc[p] \in Forking /\ pc[q] \in Forking /\ np[p] = np[q] => p = q

(* The first process never dies, and nobody is its own parent. *)
FamilyInv ==
  /\ state[initproc] \in Live /\ parent[initproc] = None
  /\ \A p \in Slot : parent[p] # p

ProcInv == TypeOK /\ CpuInv /\ PidInv /\ ForkInv /\ FamilyInv /\ WaitMissesNothing

-----------------------------------------------------------------------------
LEMMA SlotFacts ==
  /\ initproc \in Slot /\ Slot \subseteq Nat
  /\ \A p \in Slot : p + 1 \in 0..NPROC
  /\ None \notin Slot /\ Slot \cap CPU = {} /\ Slot \cap Chan = {} /\ None \notin CPU
BY ProcAssumption DEF initproc, Slot

LEMMA LeastOf ==
  ASSUME NEW S \in SUBSET Slot, S # {}
  PROVE  Min(S) \in S
<1> DEFINE R == OpToRel(<, Nat)
<1>1. IsWellFoundedOn(R, Nat)
  BY NatLessThanWellFounded, Zenon
<1>2. \A x, y \in Nat : x < y => <<x, y>> \in R
  BY DEF OpToRel
<1> HIDE DEF R
<1>3. S \subseteq Nat
  BY SlotFacts
<1>4. PICK x \in S : \A y \in S : ~ (<<y, x>> \in R)
  BY <1>1, <1>3, WFMin, Zenon
<1>5. \A y \in S : ~ (y < x)
  BY <1>2, <1>3, <1>4, Zenon
<1>6. \A y \in S : x <= y
  BY <1>3, <1>5
<1> QED BY <1>6 DEF Min

(* wakeup1 makes sleepers RUNNABLE, the ones on the channel among them,   *)
(* and does nothing else.                                                 *)
LEMMA Wakes ==
  ASSUME NEW st \in [Slot -> States], NEW ch
  PROVE  /\ wakeup1(st, ch) \in [Slot -> States]
         /\ \A q \in Slot : \/ wakeup1(st, ch)[q] = st[q]
                            \/ st[q] = "SLEEPING" /\ wakeup1(st, ch)[q] = "RUNNABLE"
         /\ \A q \in Slot : wakeup1(st, ch)[q] = "SLEEPING" => chan[q] # ch
BY DEF wakeup1, States

(* The CPUs keep what they run. *)
LEMMA CpuKept ==
  ASSUME CpuInv, UNCHANGED cpuproc, \A q \in Slot : state'[q] = "RUNNING" <=> state[q] = "RUNNING"
  PROVE  CpuInv'
BY Zenon DEF CpuInv

(* What enter_scheduler does for a process that has stopped RUNNING. *)
LEMMA Leaves ==
  ASSUME TypeOK, CpuInv, NEW p \in Slot, state[p] = "RUNNING", EnterScheduler(p),
         state'[p] # "RUNNING",
         \A q \in Slot \ {p} : state'[q] = "RUNNING" <=> state[q] = "RUNNING"
  PROVE  CpuInv' /\ cpuproc' \in [CPU -> Slot \cup {None}] /\ ptlock' \in CPU
<1>1. PICK c \in CPU : cpuproc[c] = p
  BY DEF CpuInv
<1>2. \A d \in CPU : cpuproc[d] = p => d = c
  BY <1>1, SlotFacts DEF CpuInv
<1>3. c = CHOOSE d \in CPU : cpuproc[d] = p
  BY <1>1, <1>2
<1>4. cpuproc' = [cpuproc EXCEPT ![c] = None] /\ ptlock' = c
  BY <1>3 DEF EnterScheduler
<1>5. \A d \in CPU : cpuproc'[d] = IF d = c THEN None ELSE cpuproc[d]
  BY <1>4 DEF TypeOK
<1>6. cpuproc' \in [CPU -> Slot \cup {None}]
  BY <1>4 DEF TypeOK
<1>7. \A q \in Slot : state'[q] = "RUNNING" <=> \E d \in CPU : cpuproc'[d] = q
  <2> TAKE q \in Slot
  <2>1. CASE q = p
    BY <2>1, <1>2, <1>5, SlotFacts
  <2>2. CASE q # p
    BY <2>2, <1>1, <1>5, SlotFacts DEF CpuInv
  <2> QED BY <2>1, <2>2
<1>8. \A d, e \in CPU : cpuproc'[d] = cpuproc'[e] /\ d # e => cpuproc'[d] = None
  BY <1>5 DEF CpuInv
<1> QED BY <1>4, <1>6, <1>7, <1>8 DEF CpuInv

-----------------------------------------------------------------------------
LEMMA ProcInitInv == Init => ProcInv
<1> SUFFICES ASSUME Init PROVE ProcInv
  OBVIOUS
<1> USE ProcAssumption, SlotFacts DEF Init, initproc
<1>1. TypeOK
  BY DEF TypeOK, States
<1>2. CpuInv
  BY DEF CpuInv
<1>3. PidInv
  BY DEF PidInv
<1>4. ForkInv /\ FamilyInv /\ WaitMissesNothing
  BY DEF ForkInv, FamilyInv, WaitMissesNothing, Forking, Live
<1> QED BY <1>1, <1>2, <1>3, <1>4 DEF ProcInv

(* A process goes on to another place in the kernel, outside fork. *)
LEMMA MovesInv ==
  ASSUME ProcInv, NEW p \in Slot, NEW loc, Goto(p, loc), loc \notin Forking,
         UNCHANGED <<procVars, nextpid, cpuproc, np>>
  PROVE  CpuInv' /\ PidInv' /\ ForkInv' /\ FamilyInv' /\ WaitMissesNothing'
<1> USE DEF ProcInv, procVars
<1>1. CpuInv' /\ PidInv' /\ FamilyInv' /\ WaitMissesNothing'
  BY DEF CpuInv, PidInv, FamilyInv, WaitMissesNothing
<1>2. \A q \in Slot : pc'[q] = IF q = p THEN loc ELSE pc[q]
  BY DEF Goto, TypeOK
<1>3. ForkInv'
  BY <1>2 DEF ForkInv
<1> QED BY <1>1, <1>3

LEMMA ScheduleInv == ASSUME ProcInv, NEW c \in CPU, Schedule(c) PROVE ProcInv'
<1> DEFINE ready == {q \in Slot : q >= scan[c] /\ state[q] = "RUNNABLE"}
<1> USE DEF ProcInv
<1>1. CASE ready = {}
  <2>1. UNCHANGED <<procVars, nextpid, cpuproc, pc, np>> /\ scan' = [scan EXCEPT ![c] = 0] /\ ptlock' = None
    BY <1>1 DEF Schedule
  <2>2. TypeOK'
    BY <2>1, ProcAssumption DEF TypeOK, procVars
  <2> QED BY <2>1, <2>2 DEF procVars, CpuInv, PidInv, ForkInv, FamilyInv, WaitMissesNothing
<1>2. CASE ready # {}
  <2> DEFINE p == Min(ready)
  <2>1. p \in Slot /\ state[p] = "RUNNABLE"
    <3>1. ready \in SUBSET Slot
      OBVIOUS
    <3> QED BY <3>1, <1>2, LeastOf
  <2>2. /\ cpuproc[c] = None
        /\ scan' = [scan EXCEPT ![c] = p + 1]
        /\ cpuproc' = [cpuproc EXCEPT ![c] = p]
        /\ state' = [state EXCEPT ![p] = "RUNNING"]
        /\ chan' = [chan EXCEPT ![p] = None]
        /\ ptlock' = IF chan[p] = p THEN p ELSE None
        /\ UNCHANGED <<pid, parent, killed, nextpid, pc, np>>
    BY <1>2 DEF Schedule
  <2> HIDE DEF p
  <2>3. \A q \in Slot : /\ state'[q] = IF q = p THEN "RUNNING" ELSE state[q]
                        /\ chan'[q] = IF q = p THEN None ELSE chan[q]
    BY <2>2 DEF TypeOK
  <2>4. \A d \in CPU : cpuproc'[d] = IF d = c THEN p ELSE cpuproc[d]
    BY <2>2 DEF TypeOK
  <2>5. TypeOK'
    BY <2>1, <2>2, SlotFacts DEF TypeOK, States
  <2>6. CpuInv'
    BY <2>1, <2>2, <2>3, <2>4, SlotFacts DEF CpuInv
  <2>7. PidInv'
    BY <2>1, <2>2, <2>3 DEF PidInv
  <2>8. ForkInv'
    BY <2>1, <2>2, <2>3 DEF ForkInv
  <2>9. FamilyInv' /\ WaitMissesNothing'
    BY <2>1, <2>2, <2>3 DEF FamilyInv, WaitMissesNothing, Live
  <2> QED BY <2>5, <2>6, <2>7, <2>8, <2>9
<1> QED BY <1>1, <1>2

(* A process gives up its CPU, to go on at once or to sleep on a channel: *)
(* outside fork, or where it was in fork.                                 *)
LEMMA StopsInv ==
  ASSUME ProcInv, NEW p \in Slot, state[p] = "RUNNING", EnterScheduler(p),
         NEW s \in {"RUNNABLE", "SLEEPING"}, state' = [state EXCEPT ![p] = s],
         NEW ch \in Slot \cup Chan \cup {None}, chan' = [chan EXCEPT ![p] = ch],
         NEW loc \in {pc[p], "timer", "poll"}, Goto(p, loc),
         s = "SLEEPING" => loc \notin Forking,
         s = "SLEEPING" /\ ch = p => ~killed[p] /\ \A q \in Slot : parent[q] = p => state[q] # "ZOMBIE",
         UNCHANGED <<pid, parent, killed, nextpid, scan, np>>
  PROVE  ProcInv'
<1> USE DEF ProcInv
<1>1. \A q \in Slot : /\ state'[q] = IF q = p THEN s ELSE state[q]
                      /\ chan'[q] = IF q = p THEN ch ELSE chan[q]
                      /\ pc'[q] = IF q = p THEN loc ELSE pc[q]
  BY DEF TypeOK, Goto
<1>2. CpuInv' /\ cpuproc' \in [CPU -> Slot \cup {None}] /\ ptlock' \in CPU
  BY <1>1, Leaves
<1>3. TypeOK'
  <2>1. state' \in [Slot -> States]
    BY DEF TypeOK, States
  <2>2. chan' \in [Slot -> Slot \cup Chan \cup {None}]
    BY DEF TypeOK
  <2>3. UNCHANGED <<pid, parent, killed, nextpid, scan, np>>
    OBVIOUS
  <2> QED BY <1>2, <2>1, <2>2, <2>3 DEF TypeOK, Goto
<1>4. PidInv' /\ FamilyInv'
  BY <1>1 DEF PidInv, FamilyInv, Live
<1>5. ForkInv'
  BY <1>1 DEF ForkInv, Forking
<1>6. WaitMissesNothing'
  BY <1>1 DEF WaitMissesNothing, Live
<1> QED BY <1>2, <1>3, <1>4, <1>5, <1>6

(* A process keeps its CPU, and goes on to a place outside fork. *)
LEMMA GoesInv ==
  ASSUME ProcInv, NEW p \in Slot,
         NEW loc \in {"user", "sysret", "exit", "wait", "ksleep", "poll", "psleep", "panic"},
         Goto(p, loc),
         UNCHANGED <<procVars, nextpid, cpuproc, scan, np>>, ptlock' \in {ptlock, None}
  PROVE  ProcInv'
<1>1. TypeOK'
  BY DEF ProcInv, TypeOK, procVars, Goto
<1> QED BY <1>1, MovesInv DEF ProcInv, Forking

LEMMA YieldInv == ASSUME ProcInv, NEW p \in Slot, Yield(p) PROVE ProcInv'
<1>1. chan' = [chan EXCEPT ![p] = chan[p]] /\ chan[p] \in Slot \cup Chan \cup {None}
  BY DEF Yield, ProcInv, TypeOK
<1>2. Goto(p, pc[p])
  BY DEF Yield, ProcInv, TypeOK, Goto
<1>3. /\ state[p] = "RUNNING" /\ EnterScheduler(p) /\ state' = [state EXCEPT ![p] = "RUNNABLE"]
      /\ UNCHANGED <<pid, parent, killed, nextpid, scan, np>>
  BY DEF Yield
<1> QED BY <1>1, <1>2, <1>3, StopsInv, Zenon

LEMMA TimerInv == ASSUME ProcInv, NEW p \in Slot, Timer(p) PROVE ProcInv'
<1>1. CASE killed[p]
  BY <1>1, GoesInv DEF Timer, procVars
<1>2. CASE ~killed[p]
  <2>1. chan' = [chan EXCEPT ![p] = chan[p]] /\ chan[p] \in Slot \cup Chan \cup {None}
    BY DEF Timer, ProcInv, TypeOK
  <2>2. /\ state[p] = "RUNNING" /\ EnterScheduler(p) /\ state' = [state EXCEPT ![p] = "RUNNABLE"]
        /\ Goto(p, "timer") /\ UNCHANGED <<pid, parent, killed, nextpid, scan, np>>
    BY <1>2 DEF Timer, At
  <2> QED BY <2>1, <2>2, StopsInv, Zenon
<1> QED BY <1>1, <1>2

LEMMA SleepOnInv ==
  ASSUME ProcInv, NEW p \in Slot, state[p] = "RUNNING", NEW ch \in Chan,
         NEW loc \in {pc[p], "poll"}, loc \notin Forking, SleepOn(p, ch, loc)
  PROVE  ProcInv'
<1>1. /\ EnterScheduler(p) /\ state' = [state EXCEPT ![p] = "SLEEPING"] /\ Goto(p, loc)
      /\ chan' = [chan EXCEPT ![p] = ch] /\ UNCHANGED <<pid, parent, killed, nextpid, scan, np>>
  BY Zenon DEF SleepOn
<1>2. ch # p
  BY SlotFacts
<1> QED BY <1>1, <1>2, StopsInv, Zenon

LEMMA SleepInv == ASSUME ProcInv, NEW p \in Slot, NEW ch \in Chan, Sleep(p, ch) PROVE ProcInv'
<1>1. state[p] = "RUNNING" /\ pc[p] \notin Forking /\ SleepOn(p, ch, pc[p])
  BY DEF Sleep, At, Forking
<1> QED BY <1>1, SleepOnInv, Zenon

LEMMA PollSleepInv == ASSUME ProcInv, NEW p \in Slot, NEW ch \in Chan, PollSleep(p, ch) PROVE ProcInv'
<1>1. state[p] = "RUNNING" /\ SleepOn(p, ch, "poll") /\ "poll" \notin Forking
  BY DEF PollSleep, At, Forking
<1> QED BY <1>1, SleepOnInv, Zenon

-----------------------------------------------------------------------------
(* The process at p fills the slot at np[p]. *)
LEMMA Fills ==
  ASSUME ProcInv, NEW p \in Slot, state[p] = "RUNNING", pc[p] \in Forking
  PROVE  /\ np[p] \in Slot /\ np[p] # p /\ np[p] # initproc /\ state[np[p]] = "EMBRYO"
         /\ \A q \in Slot \ {p} : pc[q] \in Forking => np[q] # np[p]
BY DEF ProcInv, ForkInv, FamilyInv, Live

LEMMA AllocprocInv == ASSUME ProcInv, NEW p \in Slot, Allocproc(p) PROVE ProcInv'
<1> DEFINE free == {q \in Slot : state[q] = "UNUSED"}
           q == Min(free)
<1>1. CASE free = {}
  BY <1>1, GoesInv DEF Allocproc, procVars
<1>2. CASE free # {}
  <2>1. q \in Slot /\ state[q] = "UNUSED"
    <3>1. free \in SUBSET Slot
      OBVIOUS
    <3> QED BY <3>1, <1>2, LeastOf
  <2>2. /\ state[p] = "RUNNING" /\ pc[p] = "user" /\ nextpid <= MaxPid
        /\ state' = [state EXCEPT ![q] = "EMBRYO"]
        /\ pid' = [pid EXCEPT ![q] = nextpid]
        /\ nextpid' = nextpid + 1
        /\ np' = [np EXCEPT ![p] = q]
        /\ pc' = [pc EXCEPT ![p] = "fork2"]
        /\ UNCHANGED <<parent, killed, chan, cpuproc, scan, ptlock>>
    BY <1>2 DEF Allocproc, At, Goto
  <2> HIDE DEF q
  <2> USE DEF ProcInv
  <2>3. \A r \in Slot : /\ state'[r] = IF r = q THEN "EMBRYO" ELSE state[r]
                        /\ pid'[r] = IF r = q THEN nextpid ELSE pid[r]
                        /\ np'[r] = IF r = p THEN q ELSE np[r]
                        /\ pc'[r] = IF r = p THEN "fork2" ELSE pc[r]
    BY <2>2 DEF TypeOK
  <2>4. TypeOK'
    <3>1. nextpid \in 0..MaxPid /\ nextpid' \in 1..(MaxPid + 1)
      BY <2>2, ProcAssumption DEF TypeOK
    <3>2. state' \in [Slot -> States] /\ pid' \in [Slot -> 0..MaxPid]
      BY <2>2, <3>1, Zenon DEF TypeOK, States
    <3> QED BY <2>1, <2>2, <3>1, <3>2 DEF TypeOK
  <2>5. CpuInv'
    BY <2>1, <2>2, <2>3 DEF CpuInv
  <2>6. PidInv'
    <3>1. nextpid \in Nat /\ \A r \in Slot : pid[r] \in Nat
      BY DEF TypeOK
    <3> QED BY <2>1, <2>2, <2>3, <3>1 DEF PidInv
  <2>7. ForkInv'
    BY <2>1, <2>2, <2>3 DEF ForkInv, Forking
  <2>8. FamilyInv' /\ WaitMissesNothing'
    BY <2>1, <2>2, <2>3 DEF FamilyInv, WaitMissesNothing, Live
  <2> QED BY <2>4, <2>5, <2>6, <2>7, <2>8
<1> QED BY <1>1, <1>2

(* The slot is given back, or published. *)
LEMMA ForkEnds ==
  ASSUME ProcInv, NEW p \in Slot, state[p] = "RUNNING", pc[p] \in Forking,
         NEW s \in {"UNUSED", "RUNNABLE"}, s = "RUNNABLE" => pc[p] = "fork4",
         state' = [state EXCEPT ![np[p]] = s], np' = [np EXCEPT ![p] = None], Goto(p, "sysret"),
         UNCHANGED <<pid, parent, killed, chan, nextpid, cpuproc, scan, ptlock>>
  PROVE  ProcInv'
<1> USE DEF ProcInv
<1>1. /\ np[p] \in Slot /\ np[p] # p /\ np[p] # initproc /\ state[np[p]] = "EMBRYO"
      /\ \A q \in Slot \ {p} : pc[q] \in Forking => np[q] # np[p]
  BY Fills
<1>2. \A q \in Slot : /\ state'[q] = IF q = np[p] THEN s ELSE state[q]
                      /\ np'[q] = IF q = p THEN None ELSE np[q]
                      /\ pc'[q] = IF q = p THEN "sysret" ELSE pc[q]
  BY DEF TypeOK, Goto
<1>3. TypeOK'
  BY Zenon DEF TypeOK, Goto, States
<1>4. CpuInv' /\ PidInv'
  BY <1>1, <1>2 DEF CpuInv, PidInv
<1>5. ForkInv'
  BY <1>1, <1>2 DEF ForkInv, Forking
<1>6. FamilyInv'
  BY <1>1, <1>2 DEF FamilyInv
<1>7. WaitMissesNothing'
  <2>1. s = "RUNNABLE" => parent[np[p]] = p
    BY DEF ForkInv, Forking
  <2>2. \A q \in Slot : state[q] \in Live => state'[q] \in Live
    BY <1>1, <1>2 DEF Live
  <2>3. \A q \in Slot \ {initproc} : state'[q] \in Live \cup {"ZOMBIE"} =>
          parent[q] \in Slot /\ state[parent[q]] \in Live
    BY <1>1, <1>2, <2>1 DEF WaitMissesNothing, Live
  <2>4. \A q \in Slot : state'[q] = "SLEEPING" => state[q] = "SLEEPING"
    BY <1>2
  <2>5. \A q \in Slot : state'[q] = "ZOMBIE" => state[q] = "ZOMBIE"
    BY <1>2
  <2> QED BY <2>2, <2>3, <2>4, <2>5, Zenon DEF WaitMissesNothing
<1> QED BY <1>3, <1>4, <1>5, <1>6, <1>7

LEMMA ForkStackInv == ASSUME ProcInv, NEW p \in Slot, ForkStack(p) PROVE ProcInv'
<1> USE DEF ProcInv, procVars
<1>1. state[p] = "RUNNING" /\ pc[p] = "fork2" /\ UNCHANGED <<procVars, nextpid, cpuproc, scan, ptlock, np>>
  BY DEF ForkStack
<1>2. np[p] \in Slot /\ np[p] # p
  BY <1>1, Fills DEF Forking
<1>3. \A q \in Slot : pc'[q] = IF q = np[p] THEN "user" ELSE IF q = p THEN "fork3" ELSE pc[q]
  BY <1>2 DEF ForkStack, TypeOK
<1>4. pc' \in [Slot -> {"user", "sysret", "timer", "fork2", "fork3", "fork4", "wait",
                        "ksleep", "poll", "psleep", "exit", "panic"}]
  BY <1>2 DEF ForkStack, TypeOK
<1>5. TypeOK'
  BY <1>1, <1>4 DEF TypeOK
<1>6. CpuInv' /\ PidInv' /\ FamilyInv' /\ WaitMissesNothing'
  BY <1>1 DEF CpuInv, PidInv, FamilyInv, WaitMissesNothing
<1>7. ForkInv'
  BY <1>1, <1>2, <1>3 DEF ForkInv, Forking
<1> QED BY <1>5, <1>6, <1>7

LEMMA ForkParentInv == ASSUME ProcInv, NEW p \in Slot, ForkParent(p) PROVE ProcInv'
<1> USE DEF ProcInv
<1>1. /\ state[p] = "RUNNING" /\ pc[p] = "fork3"
      /\ UNCHANGED <<state, pid, killed, chan, nextpid, cpuproc, scan, ptlock, np>>
  BY DEF ForkParent
<1>2. /\ np[p] \in Slot /\ np[p] # p /\ np[p] # initproc /\ state[np[p]] = "EMBRYO"
      /\ \A q \in Slot \ {p} : pc[q] \in Forking => np[q] # np[p]
  BY <1>1, Fills DEF Forking
<1>3. \A q \in Slot : /\ parent'[q] = IF q = np[p] THEN p ELSE parent[q]
                      /\ pc'[q] = IF q = p THEN "fork4" ELSE pc[q]
  BY DEF ForkParent, Goto, TypeOK
<1>4. TypeOK'
  BY <1>1, Zenon DEF ForkParent, Goto, TypeOK
<1>5. CpuInv' /\ PidInv'
  BY <1>1 DEF CpuInv, PidInv
<1>6. ForkInv'
  BY <1>1, <1>2, <1>3 DEF ForkInv, Forking
<1>7. FamilyInv'
  BY <1>1, <1>2, <1>3, SlotFacts DEF FamilyInv
<1>8. WaitMissesNothing'
  BY <1>1, <1>2, <1>3 DEF WaitMissesNothing, Live
<1> QED BY <1>4, <1>5, <1>6, <1>7, <1>8

-----------------------------------------------------------------------------
LEMMA ExitInv == ASSUME ProcInv, NEW p \in Slot, Exit(p) PROVE ProcInv'
<1> DEFINE orphans == {q \in Slot : parent[q] = p}
           st1 == wakeup1(state, parent[p])
           st2 == IF \E q \in orphans : state[q] = "ZOMBIE" THEN wakeup1(st1, initproc) ELSE st1
<1> USE DEF ProcInv
<1>1. /\ state[p] = "RUNNING" /\ pc[p] = "exit" /\ p # initproc
      /\ state' = [st2 EXCEPT ![p] = "ZOMBIE"]
      /\ parent' = [q \in Slot |-> IF q \in orphans THEN initproc ELSE parent[q]]
      /\ EnterScheduler(p)
      /\ UNCHANGED <<pid, killed, chan, nextpid, scan, pc, np>>
  BY DEF Exit, At
<1>2. /\ st1 \in [Slot -> States]
      /\ \A q \in Slot : st1[q] = state[q] \/ (state[q] = "SLEEPING" /\ st1[q] = "RUNNABLE")
      /\ \A q \in Slot : st1[q] = "SLEEPING" => chan[q] # parent[p]
  BY Wakes DEF TypeOK
<1>3. /\ st2 \in [Slot -> States]
      /\ \A q \in Slot : st2[q] = state[q] \/ (state[q] = "SLEEPING" /\ st2[q] = "RUNNABLE")
      /\ \A q \in Slot : st2[q] = "SLEEPING" =>
           /\ chan[q] # parent[p]
           /\ (\E r \in orphans : state[r] = "ZOMBIE") => chan[q] # initproc
  <2> HIDE DEF st1
  <2>1. CASE \E q \in orphans : state[q] = "ZOMBIE"
    <3>1. /\ wakeup1(st1, initproc) \in [Slot -> States]
          /\ \A q \in Slot : \/ wakeup1(st1, initproc)[q] = st1[q]
                             \/ st1[q] = "SLEEPING" /\ wakeup1(st1, initproc)[q] = "RUNNABLE"
          /\ \A q \in Slot : wakeup1(st1, initproc)[q] = "SLEEPING" => chan[q] # initproc
      BY <1>2, Wakes
    <3>2. st2 = wakeup1(st1, initproc)
      BY <2>1
    <3> HIDE DEF st2
    <3> QED BY <1>2, <3>1, <3>2, Zenon
  <2>2. CASE ~\E q \in orphans : state[q] = "ZOMBIE"
    BY <1>2, <2>2
  <2> QED BY <2>1, <2>2, Zenon
<1> HIDE DEF st1, st2
<1>4. \A q \in Slot : /\ state'[q] = IF q = p THEN "ZOMBIE" ELSE st2[q]
                      /\ parent'[q] = IF parent[q] = p THEN initproc ELSE parent[q]
  BY <1>1, <1>3, Zenon
<1>5. CpuInv' /\ cpuproc' \in [CPU -> Slot \cup {None}] /\ ptlock' \in CPU
  <2>1. \A q \in Slot \ {p} : state'[q] = "RUNNING" <=> state[q] = "RUNNING"
    BY <1>3, <1>4
  <2> QED BY <1>1, <1>4, <2>1, Leaves
<1>6. TypeOK'
  <2>1. state' \in [Slot -> States]
    BY <1>1, <1>3 DEF States
  <2>2. parent' \in [Slot -> Slot \cup {None}]
    BY <1>1, SlotFacts DEF TypeOK
  <2> QED BY <1>1, <1>5, <2>1, <2>2 DEF TypeOK
<1>7. PidInv'
  BY <1>1, <1>3, <1>4 DEF PidInv
<1>8. ForkInv'
  <2>1. \A q \in Slot : pc[q] \in Forking => q # p
    BY <1>1 DEF Forking
  <2> QED BY <1>1, <1>3, <1>4, <2>1 DEF ForkInv
<1>9. FamilyInv'
  <2>1. state'[initproc] \in Live
    BY <1>1, <1>3, <1>4, SlotFacts DEF FamilyInv, Live
  <2> QED BY <1>1, <1>4, <2>1, SlotFacts DEF FamilyInv
<1>10. WaitMissesNothing'
  <2>1. \A q \in Slot \ {p} : state[q] \in Live => state'[q] \in Live
    BY <1>3, <1>4, Zenon DEF Live
  <2>2. state[p] \in Live
    BY <1>1 DEF Live
  <2>3. \A q \in Slot \ {initproc} : state'[q] \in Live \cup {"ZOMBIE"} =>
          parent'[q] \in Slot /\ state'[parent'[q]] \in Live
    <3> SUFFICES ASSUME NEW q \in Slot \ {initproc}, state'[q] \in Live \cup {"ZOMBIE"}
                 PROVE  parent'[q] \in Slot /\ state'[parent'[q]] \in Live
      OBVIOUS
    <3>1. state[q] \in Live \cup {"ZOMBIE"}
      BY <1>3, <1>4, <2>2 DEF Live
    <3>2. parent[q] \in Slot /\ state[parent[q]] \in Live
      BY <3>1 DEF WaitMissesNothing
    <3> QED BY <1>1, <1>4, <1>9, <2>1, <3>2, SlotFacts, Zenon DEF FamilyInv
  <2>4. ASSUME NEW q \in Slot, state'[q] = "SLEEPING", chan[q] = q
        PROVE  ~killed[q] /\ \A r \in Slot : parent'[r] = q => state'[r] # "ZOMBIE"
    <3>1. q # p /\ state[q] = "SLEEPING" /\ st2[q] = "SLEEPING"
      BY <1>3, <1>4, <2>4
    <3>2. q # parent[p] /\ ((\E r \in orphans : state[r] = "ZOMBIE") => q # initproc)
      BY <1>3, <2>4, <3>1
    <3>3. ~killed[q] /\ \A r \in Slot : parent[r] = q => state[r] # "ZOMBIE"
      BY <2>4, <3>1 DEF WaitMissesNothing
    <3>4. ASSUME NEW r \in Slot, parent'[r] = q PROVE state'[r] # "ZOMBIE"
      <4>1. r # p
        BY <1>4, <3>2, <3>4 DEF FamilyInv
      <4>2. CASE parent[r] = p
        BY <1>3, <1>4, <3>2, <3>4, <4>1, <4>2
      <4>3. CASE parent[r] # p
        BY <1>3, <1>4, <3>3, <3>4, <4>1, <4>3
      <4> QED BY <4>2, <4>3
    <3> QED BY <3>3, <3>4
  <2> QED BY <1>1, <2>3, <2>4, Zenon DEF WaitMissesNothing
<1> QED BY <1>5, <1>6, <1>7, <1>8, <1>9, <1>10

LEMMA WaitInv == ASSUME ProcInv, NEW p \in Slot, Wait(p) PROVE ProcInv'
<1> DEFINE kids == {q \in Slot : parent[q] = p}
           zombies == {q \in kids : state[q] = "ZOMBIE"}
           z == Min(zombies)
<1>1. state[p] = "RUNNING" /\ pc[p] = "wait" /\ UNCHANGED <<nextpid, scan, np>>
  BY Zenon DEF Wait
<1>2. CASE /\ zombies # {}
           /\ state' = [state EXCEPT ![z] = "UNUSED"]
           /\ pid' = [pid EXCEPT ![z] = 0]
           /\ parent' = [parent EXCEPT ![z] = None]
           /\ killed' = [killed EXCEPT ![z] = FALSE]
           /\ ptlock' = None
           /\ Goto(p, "sysret")
           /\ UNCHANGED <<chan, cpuproc>>
  <2>1. z \in Slot /\ state[z] = "ZOMBIE"
    <3>1. zombies \in SUBSET Slot
      OBVIOUS
    <3> QED BY <3>1, <1>2, LeastOf
  <2> HIDE DEF z
  <2> USE DEF ProcInv
  <2>2. \A q \in Slot : /\ state'[q] = IF q = z THEN "UNUSED" ELSE state[q]
                        /\ pc'[q] = IF q = p THEN "sysret" ELSE pc[q]
    BY <1>2 DEF TypeOK, Goto
  <2>3. \A q \in Slot : pid'[q] = IF q = z THEN 0 ELSE pid[q]
    BY <1>2 DEF TypeOK
  <2>4. \A q \in Slot : parent'[q] = IF q = z THEN None ELSE parent[q]
    BY <1>2 DEF TypeOK
  <2>5. \A q \in Slot \ {z} : killed'[q] = killed[q]
    BY <1>2 DEF TypeOK
  <2>6. TypeOK'
    <3>1. state' \in [Slot -> States]
      BY <1>2, Zenon DEF TypeOK, States
    <3>2. pid' \in [Slot -> 0..MaxPid]
      <4>1. 0 \in 0..MaxPid
        BY ProcAssumption
      <4> QED BY <1>2, <4>1, Zenon DEF TypeOK
    <3>3. parent' \in [Slot -> Slot \cup {None}] /\ killed' \in [Slot -> BOOLEAN]
      BY <1>2, Zenon DEF TypeOK
    <3> QED BY <1>1, <1>2, <3>1, <3>2, <3>3, Zenon DEF TypeOK, Goto
  <2>7. CpuInv'
    BY <1>2, <2>1, <2>2 DEF CpuInv
  <2>8. PidInv'
    <3>1. nextpid \in Nat \ {0}
      BY DEF TypeOK
    <3>2. nextpid' = nextpid
      BY <1>1
    <3> QED BY <2>2, <2>3, <3>1, <3>2 DEF PidInv
  <2>9. ForkInv'
    <3>1. np' = np
      BY <1>1, Zenon
    <3>2. \A q \in Slot : pc'[q] \in Forking => pc[q] = pc'[q]
      BY <2>2 DEF Forking
    <3>3. \A q \in Slot : pc[q] \in Forking => np[q] # z /\ q # z
      BY <2>1, Zenon DEF ForkInv
    <3>4. \A q \in Slot : q # z => state'[q] = state[q] /\ parent'[q] = parent[q]
      BY <2>2, <2>4, Zenon
    <3> QED BY <3>1, <3>2, <3>3, <3>4 DEF ForkInv
  <2>10. FamilyInv'
    BY <2>1, <2>2, <2>4, SlotFacts DEF FamilyInv, Live
  <2>11. WaitMissesNothing'
    <3>1. chan' = chan
      BY <1>2
    <3>2. \A q \in Slot \ {initproc} : state'[q] \in Live \cup {"ZOMBIE"} =>
            parent'[q] \in Slot /\ state'[parent'[q]] \in Live
      BY <2>1, <2>2, <2>4, ZenonT(40) DEF WaitMissesNothing, Live
    <3>3. ASSUME NEW q \in Slot, state'[q] = "SLEEPING", chan[q] = q
          PROVE  ~killed'[q] /\ \A r \in Slot : parent'[r] = q => state'[r] # "ZOMBIE"
      <4>1. q # z /\ state[q] = "SLEEPING"
        BY <2>2, <3>3
      <4>2. ~killed[q] /\ \A r \in Slot : parent[r] = q => state[r] # "ZOMBIE"
        BY <3>3, <4>1 DEF WaitMissesNothing
      <4> QED BY <2>2, <2>4, <2>5, <4>1, <4>2, SlotFacts, Zenon
    <3> QED BY <3>1, <3>2, <3>3, Zenon DEF WaitMissesNothing
  <2> QED BY <2>6, <2>7, <2>8, <2>9, <2>10, <2>11
<1>3. CASE zombies = {} /\ ptlock' = None /\ Goto(p, "sysret") /\ UNCHANGED <<procVars, cpuproc>>
  BY <1>1, <1>3, GoesInv
<1>4. CASE /\ zombies = {} /\ ~killed[p]
           /\ state' = [state EXCEPT ![p] = "SLEEPING"]
           /\ chan' = [chan EXCEPT ![p] = p]
           /\ EnterScheduler(p)
           /\ UNCHANGED <<pid, parent, killed, pc>>
  <2>1. Goto(p, pc[p]) /\ pc[p] \notin Forking
    BY <1>1, <1>4 DEF ProcInv, TypeOK, Goto, Forking
  <2>2. \A q \in Slot : parent[q] = p => state[q] # "ZOMBIE"
    BY <1>4
  <2> QED BY <1>1, <1>4, <2>1, <2>2, StopsInv, Zenon
<1> QED BY <1>2, <1>3, <1>4, Zenon DEF Wait

(* Sleepers become RUNNABLE, and whoever is killed does not sleep on. *)
LEMMA Rouses ==
  ASSUME ProcInv, state' \in [Slot -> States], killed' \in [Slot -> BOOLEAN],
         \A q \in Slot : state'[q] = state[q] \/ (state[q] = "SLEEPING" /\ state'[q] = "RUNNABLE"),
         \A q \in Slot : state'[q] = "SLEEPING" => killed'[q] = killed[q],
         UNCHANGED <<pid, parent, chan, nextpid, cpuproc, scan, ptlock, np>>,
         NEW p \in Slot, pc' = pc \/ Goto(p, "sysret")
  PROVE  ProcInv'
<1> USE DEF ProcInv
<1>1. TypeOK'
  BY DEF TypeOK, Goto
<1>2. CpuInv' /\ PidInv'
  <2>1. \A q \in Slot : /\ state'[q] = "RUNNING" <=> state[q] = "RUNNING"
                        /\ state'[q] = "UNUSED" <=> state[q] = "UNUSED"
    BY Zenon
  <2>2. CpuInv'
    BY <2>1, CpuKept, Zenon
  <2>3. PidInv'
    BY <2>1, Zenon DEF PidInv
  <2> QED BY <2>2, <2>3
<1>3. \A q \in Slot : pc'[q] = pc[q] \/ pc'[q] = "sysret"
  BY DEF TypeOK, Goto
<1>4. ForkInv'
  BY <1>3 DEF ForkInv, Forking
<1>5. FamilyInv'
  BY SlotFacts DEF FamilyInv, Live
<1>6. WaitMissesNothing'
  BY DEF WaitMissesNothing, Live
<1> QED BY <1>1, <1>2, <1>4, <1>5, <1>6, Zenon

LEMMA WakeupInv == ASSUME ProcInv, NEW ch \in Chan, Wakeup(ch) PROVE ProcInv'
<1>1. /\ wakeup1(state, ch) \in [Slot -> States]
      /\ \A q \in Slot : \/ wakeup1(state, ch)[q] = state[q]
                         \/ state[q] = "SLEEPING" /\ wakeup1(state, ch)[q] = "RUNNABLE"
  BY Wakes DEF ProcInv, TypeOK
<1>2. state' = wakeup1(state, ch) /\ UNCHANGED <<pid, parent, killed, chan, nextpid, cpuproc, scan, ptlock, pc, np>>
  BY DEF Wakeup
<1>3. killed' \in [Slot -> BOOLEAN] /\ initproc \in Slot
  BY <1>2, SlotFacts DEF ProcInv, TypeOK
<1> QED BY <1>1, <1>2, <1>3, Rouses, Zenon

LEMMA KillInv == ASSUME ProcInv, NEW p \in Slot, NEW n \in KillArgs, Kill(p, n) PROVE ProcInv'
<1> DEFINE found == {q \in Slot : pid[q] = n}
           q == Min(found)
<1>1. Goto(p, "sysret") /\ UNCHANGED <<pid, parent, chan, nextpid, cpuproc, scan, ptlock, np>>
  BY Zenon DEF Kill
<1>2. CASE found = {}
  BY <1>1, <1>2, GoesInv, Zenon DEF Kill, procVars
<1>3. CASE found # {}
  <2>1. q \in Slot
    <3>1. found \in SUBSET Slot
      OBVIOUS
    <3> QED BY <3>1, <1>3, LeastOf
  <2>2. /\ killed' = [killed EXCEPT ![q] = TRUE]
        /\ state' = [state EXCEPT ![q] = IF @ = "SLEEPING" THEN "RUNNABLE" ELSE @]
    BY <1>3, Zenon DEF Kill
  <2> HIDE DEF q
  <2>3. killed' \in [Slot -> BOOLEAN] /\ state' \in [Slot -> States]
    BY <2>1, <2>2 DEF ProcInv, TypeOK, States
  <2>4. \A r \in Slot : /\ killed'[r] = IF r = q THEN TRUE ELSE killed[r]
                        /\ state'[r] = IF r = q /\ state[r] = "SLEEPING" THEN "RUNNABLE" ELSE state[r]
    BY <2>1, <2>2 DEF ProcInv, TypeOK
  <2>5. /\ \A r \in Slot : state'[r] = state[r] \/ (state[r] = "SLEEPING" /\ state'[r] = "RUNNABLE")
        /\ \A r \in Slot : state'[r] = "SLEEPING" => killed'[r] = killed[r]
    BY <2>4, Zenon
  <2> QED BY <1>1, <2>3, <2>5, Rouses, Zenon
<1> QED BY <1>2, <1>3

-----------------------------------------------------------------------------
LEMMA ProcStepInv == ProcInv /\ [Next]_vars => ProcInv'
<1> SUFFICES ASSUME ProcInv, [Next]_vars PROVE ProcInv'
  OBVIOUS
<1>1. ASSUME NEW c \in CPU, Schedule(c) PROVE ProcInv'
  BY <1>1, ScheduleInv
<1>2. ASSUME NEW c \in CPU, ClockTick(c) PROVE ProcInv'
  BY <1>2, TimerInv, YieldInv DEF ClockTick
<1>3. ASSUME NEW p \in Slot, Step(p) PROVE ProcInv'
  <2>1. CASE TrapReturn(p)
    <3>1. UNCHANGED <<procVars, nextpid, cpuproc, scan, ptlock, np>>
      BY <2>1 DEF TrapReturn
    <3>2. Goto(p, "exit") \/ Goto(p, "user")
      BY <2>1 DEF TrapReturn
    <3> QED BY <3>1, <3>2, GoesInv
  <2>2. CASE ForkFails(p)
    BY <2>2, ForkEnds, Zenon DEF ForkFails, Forking
  <2>3. CASE ForkStack(p)
    BY <2>3, ForkStackInv
  <2>4. CASE ForkParent(p)
    BY <2>4, ForkParentInv
  <2>5. CASE ForkPublish(p)
    BY <2>5, ForkEnds, Zenon DEF ForkPublish, At, Forking
  <2>6. CASE ExitInit(p)
    BY <2>6, GoesInv DEF ExitInit
  <2>7. CASE Exit(p)
    BY <2>7, ExitInv
  <2>8. CASE Wait(p)
    BY <2>8, WaitInv
  <2>9. CASE SleepDone(p)
    BY <2>9, GoesInv DEF SleepDone
  <2>10. CASE Poll(p)
    <3>1. UNCHANGED <<procVars, nextpid, cpuproc, scan, ptlock, np>>
      BY <2>10 DEF Poll
    <3>2. Goto(p, "sysret") \/ Goto(p, "psleep")
      BY <2>10 DEF Poll
    <3> QED BY <3>1, <3>2, GoesInv
  <2>11. ASSUME NEW ch \in Chan, PollSleep(p, ch) PROVE ProcInv'
    BY <2>11, PollSleepInv
  <2> QED BY <1>3, <2>1, <2>2, <2>3, <2>4, <2>5, <2>6, <2>7, <2>8, <2>9, <2>10, <2>11 DEF Step
<1>4. ASSUME NEW p \in Slot, UserCall(p) PROVE ProcInv'
  <2>1. ASSUME NEW call \in {"wait", "ksleep", "poll", "exit"}, Syscall(p, call) PROVE ProcInv'
    <3>1. UNCHANGED <<procVars, nextpid, cpuproc, scan, ptlock, np>>
      BY <2>1 DEF Syscall
    <3>2. Goto(p, "exit") \/ Goto(p, call)
      BY <2>1 DEF Syscall
    <3> QED BY <3>1, <3>2, GoesInv
  <2> QED BY <1>4, <2>1, AllocprocInv, KillInv DEF UserCall
<1>5. ASSUME NEW p \in Slot, NEW ch \in Device, Sleep(p, ch) PROVE ProcInv'
  BY <1>5, SleepInv DEF Chan
<1>6. ASSUME NEW ch \in Chan, Wakeup(ch) PROVE ProcInv'
  BY <1>6, WakeupInv
<1>7. CASE UNCHANGED vars
  <2>1. /\ UNCHANGED <<state, pid, parent, killed, chan>>
        /\ UNCHANGED <<nextpid, cpuproc, scan, ptlock, pc, np>>
    BY <1>7 DEF vars, procVars
  <2>2. TypeOK'
    BY <2>1, Zenon DEF ProcInv, TypeOK
  <2>3. CpuInv' /\ PidInv'
    BY <2>1 DEF ProcInv, CpuInv, PidInv
  <2>4. ForkInv' /\ FamilyInv' /\ WaitMissesNothing'
    BY <2>1, Zenon DEF ProcInv, ForkInv, FamilyInv, WaitMissesNothing
  <2> QED BY <2>2, <2>3, <2>4, Zenon DEF ProcInv
<1> QED BY <1>1, <1>2, <1>3, <1>4, <1>5, <1>6, <1>7 DEF Next

LEMMA ProcAlways == Spec => []ProcInv
BY ProcInitInv, ProcStepInv, PTL DEF Spec

(* For any number of slots and processors, a process is RUNNING on one     *)
(* CPU, the one whose c->proc it is, or on none, and the processes that    *)
(* exist have distinct pids (scheduler, yield_proc, allocproc and fork of  *)
(* src/kernel/c/proc.c, enter_scheduler of src/kernel/src/proc.rs).        *)
THEOREM NoSharedStack == Spec => []OneCpu
<1>1. ProcInv => OneCpu
  BY Zenon DEF ProcInv, OneCpu, CpuInv, PidInv
<1> QED BY <1>1, ProcAlways, PTL

(* For any number of slots, every process that can become a zombie has a   *)
(* living parent, and a parent asleep in wait has no zombie child and has  *)
(* not been killed (exit, wait and kill of src/kernel/c/proc.c).           *)
THEOREM WaitComplete == Spec => []WaitMissesNothing
<1>1. ProcInv => WaitMissesNothing
  BY DEF ProcInv
<1> QED BY <1>1, ProcAlways, PTL
=============================================================================
