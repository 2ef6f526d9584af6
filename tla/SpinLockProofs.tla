--------------------------- MODULE SpinLockProofs ---------------------------
(***************************************************************************)
(* Mutual exclusion, freedom from panics and the interrupt discipline of   *)
(* SpinLock for any number of CPUs, processes and locks.                   *)
(***************************************************************************)
EXTENDS SpinLock, FiniteSetTheorems, TLAPS

(* push_cli has run for a lock the CPU does not hold (yet or any more). *)
Pushed(c) == pc[cur[c]] \in {"holding", "holding2", "cas", "popcli"}

(* Every CPU runs its own scheduler or a process no other CPU runs; what   *)
(* is not running waits in swtch (or forkret), schedulers in their loop.   *)
CurInv ==
  /\ \A c \in CPU : cur[c] = c \/ cur[c] \in Proc
  /\ \A c, d \in CPU : cur[c] = cur[d] => c = d
  /\ \A p \in Proc : pc[p] \in {"swtch", "forkret"} <=> \A c \in CPU : cur[c] # p
  /\ \A c \in CPU : pc[c] \notin {"swtch", "forkret"}
  /\ \A c \in CPU : cur[c] # c => pc[c] = "run" /\ ~InHandler(c)
  /\ \A p \in Proc : pc[p] = "forkret" => fresh[p] /\ ~InHandler(p)

(* ncli counts the locks the CPU holds and the push_cli in progress. *)
CountInv(c) ==
  /\ IsFiniteSet(held[c])
  /\ ncli[c] = Cardinality(held[c]) + (IF Pushed(c) THEN 1 ELSE 0)

(* Where the argument of acquire or release stands to the locks held. *)
ArgInv(c) ==
  /\ pc[cur[c]] \in {"setcpu", "release", "unlock"} => arg[cur[c]] \in held[c]
  /\ pc[cur[c]] \in {"cli", "holding", "holding2", "cas"} => arg[cur[c]] \notin held[c]

(* SpinLockC.cpu names the holder, except just after the lock is taken    *)
(* and just before it is given back.                                      *)
OwnerInv(c) ==
  \A l \in Lock :
    owner[l] = c <=> /\ l \in held[c]
                     /\ ~(pc[cur[c]] \in {"setcpu", "unlock"} /\ arg[cur[c]] = l)

(* Interrupts are off where ncli is positive and in handlers, and pop_cli *)
(* does not turn them on in a handler.                                    *)
OffInv(c) ==
  /\ ncli[c] > 0 => ~iflag[c]
  /\ InHandler(cur[c]) =>
       /\ ~iflag[c]
       /\ pc[cur[c]] = "cli" => ~efl[cur[c]]
       /\ ncli[c] > 0 => ~intena[c]

(* A process outside handlers that has been to user space will find its   *)
(* interrupts on again when it has released its locks.                    *)
OnInv(c) ==
  cur[c] \in Proc /\ ~InHandler(cur[c]) /\ ~fresh[cur[c]] =>
    /\ ncli[c] = 0 => iflag[c]
    /\ ncli[c] = 0 /\ pc[cur[c]] = "cli" => efl[cur[c]]
    /\ ncli[c] > 0 => intena[c]

(* The same of what a process keeps on its stack while it does not run or *)
(* a handler runs on it.                                                  *)
StackInv(p) ==
  /\ pc[p] = "swtch" /\ InHandler(p) => ~sav[p]
  /\ ~fresh[p] /\ InHandler(p) /\ saved[p].pc = "cli" => saved[p].efl
  /\ ~fresh[p] /\ ~InHandler(p) /\ pc[p] = "swtch" => sav[p]

CpuInv(c) == CountInv(c) /\ ArgInv(c) /\ OwnerInv(c) /\ OffInv(c) /\ OnInv(c)

IInv ==
  /\ TypeOK /\ CurInv /\ MutualExclusion /\ NoPanic
  /\ \A c \in CPU : CpuInv(c)
  /\ \A p \in Proc : StackInv(p)

(* IInv holds initially, of main's boot state. *)
LEMMA InitIInv == Init => IInv
<1> SUFFICES ASSUME Init PROVE IInv
  OBVIOUS
<1> USE LockAssumption DEF Init, Ctx, InHandler
<1>1. TypeOK
  BY DEF TypeOK, Locations
<1>2. CurInv
  BY Zenon DEF CurInv
<1>3. MutualExclusion
  BY DEF MutualExclusion
<1>4. \A c \in CPU : CountInv(c)
  BY FS_EmptySet DEF CountInv, Pushed
<1>5. \A c \in CPU : ArgInv(c) /\ OwnerInv(c) /\ OffInv(c) /\ OnInv(c)
  BY DEF ArgInv, OwnerInv, OffInv, OnInv
<1>6. NoPanic /\ \A p \in Proc : StackInv(p)
  BY DEF NoPanic, StackInv
<1> QED
  BY <1>1, <1>2, <1>3, <1>4, <1>5, <1>6, Zenon DEF IInv, CpuInv

-----------------------------------------------------------------------------
(* The value of ncli where no push_cli is in progress. *)
LEMMA NcliZero ==
  ASSUME IInv, NEW c \in CPU, held[c] = {}, ~Pushed(c)
  PROVE  ncli[c] = 0
<1>1. Cardinality(held[c]) = 0 /\ ncli[c] = Cardinality(held[c]) + 0
  BY FS_EmptySet, Zenon DEF IInv, CpuInv, CountInv
<1> QED
  BY <1>1

LEMMA NcliOne ==
  ASSUME IInv, NEW c \in CPU, held[c] = {PT}, ~Pushed(c)
  PROVE  ncli[c] = 1 /\ ~iflag[c]
<1>1. Cardinality(held[c]) = 1
  BY FS_Singleton, Zenon
<1>2. ncli[c] = Cardinality(held[c]) + 0 /\ OffInv(c)
  BY Zenon DEF IInv, CpuInv, CountInv
<1> QED
  BY <1>1, <1>2 DEF OffInv

(* A positive ncli, and with it interrupts off, where the code relies on it. *)
LEMMA NcliPositive ==
  ASSUME IInv, NEW c \in CPU, held[c] # {} \/ Pushed(c)
  PROVE  ncli[c] > 0 /\ ~iflag[c]
<1>1. CountInv(c) /\ OffInv(c)
  BY Zenon DEF IInv, CpuInv
<1>2. Cardinality(held[c]) \in Nat /\ (held[c] # {} => Cardinality(held[c]) # 0)
  BY <1>1, FS_CardinalityType, FS_EmptySet, Zenon DEF CountInv
<1>3. ncli[c] > 0
  BY <1>1, <1>2 DEF CountInv
<1> QED
  BY <1>1, <1>3 DEF OffInv

(* A CPU that keeps its locks and is in no push_cli before and after. *)
LEMMA CountKept ==
  ASSUME NEW c \in CPU, CountInv(c), held'[c] = held[c], ncli'[c] = ncli[c],
         Pushed(c)' <=> Pushed(c)
  PROVE  CountInv(c)'
BY Zenon DEF CountInv

(* A CPU whose locks keep their owners, outside the steps that store it. *)
LEMMA OwnerKept ==
  ASSUME NEW c \in CPU, OwnerInv(c), owner' = owner, held'[c] = held[c],
         pc[cur[c]] \notin {"setcpu", "unlock"}, pc'[cur'[c]] \notin {"setcpu", "unlock"}
  PROVE  OwnerInv(c)'
BY Zenon DEF OwnerInv

(* One lock more, and one less. *)
LEMMA OneMore ==
  ASSUME NEW S, NEW l, IsFiniteSet(S), l \notin S
  PROVE  IsFiniteSet(S \cup {l}) /\ Cardinality(S \cup {l}) = Cardinality(S) + 1
BY FS_AddElement, Zenon

LEMMA OneLess ==
  ASSUME NEW S, NEW l, IsFiniteSet(S), l \in S
  PROVE  IsFiniteSet(S \ {l}) /\ Cardinality(S \ {l}) = Cardinality(S) - 1
BY FS_RemoveElement, Zenon

-----------------------------------------------------------------------------
(* What a step of CPU c leaves alone: the other CPUs, and the contexts it  *)
(* neither ran nor runs now.                                               *)
OthersKept(c) ==
  /\ \A d \in CPU : d # c => /\ cur'[d] = cur[d] /\ held'[d] = held[d] /\ ncli'[d] = ncli[d]
                             /\ intena'[d] = intena[d] /\ iflag'[d] = iflag[d]
  /\ \A d \in CPU, l \in Lock : d # c => (owner'[l] = d <=> owner[l] = d)
  /\ \A y \in Ctx : y # cur[c] /\ y # cur'[c] =>
       /\ pc'[y] = pc[y] /\ arg'[y] = arg[y] /\ efl'[y] = efl[y]
       /\ saved'[y] = saved[y] /\ sav'[y] = sav[y] /\ fresh'[y] = fresh[y]

(* So that what is left to show of a step is about c and its contexts. *)
LEMMA OneCpu ==
  ASSUME IInv, NEW c \in CPU, NEW x \in Ctx, NEW y \in Ctx, x = cur[c], y = cur'[c],
         OthersKept(c), TypeOK', CurInv', MutualExclusion',
         pc'[x] # "panic", pc'[y] # "panic",
         CpuInv(c)',
         x \in Proc => StackInv(x)', y \in Proc => StackInv(y)'
  PROVE  IInv'
<1>1. ASSUME NEW d \in CPU, d # c PROVE CpuInv(d)'
  <2>1. PICK z : z = cur[d]
    OBVIOUS
  <2>2. /\ CpuInv(d)
        /\ z \in Ctx /\ cur'[d] = z /\ held'[d] = held[d] /\ ncli'[d] = ncli[d]
        /\ intena'[d] = intena[d] /\ iflag'[d] = iflag[d]
        /\ \A l \in Lock : owner'[l] = d <=> owner[l] = d
    <3>1. TypeOK /\ CpuInv(d)
      BY Zenon DEF IInv
    <3> QED
      BY <1>1, <2>1, <3>1, ZenonT(40) DEF TypeOK, OthersKept
  <2>3. z # x /\ z # y
    <3>1. CurInv /\ CurInv'
      BY Zenon DEF IInv
    <3>2. cur[c] # cur[d]
      BY <1>1, <3>1, Zenon DEF CurInv
    <3>3. cur'[c] # cur'[d]
      BY <1>1, <3>1, Zenon DEF CurInv
    <3> QED
      BY <2>1, <2>2, <3>2, <3>3, Zenon
  <2>4. pc'[z] = pc[z] /\ arg'[z] = arg[z] /\ efl'[z] = efl[z] /\ saved'[z] = saved[z] /\ fresh'[z] = fresh[z]
    BY <2>2, <2>3, Zenon DEF OthersKept
  <2>5. CountInv(d)'
    <3>1. Pushed(d)' <=> Pushed(d)
      BY <2>1, <2>2, <2>4, Zenon DEF Pushed
    <3> QED
      BY <2>2, <3>1, CountKept, Zenon DEF CpuInv
  <2>6. ArgInv(d)' /\ OwnerInv(d)'
    BY <2>1, <2>2, <2>4 DEF CpuInv, ArgInv, OwnerInv
  <2>7. OffInv(d)' /\ OnInv(d)'
    BY <2>1, <2>2, <2>4, Zenon DEF CpuInv, OffInv, OnInv, InHandler
  <2> QED
    BY <2>5, <2>6, <2>7, Zenon DEF CpuInv
<1>2. ASSUME NEW p \in Proc, p # x, p # y PROVE StackInv(p)'
  <2>1. pc'[p] = pc[p] /\ saved'[p] = saved[p] /\ sav'[p] = sav[p] /\ fresh'[p] = fresh[p]
    BY <1>2, Zenon DEF OthersKept, Ctx
  <2>2. StackInv(p)
    BY Zenon DEF IInv
  <2> QED
    BY <2>1, <2>2, Zenon DEF StackInv, InHandler
<1>3. NoPanic'
  <2>1. \A z \in Ctx : z # x /\ z # y => pc'[z] = pc[z]
    BY Zenon DEF OthersKept
  <2>2. NoPanic
    BY Zenon DEF IInv
  <2> QED
    BY <2>1, <2>2 DEF NoPanic
<1> QED
  BY <1>1, <1>2, <1>3, Zenon DEF IInv

(* A step that switches to no other context. *)
LEMMA CurKept ==
  ASSUME IInv, NEW c \in CPU, NEW x \in Ctx, x = cur[c], cur' = cur,
         OthersKept(c), pc'[x] \notin {"swtch", "forkret"}
  PROVE  CurInv'
<1>1. CurInv
  BY Zenon DEF IInv
<1>2. \A y \in Ctx : y # x => pc'[y] = pc[y] /\ saved'[y] = saved[y] /\ fresh'[y] = fresh[y]
  BY DEF OthersKept
<1>3. pc[x] \notin {"swtch", "forkret"}
  BY <1>1 DEF CurInv
<1>4. \A d \in CPU : cur[d] # d => d # x
  BY <1>1, LockAssumption DEF CurInv
<1>5. \A d \in CPU : d \in Ctx
  BY Zenon DEF Ctx
<1>6. \A p \in Proc : p \in Ctx
  BY Zenon DEF Ctx
<1>7. \A p \in Proc : pc'[p] \in {"swtch", "forkret"} <=> \A d \in CPU : cur[d] # p
  BY <1>1, <1>2, <1>3, <1>6 DEF CurInv
<1>8. \A p \in Proc : pc'[p] = "forkret" => fresh'[p] /\ ~InHandler(p)'
  BY <1>1, <1>2, <1>3, <1>6 DEF CurInv, InHandler
<1>9. /\ \A d \in CPU : pc'[d] \notin {"swtch", "forkret"}
      /\ \A d \in CPU : cur[d] # d => pc'[d] = "run" /\ ~InHandler(d)'
  BY <1>1, <1>2, <1>4, <1>5, Zenon DEF CurInv, InHandler
<1> QED
  BY <1>1, <1>7, <1>8, <1>9, ZenonT(40) DEF CurInv

-----------------------------------------------------------------------------
(* acquire: push_cli reads eflags. *)
LEMMA AcquireStartStep ==
  ASSUME IInv, NEW c \in CPU, NEW l \in Lock, NEW x \in Ctx, x = cur[c], AcquireStart(c, l)
  PROVE  IInv'
<1>0. TypeOK /\ MutualExclusion /\ CpuInv(c) /\ (x \in Proc => StackInv(x))
  BY Zenon DEF IInv
<1>1. /\ pc[x] = "run" /\ MayAcquire(c, l)
      /\ arg' = [arg EXCEPT ![x] = l]
      /\ efl' = [efl EXCEPT ![x] = iflag[c]]
      /\ pc' = [pc EXCEPT ![x] = "cli"]
      /\ UNCHANGED <<locked, owner, ncli, intena, iflag, cur, held, saved, sav, fresh>>
  BY Zenon DEF AcquireStart, Goto, cpuVars
<1>2. TypeOK'
  BY <1>0, <1>1, Zenon DEF TypeOK, Locations
<1>3. pc'[x] = "cli" /\ arg'[x] = l /\ efl'[x] = iflag[c] /\ cur'[c] = x /\ ncli[c] \in Nat
  BY <1>0, <1>1, Zenon DEF TypeOK
<1>4. OthersKept(c)
  BY <1>0, <1>1, Zenon DEF TypeOK, OthersKept
<1>5. l \notin held[c]
  <2>1. \A h \in held[c] : Rank[h] < Rank[l]
    BY <1>1, Zenon DEF MayAcquire
  <2>2. Rank[l] \in Nat
    BY LockAssumption, Zenon
  <2> QED
    BY <2>1, <2>2
<1>6. CpuInv(c)'
  <2>1. CountInv(c)'
    BY <1>0, <1>1, <1>3, CountKept, Zenon DEF CpuInv, Pushed
  <2>2. ArgInv(c)' /\ OwnerInv(c)'
    BY <1>0, <1>1, <1>3, <1>5 DEF CpuInv, ArgInv, OwnerInv
  <2>3. OffInv(c)' /\ OnInv(c)'
    BY <1>0, <1>1, <1>3 DEF CpuInv, OffInv, OnInv, InHandler
  <2> QED
    BY <2>1, <2>2, <2>3, Zenon DEF CpuInv
<1>7. x \in Proc => StackInv(x)'
  BY <1>0, <1>1, <1>3 DEF StackInv, InHandler
<1>8. MutualExclusion' /\ CurInv'
  BY <1>0, <1>1, <1>3, <1>4, CurKept, Zenon DEF MutualExclusion
<1> QED
  BY <1>2, <1>3, <1>4, <1>6, <1>7, <1>8, OneCpu, Zenon

(* scheduler's loop: sti, then acquire(&ptable.lock). *)
LEMMA SchedulerLoopStep ==
  ASSUME IInv, NEW c \in CPU, NEW x \in Ctx, x = cur[c], SchedulerLoop(c)
  PROVE  IInv'
<1>0. TypeOK /\ MutualExclusion /\ CpuInv(c) /\ (x \in Proc => StackInv(x))
  BY Zenon DEF IInv
<1>1. /\ x = c /\ pc[x] = "run" /\ ~InHandler(x) /\ held[c] = {}
      /\ iflag' = [iflag EXCEPT ![c] = TRUE]
      /\ arg' = [arg EXCEPT ![x] = PT]
      /\ efl' = [efl EXCEPT ![x] = TRUE]
      /\ pc' = [pc EXCEPT ![x] = "cli"]
      /\ UNCHANGED <<locked, owner, ncli, intena, cur, held, saved, sav, fresh>>
  BY Zenon DEF SchedulerLoop, Goto
<1>2. TypeOK'
  BY <1>0, <1>1, LockAssumption, Zenon DEF TypeOK, Locations
<1>3. /\ pc'[x] = "cli" /\ arg'[x] = PT /\ efl'[x] = TRUE /\ iflag'[c] = TRUE
      /\ cur'[c] = x /\ ncli[c] \in Nat
  BY <1>0, <1>1, Zenon DEF TypeOK
<1>4. OthersKept(c)
  BY <1>0, <1>1, Zenon DEF TypeOK, OthersKept
<1>5. ncli[c] = 0 /\ x \notin Proc
  BY <1>1, NcliZero, LockAssumption, Zenon DEF Pushed
<1>6. CpuInv(c)'
  <2>1. CountInv(c)'
    BY <1>0, <1>1, <1>3, CountKept, Zenon DEF CpuInv, Pushed
  <2>2. ArgInv(c)' /\ OwnerInv(c)'
    BY <1>0, <1>1, <1>3 DEF CpuInv, ArgInv, OwnerInv
  <2>3. OffInv(c)' /\ OnInv(c)'
    BY <1>0, <1>1, <1>3, <1>5 DEF CpuInv, OffInv, OnInv, InHandler
  <2> QED
    BY <2>1, <2>2, <2>3, Zenon DEF CpuInv
<1>7. x \in Proc => StackInv(x)'
  BY <1>0, <1>1, <1>3 DEF StackInv, InHandler
<1>8. MutualExclusion' /\ CurInv'
  BY <1>0, <1>1, <1>3, <1>4, CurKept, Zenon DEF MutualExclusion
<1> QED
  BY <1>2, <1>3, <1>4, <1>6, <1>7, <1>8, OneCpu, Zenon

(* push_cli: cli and the count. *)
LEMMA PushCliStep ==
  ASSUME IInv, NEW c \in CPU, NEW x \in Ctx, x = cur[c], PushCli(c)
  PROVE  IInv'
<1>0. TypeOK /\ MutualExclusion /\ CpuInv(c) /\ (x \in Proc => StackInv(x))
  BY Zenon DEF IInv
<1>1. /\ pc[x] = "cli"
      /\ iflag' = [iflag EXCEPT ![c] = FALSE]
      /\ intena' = IF ncli[c] = 0 THEN [intena EXCEPT ![c] = efl[x]] ELSE intena
      /\ ncli' = [ncli EXCEPT ![c] = @ + 1]
      /\ efl' = [efl EXCEPT ![x] = FALSE]
      /\ pc' = [pc EXCEPT ![x] = "holding"]
      /\ UNCHANGED <<locked, owner, cur, held, arg, saved, sav, fresh>>
  BY Zenon DEF PushCli, Goto
<1>b. ncli[c] + 1 \in Nat /\ efl[x] \in BOOLEAN /\ intena' \in [CPU -> BOOLEAN]
  <2>1. ncli[c] \in Nat /\ efl[x] \in BOOLEAN /\ intena' \in [CPU -> BOOLEAN]
    BY <1>0, <1>1, Zenon DEF TypeOK
  <2> QED
    BY <2>1
<1>2. TypeOK'
  BY <1>0, <1>1, <1>b, Zenon DEF TypeOK, Locations
<1>3. /\ pc'[x] = "holding" /\ efl'[x] = FALSE /\ iflag'[c] = FALSE /\ ncli'[c] = ncli[c] + 1
      /\ ncli[c] = 0 => intena'[c] = efl[x]
      /\ ncli[c] # 0 => intena'[c] = intena[c]
      /\ cur'[c] = x /\ ncli[c] \in Nat
  BY <1>0, <1>1, Zenon DEF TypeOK
<1>4. OthersKept(c)
  BY <1>0, <1>1, Zenon DEF TypeOK, OthersKept
<1>6. CpuInv(c)'
  <2>1. CountInv(c)'
    <3>1. ~Pushed(c) /\ Pushed(c)'
      BY <1>1, <1>3, Zenon DEF Pushed
    <3>2. IsFiniteSet(held[c]) /\ ncli[c] = Cardinality(held[c]) + 0
      BY <1>0, <3>1, Zenon DEF CpuInv, CountInv
    <3>3. Cardinality(held[c]) \in Nat
      BY <3>2, FS_CardinalityType, Zenon
    <3>4. ncli'[c] = Cardinality(held[c]) + 1
      BY <1>3, <3>2, <3>3
    <3> QED
      BY <1>1, <3>1, <3>2, <3>4, Zenon DEF CountInv
  <2>2. ArgInv(c)' /\ OwnerInv(c)'
    BY <1>0, <1>1, <1>3 DEF CpuInv, ArgInv, OwnerInv
  <2>3. OffInv(c)' /\ OnInv(c)'
    BY <1>0, <1>1, <1>3 DEF CpuInv, OffInv, OnInv, InHandler
  <2> QED
    BY <2>1, <2>2, <2>3, Zenon DEF CpuInv
<1>7. x \in Proc => StackInv(x)'
  BY <1>0, <1>1, <1>3 DEF StackInv, InHandler
<1>8. MutualExclusion' /\ CurInv'
  BY <1>0, <1>1, <1>3, <1>4, CurKept, Zenon DEF MutualExclusion
<1> QED
  BY <1>2, <1>3, <1>4, <1>6, <1>7, <1>8, OneCpu, Zenon

(* acquire asserts that the CPU does not hold the lock: the load of locked. *)
LEMMA HoldingLoadLockedStep ==
  ASSUME IInv, NEW c \in CPU, NEW x \in Ctx, x = cur[c], HoldingLoadLocked(c)
  PROVE  IInv'
<1>0. TypeOK /\ MutualExclusion /\ CpuInv(c) /\ (x \in Proc => StackInv(x))
  BY Zenon DEF IInv
<1>1. /\ pc[x] = "holding"
      /\ pc' = [pc EXCEPT ![x] = IF locked[arg[x]] THEN "holding2" ELSE "cas"]
      /\ UNCHANGED <<locked, owner, ncli, intena, iflag, cur, held, arg, efl, saved, sav, fresh>>
  BY Zenon DEF HoldingLoadLocked, Goto, cpuVars
<1>2. TypeOK'
  BY <1>0, <1>1, Zenon DEF TypeOK, Locations
<1>3. /\ pc'[x] \in {"holding2", "cas"}
      /\ cur'[c] = x /\ ncli[c] \in Nat
  BY <1>0, <1>1, Zenon DEF TypeOK
<1>4. OthersKept(c)
  BY <1>0, <1>1, Zenon DEF TypeOK, OthersKept
<1>6. CpuInv(c)'
  <2>1. CountInv(c)'
    BY <1>0, <1>1, <1>3, CountKept, Zenon DEF CpuInv, Pushed
  <2>2. ArgInv(c)' /\ OwnerInv(c)'
    BY <1>0, <1>1, <1>3 DEF CpuInv, ArgInv, OwnerInv
  <2>3. OffInv(c)' /\ OnInv(c)'
    BY <1>0, <1>1, <1>3 DEF CpuInv, OffInv, OnInv, InHandler
  <2> QED
    BY <2>1, <2>2, <2>3, Zenon DEF CpuInv
<1>7. x \in Proc => StackInv(x)'
  BY <1>0, <1>1, <1>3 DEF StackInv, InHandler
<1>8. MutualExclusion' /\ CurInv'
  BY <1>0, <1>1, <1>3, <1>4, CurKept, Zenon DEF MutualExclusion
<1> QED
  BY <1>2, <1>3, <1>4, <1>6, <1>7, <1>8, OneCpu, Zenon

(* ... and the load of cpu. *)
LEMMA HoldingLoadCpuStep ==
  ASSUME IInv, NEW c \in CPU, NEW x \in Ctx, x = cur[c], HoldingLoadCpu(c)
  PROVE  IInv'
<1>0. TypeOK /\ MutualExclusion /\ CpuInv(c) /\ (x \in Proc => StackInv(x))
  BY Zenon DEF IInv
<1>a. owner[arg[x]] # c
  <2>1. pc[x] = "holding2" /\ arg[x] \in Lock
    BY <1>0, Zenon DEF HoldingLoadCpu, TypeOK
  <2> QED
    BY <1>0, <2>1 DEF CpuInv, ArgInv, OwnerInv
<1>1. /\ pc[x] = "holding2"
      /\ pc' = [pc EXCEPT ![x] = "cas"]
      /\ UNCHANGED <<locked, owner, ncli, intena, iflag, cur, held, arg, efl, saved, sav, fresh>>
  BY <1>a, Zenon DEF HoldingLoadCpu, Goto, cpuVars
<1>2. TypeOK'
  BY <1>0, <1>1, Zenon DEF TypeOK, Locations
<1>3. /\ pc'[x] = "cas"
      /\ cur'[c] = x /\ ncli[c] \in Nat
  BY <1>0, <1>1, Zenon DEF TypeOK
<1>4. OthersKept(c)
  BY <1>0, <1>1, Zenon DEF TypeOK, OthersKept
<1>6. CpuInv(c)'
  <2>1. CountInv(c)'
    BY <1>0, <1>1, <1>3, CountKept, Zenon DEF CpuInv, Pushed
  <2>2. ArgInv(c)' /\ OwnerInv(c)'
    BY <1>0, <1>1, <1>3 DEF CpuInv, ArgInv, OwnerInv
  <2>3. OffInv(c)' /\ OnInv(c)'
    BY <1>0, <1>1, <1>3 DEF CpuInv, OffInv, OnInv, InHandler
  <2> QED
    BY <2>1, <2>2, <2>3, Zenon DEF CpuInv
<1>7. x \in Proc => StackInv(x)'
  BY <1>0, <1>1, <1>3 DEF StackInv, InHandler
<1>8. MutualExclusion' /\ CurInv'
  BY <1>0, <1>1, <1>3, <1>4, CurKept, Zenon DEF MutualExclusion
<1> QED
  BY <1>2, <1>3, <1>4, <1>6, <1>7, <1>8, OneCpu, Zenon

(* The compare-and-exchange that takes the lock. *)
LEMMA CompareExchangeStep ==
  ASSUME IInv, NEW c \in CPU, NEW x \in Ctx, x = cur[c], CompareExchange(c)
  PROVE  IInv'
<1>0. TypeOK /\ MutualExclusion /\ CpuInv(c) /\ (x \in Proc => StackInv(x))
  BY Zenon DEF IInv
<1>1. /\ pc[x] = "cas" /\ ~locked[arg[x]]
      /\ locked' = [locked EXCEPT ![arg[x]] = TRUE]
      /\ held' = [held EXCEPT ![c] = @ \cup {arg[x]}]
      /\ pc' = [pc EXCEPT ![x] = "setcpu"]
      /\ UNCHANGED <<owner, ncli, intena, iflag, cur, arg, efl, saved, sav, fresh>>
  BY Zenon DEF CompareExchange, Goto, cpuVars
<1>b. arg[x] \in Lock /\ held[c] \cup {arg[x]} \in SUBSET Lock
  BY <1>0, Zenon DEF TypeOK
<1>2. TypeOK'
  BY <1>0, <1>1, <1>b, Zenon DEF TypeOK, Locations
<1>3. /\ pc'[x] = "setcpu" /\ held'[c] = held[c] \cup {arg[x]} /\ arg[x] \in Lock
      /\ locked'[arg[x]] = TRUE /\ \A l \in Lock : l # arg[x] => locked'[l] = locked[l]
      /\ \A d \in CPU : d # c => held'[d] = held[d]
      /\ cur'[c] = x /\ ncli[c] \in Nat
  BY <1>0, <1>1, Zenon DEF TypeOK
<1>4. OthersKept(c)
  BY <1>0, <1>1, Zenon DEF TypeOK, OthersKept
<1>5. arg[x] \notin held[c]
  BY <1>0, <1>1, Zenon DEF CpuInv, ArgInv
<1>6. CpuInv(c)'
  <2>1. CountInv(c)'
    <3>1. Pushed(c) /\ ~Pushed(c)'
      BY <1>1, <1>3, Zenon DEF Pushed
    <3>2. IsFiniteSet(held[c]) /\ ncli[c] = Cardinality(held[c]) + 1
      BY <1>0, <3>1, Zenon DEF CpuInv, CountInv
    <3>3. IsFiniteSet(held'[c]) /\ Cardinality(held'[c]) = Cardinality(held[c]) + 1
      <4>1. PICK S : S = held[c]
        OBVIOUS
      <4>2. IsFiniteSet(S \cup {arg[x]}) /\ Cardinality(S \cup {arg[x]}) = Cardinality(S) + 1
        BY <1>5, <3>2, <4>1, OneMore, Zenon
      <4> QED
        BY <1>3, <4>1, <4>2, Zenon
    <3>4. Cardinality(held[c]) \in Nat
      BY <3>2, FS_CardinalityType, Zenon
    <3>5. ncli'[c] = Cardinality(held'[c]) + 0
      BY <1>1, <3>2, <3>3, <3>4
    <3> QED
      BY <3>1, <3>3, <3>5, Zenon DEF CountInv
  <2>2. ArgInv(c)' /\ OwnerInv(c)'
    BY <1>0, <1>1, <1>3, <1>5 DEF CpuInv, ArgInv, OwnerInv
  <2>3. OffInv(c)' /\ OnInv(c)'
    BY <1>0, <1>1, <1>3 DEF CpuInv, OffInv, OnInv, InHandler
  <2> QED
    BY <2>1, <2>2, <2>3, Zenon DEF CpuInv
<1>7. x \in Proc => StackInv(x)'
  BY <1>0, <1>1, <1>3 DEF StackInv, InHandler
<1>8. MutualExclusion' /\ CurInv'
  <2>1. \A d \in CPU : arg[x] \notin held[d]
    BY <1>0, <1>1, <1>3 DEF MutualExclusion
  <2>2. \A d, e \in CPU : d # e => held'[d] \cap held'[e] = {}
    BY <1>0, <1>3, <2>1 DEF MutualExclusion
  <2>3. \A l \in Lock : locked'[l] <=> \E d \in CPU : l \in held'[d]
    BY <1>0, <1>3 DEF MutualExclusion
  <2> QED
    BY <1>1, <1>3, <1>4, <2>2, <2>3, CurKept, Zenon DEF MutualExclusion
<1> QED
  BY <1>2, <1>3, <1>4, <1>6, <1>7, <1>8, OneCpu, Zenon

(* ... and the store of cpu that follows. *)
LEMMA SetCpuStep ==
  ASSUME IInv, NEW c \in CPU, NEW x \in Ctx, x = cur[c], SetCpu(c)
  PROVE  IInv'
<1>0. TypeOK /\ MutualExclusion /\ CpuInv(c) /\ (x \in Proc => StackInv(x))
  BY Zenon DEF IInv
<1>1. /\ pc[x] = "setcpu"
      /\ owner' = [owner EXCEPT ![arg[x]] = c]
      /\ pc' = [pc EXCEPT ![x] = "run"]
      /\ arg' = [arg EXCEPT ![x] = PT]
      /\ UNCHANGED <<locked, ncli, intena, iflag, cur, held, efl, saved, sav, fresh>>
  BY Zenon DEF SetCpu, Return, Goto, cpuVars
<1>2. TypeOK'
  BY <1>0, <1>1, LockAssumption, Zenon DEF TypeOK, Locations
<1>3. /\ pc'[x] = "run" /\ arg[x] \in Lock /\ owner'[arg[x]] = c
      /\ \A l \in Lock : l # arg[x] => owner'[l] = owner[l]
      /\ cur'[c] = x /\ ncli[c] \in Nat
  BY <1>0, <1>1, Zenon DEF TypeOK
<1>4. OthersKept(c)
  <2>1. arg[x] \in held[c]
    BY <1>0, <1>1, Zenon DEF CpuInv, ArgInv
  <2>2. \A d \in CPU : d # c => owner[arg[x]] # d
    BY <1>0, <1>3, <2>1 DEF IInv, CpuInv, OwnerInv, MutualExclusion
  <2>3. \A d \in CPU, l \in Lock : d # c => (owner'[l] = d <=> owner[l] = d)
    BY <1>3, <2>2
  <2>4. \A y \in Ctx : y # x => pc'[y] = pc[y] /\ arg'[y] = arg[y]
    BY <1>0, <1>1, Zenon DEF TypeOK
  <2>5. UNCHANGED <<ncli, intena, iflag, cur, held, efl, saved, sav, fresh>>
    BY <1>1, Zenon
  <2> QED
    BY <2>3, <2>4, <2>5 DEF OthersKept
<1>6. CpuInv(c)'
  <2>1. CountInv(c)'
    BY <1>0, <1>1, <1>3, CountKept, Zenon DEF CpuInv, Pushed
  <2>2. ArgInv(c)' /\ OwnerInv(c)'
    BY <1>0, <1>1, <1>3 DEF CpuInv, ArgInv, OwnerInv
  <2>3. OffInv(c)' /\ OnInv(c)'
    BY <1>0, <1>1, <1>3 DEF CpuInv, OffInv, OnInv, InHandler
  <2> QED
    BY <2>1, <2>2, <2>3, Zenon DEF CpuInv
<1>7. x \in Proc => StackInv(x)'
  BY <1>0, <1>1, <1>3 DEF StackInv, InHandler
<1>8. MutualExclusion' /\ CurInv'
  BY <1>0, <1>1, <1>3, <1>4, CurKept, Zenon DEF MutualExclusion
<1> QED
  BY <1>2, <1>3, <1>4, <1>6, <1>7, <1>8, OneCpu, Zenon

(* release of a lock held. *)
LEMMA ReleaseStartStep ==
  ASSUME IInv, NEW c \in CPU, NEW l \in Lock, NEW x \in Ctx, x = cur[c], ReleaseStart(c, l)
  PROVE  IInv'
<1>0. TypeOK /\ MutualExclusion /\ CpuInv(c) /\ (x \in Proc => StackInv(x))
  BY Zenon DEF IInv
<1>1. /\ pc[x] = "run" /\ l \in held[c]
      /\ arg' = [arg EXCEPT ![x] = l]
      /\ pc' = [pc EXCEPT ![x] = "release"]
      /\ UNCHANGED <<locked, owner, ncli, intena, iflag, cur, held, efl, saved, sav, fresh>>
  BY Zenon DEF ReleaseStart, Goto, cpuVars
<1>2. TypeOK'
  BY <1>0, <1>1, Zenon DEF TypeOK, Locations
<1>3. /\ pc'[x] = "release" /\ arg'[x] = l
      /\ cur'[c] = x /\ ncli[c] \in Nat
  BY <1>0, <1>1, Zenon DEF TypeOK
<1>4. OthersKept(c)
  BY <1>0, <1>1, Zenon DEF TypeOK, OthersKept
<1>6. CpuInv(c)'
  <2>1. CountInv(c)'
    BY <1>0, <1>1, <1>3, CountKept, Zenon DEF CpuInv, Pushed
  <2>2. ArgInv(c)' /\ OwnerInv(c)'
    BY <1>0, <1>1, <1>3 DEF CpuInv, ArgInv, OwnerInv
  <2>3. OffInv(c)' /\ OnInv(c)'
    BY <1>0, <1>1, <1>3 DEF CpuInv, OffInv, OnInv, InHandler
  <2> QED
    BY <2>1, <2>2, <2>3, Zenon DEF CpuInv
<1>7. x \in Proc => StackInv(x)'
  BY <1>0, <1>1, <1>3 DEF StackInv, InHandler
<1>8. MutualExclusion' /\ CurInv'
  BY <1>0, <1>1, <1>3, <1>4, CurKept, Zenon DEF MutualExclusion
<1> QED
  BY <1>2, <1>3, <1>4, <1>6, <1>7, <1>8, OneCpu, Zenon

(* release asserts that the CPU holds the lock, and clears cpu. *)
LEMMA ClearCpuStep ==
  ASSUME IInv, NEW c \in CPU, NEW x \in Ctx, x = cur[c], ClearCpu(c)
  PROVE  IInv'
<1>0. TypeOK /\ MutualExclusion /\ CpuInv(c) /\ (x \in Proc => StackInv(x))
  BY Zenon DEF IInv
<1>a. locked[arg[x]] /\ owner[arg[x]] = c
  <2>1. pc[x] = "release" /\ arg[x] \in Lock
    BY <1>0, Zenon DEF ClearCpu, TypeOK
  <2> QED
    BY <1>0, <2>1 DEF CpuInv, ArgInv, OwnerInv, MutualExclusion
<1>1. /\ pc[x] = "release"
      /\ owner' = [owner EXCEPT ![arg[x]] = NoCpu]
      /\ pc' = [pc EXCEPT ![x] = "unlock"]
      /\ UNCHANGED <<locked, ncli, intena, iflag, cur, held, arg, efl, saved, sav, fresh>>
  BY <1>a, Zenon DEF ClearCpu, Goto, cpuVars
<1>2. TypeOK'
  BY <1>0, <1>1, Zenon DEF TypeOK, Locations
<1>3. /\ pc'[x] = "unlock" /\ arg[x] \in Lock /\ owner'[arg[x]] = NoCpu
      /\ \A l \in Lock : l # arg[x] => owner'[l] = owner[l]
      /\ cur'[c] = x /\ ncli[c] \in Nat
  BY <1>0, <1>1, Zenon DEF TypeOK
<1>4. OthersKept(c)
  <2>1. \A d \in CPU, l \in Lock : d # c => (owner'[l] = d <=> owner[l] = d)
    BY <1>3, <1>a, LockAssumption
  <2>2. \A y \in Ctx : y # x => pc'[y] = pc[y]
    BY <1>0, <1>1, Zenon DEF TypeOK
  <2>3. UNCHANGED <<ncli, intena, iflag, cur, held, arg, efl, saved, sav, fresh>>
    BY <1>1, Zenon
  <2> QED
    BY <2>1, <2>2, <2>3 DEF OthersKept
<1>6. CpuInv(c)'
  <2>1. CountInv(c)'
    BY <1>0, <1>1, <1>3, CountKept, Zenon DEF CpuInv, Pushed
  <2>2. ArgInv(c)' /\ OwnerInv(c)'
    BY <1>0, <1>1, <1>3, LockAssumption DEF CpuInv, ArgInv, OwnerInv
  <2>3. OffInv(c)' /\ OnInv(c)'
    BY <1>0, <1>1, <1>3 DEF CpuInv, OffInv, OnInv, InHandler
  <2> QED
    BY <2>1, <2>2, <2>3, Zenon DEF CpuInv
<1>7. x \in Proc => StackInv(x)'
  BY <1>0, <1>1, <1>3 DEF StackInv, InHandler
<1>8. MutualExclusion' /\ CurInv'
  BY <1>0, <1>1, <1>3, <1>4, CurKept, Zenon DEF MutualExclusion
<1> QED
  BY <1>2, <1>3, <1>4, <1>6, <1>7, <1>8, OneCpu, Zenon

(* The store that gives the lock back. *)
LEMMA UnlockStep ==
  ASSUME IInv, NEW c \in CPU, NEW x \in Ctx, x = cur[c], Unlock(c)
  PROVE  IInv'
<1>0. TypeOK /\ MutualExclusion /\ CpuInv(c) /\ (x \in Proc => StackInv(x))
  BY Zenon DEF IInv
<1>1. /\ pc[x] = "unlock"
      /\ locked' = [locked EXCEPT ![arg[x]] = FALSE]
      /\ held' = [held EXCEPT ![c] = @ \ {arg[x]}]
      /\ pc' = [pc EXCEPT ![x] = "popcli"]
      /\ UNCHANGED <<owner, ncli, intena, iflag, cur, arg, efl, saved, sav, fresh>>
  BY Zenon DEF Unlock, Goto, cpuVars
<1>2. TypeOK'
  BY <1>0, <1>1, Zenon DEF TypeOK, Locations
<1>3. /\ pc'[x] = "popcli" /\ held'[c] = held[c] \ {arg[x]} /\ arg[x] \in Lock
      /\ locked'[arg[x]] = FALSE /\ \A l \in Lock : l # arg[x] => locked'[l] = locked[l]
      /\ \A d \in CPU : d # c => held'[d] = held[d]
      /\ cur'[c] = x /\ ncli[c] \in Nat
  BY <1>0, <1>1, Zenon DEF TypeOK
<1>4. OthersKept(c)
  BY <1>0, <1>1, Zenon DEF TypeOK, OthersKept
<1>5. arg[x] \in held[c]
  BY <1>0, <1>1, Zenon DEF CpuInv, ArgInv
<1>6. CpuInv(c)'
  <2>1. CountInv(c)'
    <3>1. ~Pushed(c) /\ Pushed(c)'
      BY <1>1, <1>3, Zenon DEF Pushed
    <3>2. IsFiniteSet(held[c]) /\ ncli[c] = Cardinality(held[c]) + 0
      BY <1>0, <3>1, Zenon DEF CpuInv, CountInv
    <3>3. IsFiniteSet(held'[c]) /\ Cardinality(held'[c]) = Cardinality(held[c]) - 1
      <4>1. PICK S : S = held[c]
        OBVIOUS
      <4>2. IsFiniteSet(S \ {arg[x]}) /\ Cardinality(S \ {arg[x]}) = Cardinality(S) - 1
        BY <1>5, <3>2, <4>1, OneLess, Zenon
      <4> QED
        BY <1>3, <4>1, <4>2, Zenon
    <3>4. Cardinality(held[c]) \in Nat
      BY <3>2, FS_CardinalityType, Zenon
    <3>5. ncli'[c] = Cardinality(held'[c]) + 1
      BY <1>1, <3>2, <3>3, <3>4
    <3> QED
      BY <3>1, <3>3, <3>5, Zenon DEF CountInv
  <2>2. ArgInv(c)' /\ OwnerInv(c)'
    <3>1. OwnerInv(c) /\ owner' = owner /\ pc[x] = "unlock"
      BY <1>0, <1>1, Zenon DEF CpuInv
    <3>2. OwnerInv(c)'
      BY <1>3, <3>1, Zenon DEF OwnerInv
    <3> QED
      BY <1>3, <3>2, Zenon DEF ArgInv
  <2>3. OffInv(c)' /\ OnInv(c)'
    BY <1>0, <1>1, <1>3 DEF CpuInv, OffInv, OnInv, InHandler
  <2> QED
    BY <2>1, <2>2, <2>3, Zenon DEF CpuInv
<1>7. x \in Proc => StackInv(x)'
  BY <1>0, <1>1, <1>3 DEF StackInv, InHandler
<1>8. MutualExclusion' /\ CurInv'
  <2>1. \A d \in CPU : d # c => arg[x] \notin held[d]
    BY <1>0, <1>5 DEF MutualExclusion
  <2>2. \A d, e \in CPU : d # e => held'[d] \cap held'[e] = {}
    BY <1>0, <1>3 DEF MutualExclusion
  <2>3. \A l \in Lock : locked'[l] <=> \E d \in CPU : l \in held'[d]
    BY <1>0, <1>3, <2>1 DEF MutualExclusion
  <2> QED
    BY <1>1, <1>3, <1>4, <2>2, <2>3, CurKept, Zenon DEF MutualExclusion
<1> QED
  BY <1>2, <1>3, <1>4, <1>6, <1>7, <1>8, OneCpu, Zenon

(* pop_cli, whose panics do not fire. *)
LEMMA PopCliStep ==
  ASSUME IInv, NEW c \in CPU, NEW x \in Ctx, x = cur[c], PopCli(c)
  PROVE  IInv'
<1>0. TypeOK /\ MutualExclusion /\ CpuInv(c) /\ (x \in Proc => StackInv(x))
  BY Zenon DEF IInv
<1>a. ncli[c] > 0 /\ ncli[c] # 0 /\ ~iflag[c]
  <2>1. Pushed(c)
    BY Zenon DEF PopCli, Pushed
  <2> QED
    BY <2>1, NcliPositive
<1>b. ncli[c] - 1 \in Nat
  <2>1. ncli[c] \in Nat
    BY <1>0, Zenon DEF TypeOK
  <2> QED
    BY <1>a, <2>1
<1>1. /\ pc[x] = "popcli"
      /\ ncli' = [ncli EXCEPT ![c] = @ - 1]
      /\ iflag' = [iflag EXCEPT ![c] = ncli[c] = 1 /\ intena[c]]
      /\ pc' = [pc EXCEPT ![x] = "run"]
      /\ arg' = [arg EXCEPT ![x] = PT]
      /\ UNCHANGED <<locked, owner, intena, cur, held, efl, saved, sav, fresh>>
  BY <1>a, Zenon DEF PopCli, Return, Goto
<1>2. TypeOK'
  BY <1>0, <1>1, <1>b, LockAssumption, Zenon DEF TypeOK, Locations
<1>3. /\ pc'[x] = "run" /\ ncli'[c] = ncli[c] - 1 /\ (iflag'[c] <=> ncli[c] = 1 /\ intena[c])
      /\ cur'[c] = x /\ ncli[c] \in Nat
  BY <1>0, <1>1, Zenon DEF TypeOK
<1>4. OthersKept(c)
  BY <1>0, <1>1, Zenon DEF TypeOK, OthersKept
<1>6. CpuInv(c)'
  <2>1. CountInv(c)'
    <3>1. Pushed(c) /\ ~Pushed(c)'
      BY <1>1, <1>3, Zenon DEF Pushed
    <3>2. IsFiniteSet(held[c]) /\ ncli[c] = Cardinality(held[c]) + 1
      BY <1>0, <3>1, Zenon DEF CpuInv, CountInv
    <3>3. Cardinality(held[c]) \in Nat
      BY <3>2, FS_CardinalityType, Zenon
    <3>4. ncli'[c] = Cardinality(held[c]) + 0
      BY <1>3, <3>2, <3>3
    <3> QED
      BY <1>1, <3>1, <3>2, <3>4, Zenon DEF CountInv
  <2>2. ArgInv(c)' /\ OwnerInv(c)'
    BY <1>0, <1>1, <1>3 DEF CpuInv, ArgInv, OwnerInv
  <2>3. OffInv(c)' /\ OnInv(c)'
    BY <1>0, <1>1, <1>3, <1>a DEF CpuInv, OffInv, OnInv, InHandler
  <2> QED
    BY <2>1, <2>2, <2>3, Zenon DEF CpuInv
<1>7. x \in Proc => StackInv(x)'
  BY <1>0, <1>1, <1>3 DEF StackInv, InHandler
<1>8. MutualExclusion' /\ CurInv'
  BY <1>0, <1>1, <1>3, <1>4, CurKept, Zenon DEF MutualExclusion
<1> QED
  BY <1>2, <1>3, <1>4, <1>6, <1>7, <1>8, OneCpu, Zenon

(* forkret returns to user space. *)
LEMMA TrapretStep ==
  ASSUME IInv, NEW c \in CPU, NEW x \in Ctx, x = cur[c], Trapret(c)
  PROVE  IInv'
<1>0. TypeOK /\ MutualExclusion /\ CpuInv(c) /\ (x \in Proc => StackInv(x))
  BY Zenon DEF IInv
<1>1. /\ x \in Proc /\ pc[x] = "run" /\ fresh[x] /\ ~InHandler(x) /\ held[c] = {}
      /\ fresh' = [fresh EXCEPT ![x] = FALSE]
      /\ iflag' = [iflag EXCEPT ![c] = TRUE]
      /\ UNCHANGED <<locked, owner, ncli, intena, cur, held, pc, arg, efl, saved, sav>>
  BY Zenon DEF Trapret
<1>2. TypeOK'
  BY <1>0, <1>1, Zenon DEF TypeOK, Locations
<1>3. /\ pc'[x] = "run" /\ fresh'[x] = FALSE /\ iflag'[c] = TRUE
      /\ cur'[c] = x /\ ncli[c] \in Nat
  BY <1>0, <1>1, Zenon DEF TypeOK
<1>4. OthersKept(c)
  BY <1>0, <1>1, Zenon DEF TypeOK, OthersKept
<1>5. ncli[c] = 0
  BY <1>1, NcliZero, Zenon DEF Pushed
<1>6. CpuInv(c)'
  <2>1. CountInv(c)'
    BY <1>0, <1>1, <1>3, CountKept, Zenon DEF CpuInv, Pushed
  <2>2. ArgInv(c)' /\ OwnerInv(c)'
    BY <1>0, <1>1, <1>3 DEF CpuInv, ArgInv, OwnerInv
  <2>3. OffInv(c)' /\ OnInv(c)'
    BY <1>0, <1>1, <1>3, <1>5 DEF CpuInv, OffInv, OnInv, InHandler
  <2> QED
    BY <2>1, <2>2, <2>3, Zenon DEF CpuInv
<1>7. x \in Proc => StackInv(x)'
  BY <1>0, <1>1, <1>3 DEF StackInv, InHandler
<1>8. MutualExclusion' /\ CurInv'
  BY <1>0, <1>1, <1>3, <1>4, CurKept, Zenon DEF MutualExclusion
<1> QED
  BY <1>2, <1>3, <1>4, <1>6, <1>7, <1>8, OneCpu, Zenon

(* An interrupt gate, taken with interrupts on. *)
LEMMA InterruptStep ==
  ASSUME IInv, NEW c \in CPU, NEW x \in Ctx, x = cur[c], Interrupt(c)
  PROVE  IInv'
<1>0. TypeOK /\ MutualExclusion /\ CpuInv(c) /\ (x \in Proc => StackInv(x))
  BY Zenon DEF IInv
<1>1. /\ iflag[c] /\ ~InHandler(x) /\ pc[x] \in {"run", "cli"}
      /\ saved' = [saved EXCEPT ![x] = [pc |-> pc[x], arg |-> arg[x], efl |-> efl[x]]]
      /\ iflag' = [iflag EXCEPT ![c] = FALSE]
      /\ pc' = [pc EXCEPT ![x] = "run"]
      /\ arg' = [arg EXCEPT ![x] = PT]
      /\ efl' = [efl EXCEPT ![x] = FALSE]
      /\ UNCHANGED <<locked, owner, ncli, intena, cur, held, sav, fresh>>
  BY Zenon DEF Interrupt, Return, Goto
<1>b. [pc |-> pc[x], arg |-> arg[x], efl |-> efl[x]] \in Frame
  BY <1>0, <1>1 DEF TypeOK, Frame
<1>2. TypeOK'
  BY <1>0, <1>1, <1>b, LockAssumption, Zenon DEF TypeOK, Locations
<1>3. /\ pc'[x] = "run" /\ efl'[x] = FALSE /\ iflag'[c] = FALSE
      /\ saved'[x] = [pc |-> pc[x], arg |-> arg[x], efl |-> efl[x]]
      /\ cur'[c] = x /\ ncli[c] \in Nat
  BY <1>0, <1>1, Zenon DEF TypeOK
<1>c. saved'[x].pc = pc[x] /\ saved'[x].efl = efl[x]
  BY <1>3
<1>d. UNCHANGED <<owner, ncli, intena, held, sav, fresh>>
  BY <1>1, Zenon
<1>4. OthersKept(c)
  BY <1>0, <1>1, Zenon DEF TypeOK, OthersKept
<1>5. ncli[c] = 0 /\ ~(ncli[c] > 0) /\ InHandler(x)'
  <2>1. ~(ncli[c] > 0)
    BY <1>0, <1>1, Zenon DEF CpuInv, OffInv
  <2>2. ncli[c] = 0
    BY <1>3, <2>1
  <2> QED
    BY <1>3, <1>b, <2>1, <2>2, FrameAssumption, Zenon DEF InHandler
<1>6. CpuInv(c)'
  <2>1. CountInv(c)'
    BY <1>0, <1>1, <1>3, CountKept, Zenon DEF CpuInv, Pushed
  <2>2. ArgInv(c)' /\ OwnerInv(c)'
    BY <1>0, <1>1, <1>3, <1>d, OwnerKept, Zenon DEF CpuInv, ArgInv
  <2>3. OffInv(c)' /\ OnInv(c)'
    BY <1>3, <1>5, <1>d, Zenon DEF OffInv, OnInv
  <2> QED
    BY <2>1, <2>2, <2>3, Zenon DEF CpuInv
<1>7. x \in Proc => StackInv(x)'
  <2>1. x \in Proc /\ ~fresh[x] /\ pc[x] = "cli" => efl[x]
    BY <1>0, <1>1, <1>5, Zenon DEF CpuInv, OnInv
  <2> QED
    BY <1>3, <1>5, <1>c, <1>d, <2>1, Zenon DEF StackInv
<1>8. MutualExclusion' /\ CurInv'
  BY <1>0, <1>1, <1>3, <1>4, CurKept, Zenon DEF MutualExclusion
<1> QED
  BY <1>2, <1>3, <1>4, <1>6, <1>7, <1>8, OneCpu, Zenon

(* The iret that ends a handler. *)
LEMMA IretStep ==
  ASSUME IInv, NEW c \in CPU, NEW x \in Ctx, x = cur[c], Iret(c)
  PROVE  IInv'
<1>0. TypeOK /\ MutualExclusion /\ CpuInv(c) /\ (x \in Proc => StackInv(x))
  BY Zenon DEF IInv
<1>1. /\ InHandler(x) /\ pc[x] = "run" /\ held[c] = {}
      /\ arg' = [arg EXCEPT ![x] = saved[x].arg]
      /\ efl' = [efl EXCEPT ![x] = saved[x].efl]
      /\ pc' = [pc EXCEPT ![x] = saved[x].pc]
      /\ saved' = [saved EXCEPT ![x] = NoFrame]
      /\ iflag' = [iflag EXCEPT ![c] = TRUE]
      /\ UNCHANGED <<locked, owner, ncli, intena, cur, held, sav, fresh>>
  BY Zenon DEF Iret, Goto
<1>b. saved[x].pc \in {"run", "cli"} /\ saved[x].arg \in Lock /\ saved[x].efl \in BOOLEAN
  <2>1. saved[x] \in Frame
    BY <1>0, <1>1, Zenon DEF TypeOK, InHandler
  <2> QED
    BY <2>1, Zenon DEF Frame
<1>2. TypeOK'
  BY <1>0, <1>1, <1>b, Zenon DEF TypeOK, Locations
<1>3. /\ pc'[x] = saved[x].pc /\ efl'[x] = saved[x].efl /\ iflag'[c] = TRUE /\ saved'[x] = NoFrame
      /\ cur'[c] = x /\ ncli[c] \in Nat
  BY <1>0, <1>1, Zenon DEF TypeOK
<1>4. OthersKept(c)
  BY <1>0, <1>1, Zenon DEF TypeOK, OthersKept
<1>5. ncli[c] = 0 /\ ~(ncli[c] > 0)
  <2>1. ncli[c] = 0
    BY <1>1, NcliZero, Zenon DEF Pushed
  <2> QED
    BY <2>1
<1>9. pc'[x] \in {"run", "cli"} /\ ~InHandler(x)'
  BY <1>3, <1>b, Zenon DEF InHandler
<1>c. UNCHANGED <<owner, ncli, intena, held, sav, fresh>>
  BY <1>1, Zenon
<1>6. CpuInv(c)'
  <2>1. CountInv(c)'
    BY <1>0, <1>1, <1>3, <1>9, CountKept, Zenon DEF CpuInv, Pushed
  <2>2. ArgInv(c)' /\ OwnerInv(c)'
    <3>1. OwnerInv(c)'
      BY <1>0, <1>1, <1>3, <1>9, <1>c, OwnerKept, Zenon DEF CpuInv
    <3>2. ArgInv(c)'
      BY <1>1, <1>3, <1>9, <1>c, Zenon DEF ArgInv
    <3> QED
      BY <3>1, <3>2, Zenon
  <2>3. OffInv(c)' /\ OnInv(c)'
    <3>1. x \in Proc /\ ~fresh[x] /\ saved[x].pc = "cli" => saved[x].efl
      BY <1>0, <1>1, Zenon DEF StackInv
    <3> QED
      BY <1>3, <1>5, <1>9, <1>c, <3>1, Zenon DEF OffInv, OnInv
  <2> QED
    BY <2>1, <2>2, <2>3, Zenon DEF CpuInv
<1>7. x \in Proc => StackInv(x)'
  BY <1>9, Zenon DEF StackInv
<1>8. MutualExclusion' /\ CurInv'
  BY <1>0, <1>1, <1>3, <1>4, <1>9, CurKept, Zenon DEF MutualExclusion
<1> QED
  BY <1>2, <1>3, <1>4, <1>6, <1>7, <1>8, <1>9, OneCpu, Zenon

-----------------------------------------------------------------------------
(* scheduler's swtch to a process that slept, yielded or is new. *)
LEMMA SwitchToStep ==
  ASSUME IInv, NEW c \in CPU, NEW p \in Proc, NEW x \in Ctx, x = cur[c], SwitchTo(c, p)
  PROVE  IInv'
<1>0. TypeOK /\ CurInv /\ MutualExclusion /\ CpuInv(c) /\ StackInv(p)
  BY Zenon DEF IInv
<1>1. /\ x = c /\ pc[c] = "run" /\ ~InHandler(c) /\ held[c] = {PT}
      /\ pc[p] \in {"swtch", "forkret"}
      /\ cur' = [cur EXCEPT ![c] = p]
      /\ intena' = IF pc[p] = "swtch" THEN [intena EXCEPT ![c] = sav[p]] ELSE intena
      /\ sav' = [sav EXCEPT ![p] = FALSE]
      /\ pc' = [pc EXCEPT ![p] = "run"]
      /\ UNCHANGED <<locked, owner, ncli, iflag, held, arg, efl, saved, fresh>>
  BY Zenon DEF SwitchTo, Goto
<1>2. p \in Ctx /\ c \in Ctx /\ p # c
  BY LockAssumption DEF Ctx
<1>3. /\ cur'[c] = p /\ pc'[p] = "run" /\ pc'[c] = "run"
      /\ pc[p] = "swtch" => intena'[c] = sav[p]
      /\ \A d \in CPU : d # c => cur'[d] = cur[d]
      /\ \A z \in Ctx : z # p => pc'[z] = pc[z]
  BY <1>0, <1>1, <1>2, Zenon DEF TypeOK
<1>4. TypeOK'
  <2>1. intena' \in [CPU -> BOOLEAN]
    BY <1>0, <1>1, <1>2, Zenon DEF TypeOK
  <2> QED
    BY <1>0, <1>1, <1>2, <2>1, Zenon DEF TypeOK, Locations
<1>5. OthersKept(c)
  BY <1>0, <1>1, <1>2, <1>3, Zenon DEF TypeOK, OthersKept
<1>6. ncli[c] = 1 /\ ~iflag[c]
  BY <1>1, NcliOne, Zenon DEF Pushed
<1>7. CurInv'
  <2>1. \A d \in CPU : cur'[d] = d \/ cur'[d] \in Proc
    BY <1>0, <1>3, Zenon DEF CurInv
  <2>2. \A d \in CPU : cur[d] # p
    BY <1>0, <1>1 DEF CurInv
  <2>3. \A d, e \in CPU : cur'[d] = cur'[e] => d = e
    BY <1>0, <1>3, <2>2 DEF CurInv
  <2>4. \A q \in Proc : pc'[q] \in {"swtch", "forkret"} <=> \A d \in CPU : cur'[d] # q
    <3> SUFFICES ASSUME NEW q \in Proc
                 PROVE  pc'[q] \in {"swtch", "forkret"} <=> \A d \in CPU : cur'[d] # q
      OBVIOUS
    <3>1. q \in Ctx /\ q # c /\ (pc[q] \in {"swtch", "forkret"} <=> \A d \in CPU : cur[d] # q)
      BY <1>0, LockAssumption DEF CurInv, Ctx
    <3>2. CASE q = p
      BY <1>3, <3>2
    <3>3. CASE q # p
      <4>1. \A d \in CPU : cur'[d] = q <=> cur[d] = q
        BY <1>1, <1>3, <3>1, <3>3, Zenon
      <4> QED
        BY <1>3, <3>1, <3>3, <4>1, Zenon
    <3> QED
      BY <3>2, <3>3, Zenon
  <2>5. /\ \A d \in CPU : pc'[d] \notin {"swtch", "forkret"}
        /\ \A d \in CPU : cur'[d] # d => pc'[d] = "run" /\ ~InHandler(d)'
    BY <1>0, <1>1, <1>3, LockAssumption DEF CurInv, Ctx, InHandler
  <2>6. \A q \in Proc : pc'[q] = "forkret" => fresh'[q] /\ ~InHandler(q)'
    BY <1>0, <1>1, <1>3 DEF CurInv, Ctx, InHandler
  <2> QED
    BY <2>1, <2>3, <2>4, <2>5, <2>6, Zenon DEF CurInv
<1>8. CpuInv(c)'
  <2>1. CountInv(c)'
    BY <1>0, <1>1, <1>3, CountKept, Zenon DEF CpuInv, Pushed
  <2>2. ArgInv(c)' /\ OwnerInv(c)'
    <3>1. OwnerInv(c)'
      BY <1>0, <1>1, <1>3, OwnerKept, Zenon DEF CpuInv
    <3> QED
      BY <1>3, <3>1, Zenon DEF ArgInv
  <2>3. InHandler(p)' => ~intena'[c]
    BY <1>0, <1>1, <1>3, Zenon DEF StackInv, CurInv, InHandler
  <2>4. ~InHandler(p)' /\ ~fresh'[p] => intena'[c]
    BY <1>0, <1>1, <1>3, Zenon DEF StackInv, CurInv, InHandler
  <2>5. OffInv(c)' /\ OnInv(c)'
    BY <1>1, <1>3, <1>6, <2>3, <2>4 DEF OffInv, OnInv
  <2> QED
    BY <2>1, <2>2, <2>5, Zenon DEF CpuInv
<1>9. StackInv(p)' /\ x \notin Proc
  BY <1>0, <1>1, <1>3, LockAssumption DEF StackInv, InHandler
<1>10. MutualExclusion'
  BY <1>0, <1>1, Zenon DEF MutualExclusion
<1> QED
  BY <1>1, <1>2, <1>3, <1>4, <1>5, <1>7, <1>8, <1>9, <1>10, OneCpu, Zenon

(* A process that gives up the CPU for good or for a while: what holds of  *)
(* the scheduler resumed on CPU c.                                         *)
LEMMA BackToScheduler ==
  ASSUME IInv, NEW c \in CPU, NEW x \in Proc, x = cur[c],
         pc[x] = "run", held[c] = {PT}, cur' = [cur EXCEPT ![c] = c],
         UNCHANGED <<locked, owner, ncli, intena, iflag, held, arg, efl>>,
         pc'[x] \in {"swtch", "forkret"},
         pc'[x] = "forkret" => fresh'[x] /\ ~InHandler(x)',
         \A z \in Ctx : z # x => pc'[z] = pc[z] /\ saved'[z] = saved[z] /\ fresh'[z] = fresh[z]
  PROVE  /\ cur'[c] = c /\ pc'[c] = "run"
         /\ CurInv' /\ MutualExclusion' /\ CpuInv(c)'
<1>0. TypeOK /\ CurInv /\ MutualExclusion /\ CpuInv(c)
  BY Zenon DEF IInv
<1>1. x # c /\ c \in Ctx /\ x \in Ctx
  BY LockAssumption DEF Ctx
<1>2. pc[c] = "run" /\ ~InHandler(c)
  BY <1>0, <1>1, Zenon DEF CurInv
<1>3. /\ cur'[c] = c /\ \A d \in CPU : d # c => cur'[d] = cur[d]
  BY <1>0, Zenon DEF TypeOK
<1>4. pc'[c] = "run" /\ saved'[c] = saved[c]
  BY <1>1, <1>2, Zenon
<1>5. ncli[c] = 1 /\ ~iflag[c]
  BY NcliOne, Zenon DEF Pushed
<1>6. CurInv'
  <2>1. \A d \in CPU : cur'[d] = d \/ cur'[d] \in Proc
    BY <1>0, <1>3 DEF CurInv
  <2>2. \A d, e \in CPU : cur'[d] = cur'[e] => d = e
    <3>1. \A d \in CPU : d # c => cur[d] # c
      BY <1>0, LockAssumption DEF CurInv
    <3>2. \A d, e \in CPU : cur[d] = cur[e] => d = e
      BY <1>0, Zenon DEF CurInv
    <3> QED
      BY <1>3, <3>1, <3>2
  <2>3. \A q \in Proc : pc'[q] \in {"swtch", "forkret"} <=> \A d \in CPU : cur'[d] # q
    <3> SUFFICES ASSUME NEW q \in Proc
                 PROVE  pc'[q] \in {"swtch", "forkret"} <=> \A d \in CPU : cur'[d] # q
      OBVIOUS
    <3>1. q \in Ctx /\ q # c /\ (pc[q] \in {"swtch", "forkret"} <=> \A d \in CPU : cur[d] # q)
      BY <1>0, LockAssumption DEF CurInv, Ctx
    <3>2. CASE q = x
      <4>1. \A d \in CPU : d # c => cur[d] # x
        BY <1>0, Zenon DEF CurInv
      <4> QED
        BY <1>1, <1>3, <3>2, <4>1
    <3>3. CASE q # x
      BY <1>3, <3>1, <3>3
    <3> QED
      BY <3>2, <3>3
  <2>4. \A d \in CPU : d # x /\ d \in Ctx
    BY LockAssumption DEF Ctx
  <2>5. \A d \in CPU : pc'[d] \notin {"swtch", "forkret"}
    BY <1>0, <2>4 DEF CurInv
  <2>6. \A d \in CPU : cur'[d] # d => pc'[d] = "run" /\ ~InHandler(d)'
    <3>1. \A d \in CPU : cur'[d] # d => cur[d] # d
      BY <1>3, Zenon
    <3>2. \A d \in CPU : pc'[d] = pc[d] /\ saved'[d] = saved[d]
      BY <2>4, Zenon
    <3>3. \A d \in CPU : cur[d] # d => pc[d] = "run" /\ saved[d] = NoFrame
      BY <1>0, Zenon DEF CurInv, InHandler
    <3> QED
      BY <3>1, <3>2, <3>3, ZenonT(40) DEF InHandler
  <2>7. \A q \in Proc : pc'[q] = "forkret" => fresh'[q] /\ ~InHandler(q)'
    <3>1. \A q \in Proc : q \in Ctx
      BY Zenon DEF Ctx
    <3> QED
      BY <1>0, <3>1 DEF CurInv, InHandler
  <2> QED
    BY <2>1, <2>2, <2>3, <2>5, <2>6, <2>7, Zenon DEF CurInv
<1>7. CpuInv(c)'
  <2>1. CountInv(c)'
    BY <1>0, <1>3, <1>4, CountKept, Zenon DEF CpuInv, Pushed
  <2>2. ArgInv(c)' /\ OwnerInv(c)'
    <3>1. OwnerInv(c)'
      BY <1>0, <1>3, <1>4, OwnerKept, Zenon DEF CpuInv
    <3> QED
      BY <1>3, <1>4, <3>1, Zenon DEF ArgInv
  <2>3. OffInv(c)' /\ OnInv(c)'
    BY <1>2, <1>3, <1>4, <1>5, LockAssumption DEF OffInv, OnInv, InHandler
  <2> QED
    BY <2>1, <2>2, <2>3, Zenon DEF CpuInv
<1> QED
  BY <1>0, <1>3, <1>4, <1>6, <1>7, Zenon DEF MutualExclusion

(* enter_scheduler, whose checks pass, of a process that sleeps or yields. *)
LEMMA EnterSchedulerStep ==
  ASSUME IInv, NEW c \in CPU, NEW x \in Ctx, x = cur[c], EnterScheduler(c)
  PROVE  IInv'
<1>0. x \in Proc /\ pc[x] = "run" /\ held[c] = {PT}
  BY Zenon DEF EnterScheduler
<1>1. TypeOK /\ CpuInv(c) /\ StackInv(x)
  BY <1>0, Zenon DEF IInv
<1>2. ncli[c] = 1 /\ ~iflag[c] /\ ncli[c] > 0
  BY <1>0, NcliOne DEF Pushed
<1>3. /\ sav' = [sav EXCEPT ![x] = intena[c]]
      /\ cur' = [cur EXCEPT ![c] = c]
      /\ pc' = [pc EXCEPT ![x] = "swtch"]
      /\ UNCHANGED <<locked, owner, ncli, intena, iflag, held, arg, efl, saved, fresh>>
  BY <1>2, Zenon DEF EnterScheduler, EnterSchedulerOK, Goto, cpuVars
<1>4. TypeOK'
  BY <1>1, <1>3, Zenon DEF TypeOK, Locations, Ctx
<1>5. /\ pc'[x] = "swtch" /\ sav'[x] = intena[c]
      /\ \A z \in Ctx : z # x => pc'[z] = pc[z] /\ saved'[z] = saved[z] /\ fresh'[z] = fresh[z]
  BY <1>1, <1>3, Zenon DEF TypeOK
<1>6. /\ cur'[c] = c /\ pc'[c] = "run"
      /\ CurInv' /\ MutualExclusion' /\ CpuInv(c)'
  BY <1>0, <1>3, <1>5, BackToScheduler, Zenon
<1>7. OthersKept(c)
  BY <1>1, <1>3, Zenon DEF TypeOK, OthersKept
<1>8. StackInv(x)'
  <2>1. /\ InHandler(x) => ~intena[c]
        /\ ~InHandler(x) /\ ~fresh[x] => intena[c]
    BY <1>0, <1>1, <1>2, Zenon DEF CpuInv, OffInv, OnInv
  <2> QED
    BY <1>1, <1>3, <1>5, <2>1, Zenon DEF StackInv, InHandler
<1>9. c \in Ctx /\ c \notin Proc
  BY LockAssumption, Zenon DEF Ctx
<1> QED
  BY <1>4, <1>5, <1>6, <1>7, <1>8, <1>9, OneCpu, Zenon

(* exit's, after which the slot is a new process's. *)
LEMMA ExitStep ==
  ASSUME IInv, NEW c \in CPU, NEW x \in Ctx, x = cur[c], Exit(c)
  PROVE  IInv'
<1>0. x \in Proc /\ pc[x] = "run" /\ held[c] = {PT}
  BY Zenon DEF Exit
<1>1. TypeOK
  BY Zenon DEF IInv
<1>2. ncli[c] = 1 /\ ~iflag[c]
  BY <1>0, NcliOne, Zenon DEF Pushed
<1>3. /\ cur' = [cur EXCEPT ![c] = c]
      /\ saved' = [saved EXCEPT ![x] = NoFrame]
      /\ fresh' = [fresh EXCEPT ![x] = TRUE]
      /\ pc' = [pc EXCEPT ![x] = "forkret"]
      /\ UNCHANGED <<locked, owner, ncli, intena, iflag, held, arg, efl, sav>>
  BY <1>2, Zenon DEF Exit, EnterSchedulerOK, Goto, cpuVars
<1>4. TypeOK'
  BY <1>1, <1>3, Zenon DEF TypeOK, Locations, Ctx
<1>5. /\ pc'[x] = "forkret" /\ fresh'[x] = TRUE /\ saved'[x] = NoFrame
      /\ \A z \in Ctx : z # x => pc'[z] = pc[z] /\ saved'[z] = saved[z] /\ fresh'[z] = fresh[z]
  BY <1>1, <1>3, Zenon DEF TypeOK
<1>6. /\ cur'[c] = c /\ pc'[c] = "run"
      /\ CurInv' /\ MutualExclusion' /\ CpuInv(c)'
  BY <1>0, <1>3, <1>5, BackToScheduler, ZenonT(40) DEF InHandler
<1>7. OthersKept(c)
  BY <1>1, <1>3, Zenon DEF TypeOK, OthersKept
<1>8. StackInv(x)'
  BY <1>5, Zenon DEF StackInv, InHandler
<1>9. c \in Ctx /\ c \notin Proc
  BY LockAssumption, Zenon DEF Ctx
<1> QED
  BY <1>4, <1>5, <1>6, <1>7, <1>8, <1>9, OneCpu, Zenon

-----------------------------------------------------------------------------
LEMMA NextIInv == IInv /\ [Next]_vars => IInv'
<1> SUFFICES ASSUME IInv, [Next]_vars PROVE IInv'
  OBVIOUS
<1>1. CASE UNCHANGED vars
  <2>0. UNCHANGED <<locked, owner, ncli, intena, iflag, cur, held, pc, arg, efl, saved, sav, fresh>>
    BY <1>1, Zenon DEF vars, cpuVars
  <2>1. TypeOK'
    BY <2>0, Zenon DEF IInv, TypeOK
  <2>2. CurInv'
    <3>1. CurInv
      BY Zenon DEF IInv
    <3> QED
      BY <2>0, <3>1 DEF CurInv, InHandler
  <2>7. NoPanic' /\ MutualExclusion'
    BY <2>0, Zenon DEF IInv, NoPanic, MutualExclusion
  <2>3. \A c \in CPU : CountInv(c)' /\ ArgInv(c)'
    BY <2>0, Zenon DEF IInv, CpuInv, CountInv, ArgInv, Pushed
  <2>4. \A c \in CPU : OwnerInv(c)'
    BY <2>0, Zenon DEF IInv, CpuInv, OwnerInv
  <2>5. \A c \in CPU : OffInv(c)' /\ OnInv(c)'
    BY <2>0, Zenon DEF IInv, CpuInv, OffInv, OnInv, InHandler
  <2>6. \A p \in Proc : StackInv(p)'
    BY <2>0, Zenon DEF IInv, StackInv, InHandler
  <2> QED
    BY <2>1, <2>2, <2>3, <2>4, <2>5, <2>6, <2>7, Zenon DEF IInv, CpuInv
<1>2. CASE Next
  <2>1. PICK c \in CPU :
          \/ \E l \in Lock : AcquireStart(c, l) \/ ReleaseStart(c, l)
          \/ \E p \in Proc : SwitchTo(c, p)
          \/ SchedulerLoop(c) \/ PushCli(c) \/ HoldingLoadLocked(c)
          \/ HoldingLoadCpu(c) \/ CompareExchange(c) \/ SetCpu(c)
          \/ ClearCpu(c) \/ Unlock(c) \/ PopCli(c)
          \/ EnterScheduler(c) \/ Exit(c) \/ Trapret(c)
          \/ Interrupt(c) \/ Iret(c)
    BY <1>2, Zenon DEF Next
  <2>2. cur[c] \in Ctx
    BY Zenon DEF IInv, TypeOK
  <2>3. PICK x \in Ctx : x = cur[c]
    BY <2>2, Zenon
  <2> QED
    BY <2>1, <2>3, AcquireStartStep, ReleaseStartStep, SwitchToStep, SchedulerLoopStep,
       PushCliStep, HoldingLoadLockedStep, HoldingLoadCpuStep, CompareExchangeStep,
       SetCpuStep, ClearCpuStep, UnlockStep, PopCliStep, EnterSchedulerStep,
       ExitStep, TrapretStep, InterruptStep, IretStep, Zenon
<1> QED
  BY <1>1, <1>2

LEMMA SpecIInv == Spec => []IInv
BY InitIInv, NextIInv, PTL DEF Spec

(* SpinLockC excludes: no two CPUs hold the same lock, and locked says    *)
(* whether one does, for any number of CPUs, processes and locks.         *)
THEOREM SpinLockExcludes == Spec => []MutualExclusion
<1>1. IInv => MutualExclusion
  BY Zenon DEF IInv
<1> QED
  BY <1>1, SpecIInv, PTL

(* No assertion or panic of acquire, release, pop_cli or enter_scheduler  *)
(* fires under the lock order; interrupts are off while a lock is held    *)
(* and throughout a handler; and enter_scheduler's save and restore of    *)
(* intena gives a process its own interrupt state back on whichever CPU   *)
(* it resumes.                                                            *)
THEOREM LocksKeepInterrupts == Spec => []InterruptsExact
<1>1. IInv => NoPanic
  BY Zenon DEF IInv
<1>2. IInv => InterruptsOff
  BY NcliPositive, Zenon DEF IInv, CpuInv, OffInv, InterruptsOff
<1>3. IInv => InterruptsRestored
  BY NcliZero, Zenon DEF IInv, CpuInv, OnInv, InterruptsRestored, Pushed
<1>4. IInv => InterruptsExact
  BY <1>1, <1>2, <1>3, Zenon DEF InterruptsExact
<1> QED
  BY <1>4, SpecIInv, PTL

(* The state of locks, CPUs and contexts stays well typed. *)
THEOREM SpinLockTyped == Spec => []TypeOK
<1>1. IInv => TypeOK
  BY Zenon DEF IInv
<1> QED
  BY <1>1, SpecIInv, PTL
=============================================================================
