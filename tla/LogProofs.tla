----------------------------- MODULE LogProofs -------------------------------
(***************************************************************************)
(* The write-ahead log, for any number of processes and blocks, any size   *)
(* of the log, and any number of crashes, also during recovery.            *)
(***************************************************************************)
EXTENDS Log, FiniteSetTheorems, TLAPS

(* The calls that log.outstanding counts: one that has panicked never ends. *)
Counted == {p \in Proc : pc[p] \in {"op", "log_write", "panic"}}

(* Who is where: a commit excludes calls in progress and other commits,    *)
(* and recovery excludes everybody.                                        *)
CallInv ==
  /\ outstanding = Cardinality(Counted)
  /\ committing <=> \E p \in Proc : pc[p] \in InCommit
  /\ \A p \in Proc : pc[p] \in InCommit =>
       Counted = {} /\ \A q \in Proc \ {p} : pc[q] \notin InCommit
  /\ \A p \in Proc : pc[p] = "log_write" => arg[p] \in Block
  /\ mode # "run" => \A p \in Proc : pc[p] = "idle"

(* The blocks that calls in progress may still add to the log header. *)
Reserved == {x \in InOp \X (1..MAXOPBLOCKS) : x[2] > Cardinality(written[x[1]])}

(* The header has room for what begin_op has reserved: a call adds a block *)
(* at most once, since the blocks it has written stay in the header.       *)
RoomInv ==
  /\ \A p \in Proc : IsFiniteSet(written[p])
  /\ \A p \in InOp : \A b \in written[p] : b \in Range(lh)
  /\ \A p \in Proc : pc[p] = "log_write" => Cardinality(written[p] \cup {arg[p]}) <= OpBlocks
  /\ mode = "run" => Len(lh) + Cardinality(Reserved) <= LOGSIZE

(* The first n log blocks hold, or have been copied to, their homes. *)
Logged(n) == \A i \in 1..n : logblk[i] = cache[lh[i]]
Homed(n) == \A i \in 1..n : disk[lh[i]] = logblk[i]
OthersClean == \A b \in Block : b \notin Range(lh) => cache[b] = disk[b]
Distinct(s) == \A i, j \in 1..Len(s) : s[i] = s[j] => i = j

(* How far memory, log and home blocks agree at each step of a commit ... *)
CommitInv(p) ==
  /\ pc[p] = "write_log" =>
       dhead = <<>> /\ tail < Len(lh) /\ Logged(tail) /\ OthersClean
  /\ pc[p] = "commit" =>
       dhead = <<>> /\ tail = 0 /\ lh # <<>> /\ Logged(Len(lh)) /\ OthersClean
  /\ pc[p] = "install" =>
       dhead = lh /\ tail < Len(lh) /\ Logged(Len(lh)) /\ Homed(tail) /\ OthersClean
  /\ pc[p] = "erase" =>
       dhead = lh /\ tail = 0 /\ Logged(Len(lh)) /\ disk = cache
  /\ pc[p] = "committed" =>
       dhead = <<>> /\ lh = <<>> /\ tail = 0 /\ disk = cache

(* ... between commits ... *)
IdleInv ==
  /\ dhead = <<>> /\ tail = 0
  /\ outstanding = 0 => lh = <<>>
  /\ \A b \in Block :
       b \notin Range(lh) /\ (\A p \in Proc : pc[p] \in {"log_write", "panic"} => arg[p] # b) =>
         cache[b] = disk[b]

(* ... and of a recovery. *)
RecoverInv ==
  /\ cache = disk
  /\ mode = "read_head" => lh = <<>> /\ tail = 0
  /\ mode = "install" => lh = dhead /\ tail < Len(lh) /\ Homed(tail)
  /\ mode = "erase" => lh = dhead /\ tail = 0 /\ Homed(Len(lh))

DataInv ==
  /\ Distinct(lh) /\ Distinct(dhead)
  /\ mode = "run" /\ ~committing => IdleInv
  /\ mode = "run" => \A p \in Proc : CommitInv(p)
  /\ mode # "run" => RecoverInv

LogInv == TypeOK /\ CallInv /\ RoomInv /\ DataInv

-----------------------------------------------------------------------------
LEMMA CountedFinite ==
  /\ IsFiniteSet(Counted) /\ Cardinality(Counted) \in Nat /\ Cardinality(Counted) <= Cardinality(Proc)
  /\ IsFiniteSet(Counted') /\ Cardinality(Counted') \in Nat /\ Cardinality(Counted') <= Cardinality(Proc)
  /\ Cardinality(Proc) \in Nat
<1>1. IsFiniteSet(Proc) /\ Counted \in SUBSET Proc /\ Counted' \in SUBSET Proc
  BY LogAssumption DEF Counted
<1>2. IsFiniteSet(Counted) /\ Cardinality(Counted) <= Cardinality(Proc)
  BY <1>1, FS_Subset
<1>3. IsFiniteSet(Counted') /\ Cardinality(Counted') <= Cardinality(Proc)
  BY <1>1, FS_Subset
<1> QED BY <1>1, <1>2, <1>3, FS_CardinalityType, Zenon

(* What is reserved is at most MAXOPBLOCKS for each of the calls ops. *)
LEMMA ReservedBound ==
  ASSUME NEW ops \in SUBSET Proc, NEW R \in SUBSET (ops \X (1..MAXOPBLOCKS))
  PROVE  IsFiniteSet(R) /\ Cardinality(R) \in Nat /\ Cardinality(R) <= Cardinality(ops) * MAXOPBLOCKS
<1>1. IsFiniteSet(ops)
  BY LogAssumption, FS_Subset
<1>2. IsFiniteSet(1..MAXOPBLOCKS) /\ Cardinality(1..MAXOPBLOCKS) = MAXOPBLOCKS
  <2>1. 1 \in Int /\ MAXOPBLOCKS \in Int /\ MAXOPBLOCKS >= 1
    BY LogAssumption
  <2>2. /\ IsFiniteSet(1..MAXOPBLOCKS)
        /\ Cardinality(1..MAXOPBLOCKS) = IF 1 > MAXOPBLOCKS THEN 0 ELSE MAXOPBLOCKS - 1 + 1
    BY <2>1, FS_Interval
  <2> QED BY <2>1, <2>2
<1>3. /\ IsFiniteSet(ops \X (1..MAXOPBLOCKS))
      /\ Cardinality(ops \X (1..MAXOPBLOCKS)) = Cardinality(ops) * MAXOPBLOCKS
  BY <1>1, <1>2, FS_Product, Zenon
<1>4. IsFiniteSet(R) /\ Cardinality(R) <= Cardinality(ops \X (1..MAXOPBLOCKS))
  BY <1>3, FS_Subset
<1> QED BY <1>3, <1>4, FS_CardinalityType

LEMMA ReservedFinite == IsFiniteSet(Reserved) /\ Cardinality(Reserved) \in Nat
<1>1. InOp \in SUBSET Proc /\ Reserved \in SUBSET (InOp \X (1..MAXOPBLOCKS))
  BY DEF InOp, Reserved
<1> QED BY <1>1, ReservedBound, Zenon

(* Fewer reservations take no more room. *)
LEMMA ReservedShrinks ==
  ASSUME Reserved' \subseteq Reserved
  PROVE  Cardinality(Reserved') \in Nat /\ Cardinality(Reserved') <= Cardinality(Reserved)
<1>1. IsFiniteSet(Reserved) /\ Reserved' \in SUBSET Reserved
  BY ReservedFinite
<1>2. IsFiniteSet(Reserved') /\ Cardinality(Reserved') <= Cardinality(Reserved)
  BY <1>1, FS_Subset
<1> QED BY <1>2, FS_CardinalityType

LEMMA LogInitInv == Init => LogInv
<1> SUFFICES ASSUME Init PROVE LogInv
  OBVIOUS
<1> USE LogAssumption DEF Init
<1>1. Counted = {} /\ InOp = {} /\ Reserved = {}
  BY DEF Counted, InOp, Reserved
<1>2. Cardinality({}) = 0 /\ IsFiniteSet({})
  BY FS_EmptySet
<1>3. \A p \in Proc : pc[p] = "idle"
  OBVIOUS
<1>4. TypeOK
  <2>1. Cardinality(Proc) \in Nat
    BY FS_CardinalityType
  <2>2. disk \in [Block -> Val] /\ cache \in [Block -> Val] /\ logblk \in [Slots -> Val]
    OBVIOUS
  <2>3. dhead \in Seq(Block) /\ lh \in Seq(Block) /\ Len(dhead) = 0 /\ Len(lh) = 0
    OBVIOUS
  <2>4. arg \in [Proc -> Block \cup {None}] /\ written \in [Proc -> SUBSET Block]
    OBVIOUS
  <2>5. outstanding \in 0..Cardinality(Proc) /\ tail \in 0..LOGSIZE
    BY <2>1
  <2>6. pc \in [Proc -> {"idle", "begin", "asleep", "op", "log_write", "write_log", "commit",
                         "install", "erase", "committed", "panic"}]
    OBVIOUS
  <2>7. Len(dhead) <= LOGSIZE /\ Len(lh) <= LOGSIZE
    BY <2>3
  <2>8. committing \in BOOLEAN /\ mode \in {"run", "read_head", "install", "erase"}
    BY Zenon
  <2> HIDE DEF Init
  <2> QED BY <2>2, <2>3, <2>4, <2>5, <2>6, <2>7, <2>8 DEF TypeOK
<1>5. CallInv
  BY <1>1, <1>2, <1>3 DEF CallInv, InCommit
<1>6. RoomInv
  <2>1. Len(lh) = 0
    OBVIOUS
  <2> QED BY <1>1, <1>2, <2>1 DEF RoomInv
<1>7. DataInv
  BY <1>3 DEF DataInv, Distinct, IdleInv, CommitInv
<1> QED BY <1>4, <1>5, <1>6, <1>7 DEF LogInv

-----------------------------------------------------------------------------
Locations == {"idle", "begin", "asleep", "op", "log_write", "write_log", "commit",
              "install", "erase", "committed", "panic"}
Outside == {"idle", "begin", "asleep"}

(* Calls outside a transaction come, sleep and wake up. *)
LEMMA OutsideInv ==
  ASSUME LogInv, mode = "run", pc' \in [Proc -> Locations],
         \A q \in Proc : pc'[q] = pc[q] \/ (pc[q] \in Outside /\ pc'[q] \in Outside),
         UNCHANGED <<diskVars, cache, lh, outstanding, committing, tail, arg, written, mode>>
  PROVE  LogInv'
<1> USE DEF LogInv
<1>1. Counted' = Counted /\ InOp' = InOp
  BY DEF Counted, InOp, Outside
<1>2. \A q \in Proc : pc'[q] \in InCommit <=> pc[q] \in InCommit
  BY DEF InCommit, Outside
<1>3. TypeOK'
  BY DEF TypeOK, diskVars, Locations
<1>4. CallInv'
  <2>1. \A q \in Proc : pc'[q] = "log_write" => pc[q] = "log_write"
    BY DEF Outside
  <2> QED BY <1>1, <1>2, <2>1 DEF CallInv
<1>5. RoomInv'
  <2>1. Reserved' = Reserved
    BY <1>1 DEF Reserved
  <2>2. \A q \in Proc : pc'[q] = "log_write" => pc[q] = "log_write"
    BY DEF Outside
  <2> QED BY <1>1, <2>1, <2>2 DEF RoomInv
<1>6. DataInv'
  <2>1. \A q \in Proc : CommitInv(q)'
    BY DEF DataInv, CommitInv, Outside, Logged, Homed, OthersClean, diskVars
  <2>2. IdleInv => IdleInv'
    BY DEF IdleInv, Outside, diskVars
  <2> QED BY <2>1, <2>2 DEF DataInv, Distinct, diskVars
<1> QED BY <1>3, <1>4, <1>5, <1>6

LEMMA CallInvStep == ASSUME LogInv, NEW p \in Proc, Call(p) PROVE LogInv'
<1>1. pc' \in [Proc -> Locations]
  BY DEF Call, Goto, LogInv, TypeOK, Locations
<1>2. \A q \in Proc : pc'[q] = pc[q] \/ (pc[q] \in Outside /\ pc'[q] \in Outside)
  BY DEF Call, Goto, LogInv, TypeOK, Outside
<1> QED BY <1>1, <1>2, OutsideInv DEF Call

LEMMA Running ==
  ASSUME LogInv, NEW p \in Proc, pc[p] # "idle"
  PROVE  mode = "run" /\ (pc[p] \notin InCommit => (pc[p] \in {"op", "log_write", "panic"} => ~committing))
BY DEF LogInv, CallInv, Counted

LEMMA BeginInv == ASSUME LogInv, NEW p \in Proc, begin_op(p) PROVE LogInv'
<1>1. pc[p] = "begin" /\ mode = "run"
  BY Running DEF begin_op
<1>2. CASE MustWait
  <2>1. pc' \in [Proc -> Locations]
    BY <1>2 DEF begin_op, Goto, LogInv, TypeOK, Locations
  <2>2. \A q \in Proc : pc'[q] = pc[q] \/ (pc[q] \in Outside /\ pc'[q] \in Outside)
    BY <1>2 DEF begin_op, Goto, LogInv, TypeOK, Outside
  <2> QED BY <1>1, <1>2, <2>1, <2>2, OutsideInv DEF begin_op
<1>3. CASE ~MustWait
  <2> USE DEF LogInv
  <2>1. /\ pc' = [pc EXCEPT ![p] = "op"] /\ outstanding' = outstanding + 1
        /\ written' = [written EXCEPT ![p] = {}]
        /\ UNCHANGED <<diskVars, cache, lh, committing, tail, arg, mode>>
        /\ ~committing /\ ~(Len(lh) + (outstanding + 1) * MAXOPBLOCKS > LOGSIZE)
    BY <1>3 DEF begin_op, Goto, MustWait
  <2>2. \A q \in Proc : pc'[q] = IF q = p THEN "op" ELSE pc[q]
    BY <2>1 DEF TypeOK
  <2>3. Counted' = Counted \cup {p} /\ p \notin Counted /\ InOp' \subseteq Counted'
    BY <1>1, <2>2 DEF Counted, InOp
  <2>4. outstanding' = Cardinality(Counted')
    <3>1. Cardinality(Counted \cup {p}) = Cardinality(Counted) + 1
      BY <2>3, CountedFinite, FS_AddElement
    <3> QED BY <2>1, <2>3, <3>1 DEF CallInv
  <2>5. \A q \in Proc : written'[q] = IF q = p THEN {} ELSE written[q]
    BY <2>1 DEF TypeOK
  <2>6. TypeOK'
    <3>1. outstanding' \in 0..Cardinality(Proc)
      BY <2>4, CountedFinite
    <3>2. pc' \in [Proc -> Locations] /\ written' \in [Proc -> SUBSET Block]
      BY <2>1 DEF TypeOK, Locations
    <3> QED BY <2>1, <3>1, <3>2 DEF TypeOK, Locations, diskVars
  <2>7. CallInv'
    BY <1>1, <2>1, <2>2, <2>4 DEF CallInv, InCommit
  <2>8. RoomInv'
    <3>1. Cardinality(Reserved') \in Nat /\ Cardinality(Reserved') <= Cardinality(InOp') * MAXOPBLOCKS
      <4>1. InOp' \in SUBSET Proc /\ Reserved' \in SUBSET (InOp' \X (1..MAXOPBLOCKS))
        BY DEF InOp, Reserved
      <4> QED BY <4>1, ReservedBound
    <3>2. Cardinality(InOp') \in Nat /\ Cardinality(InOp') <= outstanding + 1
      BY <2>1, <2>3, <2>4, CountedFinite, FS_Subset, FS_CardinalityType
    <3>3. Cardinality(InOp') * MAXOPBLOCKS <= (outstanding + 1) * MAXOPBLOCKS
      <4>1. outstanding \in Nat /\ MAXOPBLOCKS \in Nat
        BY LogAssumption, CountedFinite DEF CallInv
      <4> QED BY <3>2, <4>1
    <3>4. Len(lh) \in Nat /\ (outstanding + 1) * MAXOPBLOCKS \in Nat /\ LOGSIZE \in Nat
      BY LogAssumption, CountedFinite DEF CallInv, TypeOK
    <3>5. Len(lh') + Cardinality(Reserved') <= LOGSIZE
      <4>1. Cardinality(InOp') * MAXOPBLOCKS \in Nat
        BY <3>2, LogAssumption
      <4> QED BY <2>1, <3>1, <3>3, <3>4, <4>1
    <3>6. IsFiniteSet({})
      BY FS_EmptySet
    <3>7. \A q \in InOp' : \A b \in written'[q] : b \in Range(lh')
      BY <2>1, <2>2, <2>5 DEF RoomInv, InOp
    <3>8. \A q \in Proc : pc'[q] = "log_write" => Cardinality(written'[q] \cup {arg'[q]}) <= OpBlocks
      <4>1. \A q \in Proc : pc'[q] = "log_write" => pc[q] = "log_write" /\ written'[q] = written[q]
        BY <2>2, <2>5
      <4>2. arg' = arg
        BY <2>1
      <4> QED BY <4>1, <4>2 DEF RoomInv
    <3> QED BY <2>5, <3>5, <3>6, <3>7, <3>8, Zenon DEF RoomInv
  <2>9. DataInv'
    <3>1. \A q \in Proc : CommitInv(q)'
      BY <1>1, <2>1, <2>2 DEF DataInv, CommitInv, Logged, Homed, OthersClean, diskVars
    <3>2. IdleInv'
      BY <1>1, <2>1, <2>2, CountedFinite DEF DataInv, CallInv, IdleInv, diskVars
    <3> QED BY <2>1, <1>1, <3>1, <3>2 DEF DataInv, Distinct, diskVars
  <2> QED BY <2>6, <2>7, <2>8, <2>9
<1> QED BY <1>2, <1>3

(* While a call is in progress nobody commits. *)
LEMMA NoCommit ==
  ASSUME LogInv, NEW p \in Proc, pc[p] \in {"op", "log_write"}
  PROVE  /\ mode = "run" /\ ~committing /\ p \in Counted /\ p \in InOp /\ IdleInv
         /\ \A q \in Proc : pc[q] \notin InCommit
<1>1. mode = "run" /\ p \in Counted /\ p \in InOp
  BY DEF LogInv, CallInv, Counted, InOp
<1>2. \A q \in Proc : pc[q] \notin InCommit
  BY <1>1 DEF LogInv, CallInv
<1>3. ~committing
  BY <1>2 DEF LogInv, CallInv
<1> QED BY <1>1, <1>2, <1>3 DEF LogInv, DataInv

LEMMA ModifyInv ==
  ASSUME LogInv, NEW p \in Proc, NEW b \in Block, NEW v \in Val, Modify(p, b, v)
  PROVE  LogInv'
<1> USE DEF LogInv
<1>1. PICK loc \in {"panic", "log_write"} : pc' = [pc EXCEPT ![p] = loc]
  BY Zenon DEF Modify, Goto
<1>2. /\ pc[p] = "op" /\ Cardinality(written[p] \cup {b}) <= OpBlocks
      /\ cache' = [cache EXCEPT ![b] = v] /\ arg' = [arg EXCEPT ![p] = b]
      /\ UNCHANGED <<diskVars, lh, outstanding, committing, tail, written, mode>>
  BY DEF Modify
<1>3. /\ mode = "run" /\ ~committing /\ IdleInv
      /\ \A q \in Proc : pc[q] \notin InCommit
  BY <1>2, NoCommit
<1>4. \A q \in Proc : pc'[q] = (IF q = p THEN loc ELSE pc[q]) /\ arg'[q] = (IF q = p THEN b ELSE arg[q])
  BY <1>1, <1>2 DEF TypeOK
<1>5. Counted' = Counted /\ InOp' \subseteq InOp
  BY <1>2, <1>4, Zenon DEF Counted, InOp
<1>6. TypeOK'
  <2>1. pc' \in [Proc -> Locations] /\ arg' \in [Proc -> Block \cup {None}] /\ cache' \in [Block -> Val]
    BY <1>1, <1>2 DEF TypeOK, Locations
  <2> QED BY <1>2, <2>1 DEF TypeOK, Locations, diskVars
<1>7. \A q \in Proc : pc'[q] \notin InCommit
  BY <1>3, <1>4 DEF InCommit
<1>8. CallInv'
  BY <1>2, <1>3, <1>4, <1>5, <1>7 DEF CallInv
<1>9. RoomInv'
  <2>1. Reserved' \subseteq Reserved
    BY <1>2, <1>5, Zenon DEF Reserved
  <2>2. Cardinality(Reserved') \in Nat /\ Cardinality(Reserved') <= Cardinality(Reserved)
    BY <2>1, ReservedShrinks
  <2>3. Len(lh) \in Nat /\ Cardinality(Reserved) \in Nat /\ LOGSIZE \in Nat
    BY ReservedFinite, LogAssumption DEF TypeOK
  <2>4. Len(lh') + Cardinality(Reserved') <= LOGSIZE
    BY <1>2, <1>3, <2>2, <2>3 DEF RoomInv
  <2>5. \A q \in Proc : pc'[q] = "log_write" => Cardinality(written'[q] \cup {arg'[q]}) <= OpBlocks
    BY <1>2, <1>4, Zenon DEF RoomInv
  <2> QED BY <1>2, <1>5, <2>4, <2>5, Zenon DEF RoomInv
<1>10. DataInv'
  <2>1. \A q \in Proc : CommitInv(q)'
    BY <1>7 DEF CommitInv, InCommit
  <2>2. IdleInv'
    <3>1. ASSUME NEW c \in Block, c \notin Range(lh),
                 \A q \in Proc : pc'[q] \in {"log_write", "panic"} => arg'[q] # c
          PROVE  cache'[c] = disk[c]
      <4>1. c # b
        BY <1>4, <3>1, Zenon
      <4>2. \A q \in Proc : pc[q] \in {"log_write", "panic"} => arg[q] # c
        BY <1>2, <1>4, <3>1
      <4>3. cache[c] = disk[c]
        BY <1>3, <3>1, <4>2, Zenon DEF IdleInv
      <4> QED BY <1>2, <4>1, <4>3 DEF TypeOK
    <3> QED BY <1>2, <1>3, <3>1, Zenon DEF IdleInv, diskVars
  <2> QED BY <1>2, <1>3, <2>1, <2>2, Zenon DEF DataInv, Distinct, diskVars
<1> QED BY <1>6, <1>8, <1>9, <1>10

LEMMA LogWriteInv == ASSUME LogInv, NEW p \in Proc, log_write(p) PROVE LogInv'
<1> USE DEF LogInv
<1> DEFINE a == arg[p]
<1>1. /\ pc[p] = "log_write" /\ pc' = [pc EXCEPT ![p] = "op"]
      /\ lh' = IF a \in Range(lh) THEN lh ELSE Append(lh, a)
      /\ written' = [written EXCEPT ![p] = @ \cup {a}] /\ arg' = [arg EXCEPT ![p] = None]
      /\ UNCHANGED <<diskVars, cache, outstanding, committing, tail, mode>>
  BY DEF log_write, Goto
<1>2. /\ mode = "run" /\ ~committing /\ IdleInv /\ p \in InOp /\ p \in Counted
      /\ \A q \in Proc : pc[q] \notin InCommit
  BY <1>1, NoCommit
<1>3. a \in Block /\ Cardinality(written[p] \cup {a}) <= OpBlocks /\ IsFiniteSet(written[p])
  BY <1>1, Zenon DEF CallInv, RoomInv
<1> HIDE DEF a
<1>4. \A q \in Proc : /\ pc'[q] = IF q = p THEN "op" ELSE pc[q]
                      /\ written'[q] = IF q = p THEN written[p] \cup {a} ELSE written[q]
                      /\ arg'[q] = IF q = p THEN None ELSE arg[q]
  BY <1>1 DEF TypeOK
<1>5. Counted' = Counted /\ InOp' = InOp
  BY <1>1, <1>4 DEF Counted, InOp
<1>6. /\ lh' \in Seq(Block) /\ Len(lh) \in Nat
      /\ Len(lh') = IF a \in Range(lh) THEN Len(lh) ELSE Len(lh) + 1
      /\ \A i \in 1..Len(lh) : lh'[i] = lh[i]
      /\ a \notin Range(lh) => lh'[Len(lh) + 1] = a
  BY <1>1, <1>3 DEF TypeOK
<1>7. \A c : c \in Range(lh') <=> c \in Range(lh) \/ c = a
  BY <1>6 DEF Range
<1>8. \A q \in Proc : pc'[q] \notin InCommit
  BY <1>2, <1>4 DEF InCommit
<1>9. Len(lh') + Cardinality(Reserved') <= LOGSIZE
  <2>1. /\ Cardinality(written[p] \cup {a}) = IF a \in written[p] THEN Cardinality(written[p])
                                              ELSE Cardinality(written[p]) + 1
        /\ Cardinality(written[p]) \in Nat
    BY <1>3, FS_AddElement, FS_CardinalityType, Zenon
  <2>2. \A q \in Proc : q # p => Cardinality(written'[q]) = Cardinality(written[q])
    BY <1>4
  <2>3. Cardinality(written'[p]) = Cardinality(written[p] \cup {a})
    BY <1>4, Zenon
  <2>4. InOp \subseteq Proc
    BY DEF InOp
  <2>5. Len(lh) + Cardinality(Reserved) <= LOGSIZE
    BY <1>2 DEF RoomInv
  <2>6. ASSUME NEW x \in Reserved'
        PROVE  /\ x \in InOp \X (1..MAXOPBLOCKS) /\ x[1] \in Proc /\ x[2] \in Nat
               /\ x[2] > Cardinality(written[x[1]])
               /\ x[1] = p => x[2] > Cardinality(written[p] \cup {a})
    <3>1. x \in InOp \X (1..MAXOPBLOCKS) /\ x[2] > Cardinality(written'[x[1]])
      BY <1>5, <2>6 DEF Reserved
    <3>2. x[1] \in Proc /\ x[2] \in Nat
      BY <2>4, <3>1
    <3>3. CASE x[1] = p
      BY <2>1, <2>3, <3>1, <3>2, <3>3
    <3>4. CASE x[1] # p
      BY <2>2, <3>1, <3>2, <3>4
    <3> QED BY <3>1, <3>2, <3>3, <3>4, Zenon
  <2>7. Reserved' \subseteq Reserved
    BY <2>6 DEF Reserved
  <2>8. Cardinality(Reserved') \in Nat /\ Cardinality(Reserved') <= Cardinality(Reserved)
    BY <2>7, ReservedShrinks
  <2>9. IsFiniteSet(Reserved) /\ Cardinality(Reserved) \in Nat /\ LOGSIZE \in Nat
    BY ReservedFinite, LogAssumption
  <2>10. CASE a \in Range(lh)
    BY <1>6, <2>5, <2>8, <2>9, <2>10
  <2>11. CASE a \notin Range(lh)
    <3> DEFINE k == Cardinality(written[p]) + 1
               x0 == <<p, k>>
    <3>1. a \notin written[p]
      BY <1>2, <2>11 DEF RoomInv
    <3>2. Cardinality(written[p] \cup {a}) = k /\ k \in 1..MAXOPBLOCKS
      BY <1>3, <2>1, <3>1, LogAssumption
    <3>3. x0 \in Reserved
      BY <1>2, <2>1, <3>2 DEF Reserved
    <3>4. x0 \notin Reserved'
      <4>1. x0[1] = p /\ x0[2] = k
        OBVIOUS
      <4>2. ~(k > k)
        BY <3>2
      <4> HIDE DEF x0, k
      <4> QED BY <2>6, <3>2, <4>1, <4>2
    <3> HIDE DEF x0, k
    <3>5. Reserved' \in SUBSET (Reserved \ {x0})
      BY <2>7, <3>4
    <3>6. IsFiniteSet(Reserved \ {x0}) /\ Cardinality(Reserved \ {x0}) = Cardinality(Reserved) - 1
      BY <2>9, <3>3, FS_RemoveElement, Zenon
    <3>7. Cardinality(Reserved') <= Cardinality(Reserved \ {x0})
      BY <3>5, <3>6, FS_Subset
    <3> QED BY <1>6, <2>5, <2>8, <2>9, <2>11, <3>6, <3>7
  <2> QED BY <2>10, <2>11
<1>10. TypeOK'
  <2>1. pc' \in [Proc -> Locations]
    BY <1>1 DEF TypeOK, Locations
  <2>2. arg' \in [Proc -> Block \cup {None}]
    BY <1>1 DEF TypeOK
  <2>3. written' \in [Proc -> SUBSET Block]
    BY <1>1, <1>3 DEF TypeOK
  <2>4. Len(lh') <= LOGSIZE
    <3>1. Cardinality(Reserved') \in Nat
      <4>1. InOp' \in SUBSET Proc /\ Reserved' \in SUBSET (InOp' \X (1..MAXOPBLOCKS))
        BY DEF InOp, Reserved
      <4> QED BY <4>1, ReservedBound
    <3>2. Len(lh') \in Nat /\ LOGSIZE \in Nat
      BY <1>6, LogAssumption
    <3> QED BY <1>9, <3>1, <3>2
  <2> QED BY <1>1, <1>6, <2>1, <2>2, <2>3, <2>4, Zenon DEF TypeOK, Locations, diskVars
<1>11. CallInv'
  <2>1. \A q \in Proc : pc'[q] = "log_write" => arg'[q] \in Block
    BY <1>4 DEF CallInv
  <2> QED BY <1>1, <1>2, <1>5, <1>8, <2>1, Zenon DEF CallInv
<1>12. RoomInv'
  <2>1. \A q \in Proc : IsFiniteSet(written'[q])
    <3> SUFFICES ASSUME NEW q \in Proc PROVE IsFiniteSet(written'[q])
      BY Zenon
    <3>1. IsFiniteSet(written[q]) /\ IsFiniteSet(written[q] \cup {a})
      BY FS_AddElement, Zenon DEF RoomInv
    <3> QED BY <1>3, <1>4, <3>1
  <2>2. \A q \in InOp' : \A c \in written'[q] : c \in Range(lh')
    BY <1>4, <1>5, <1>7, Zenon DEF RoomInv, InOp
  <2>3. \A q \in Proc : pc'[q] = "log_write" => Cardinality(written'[q] \cup {arg'[q]}) <= OpBlocks
    BY <1>4, Zenon DEF RoomInv
  <2> QED BY <1>9, <2>1, <2>2, <2>3, Zenon DEF RoomInv
<1>13. DataInv'
  <2>1. \A q \in Proc : CommitInv(q)'
    BY <1>8 DEF CommitInv, InCommit
  <2>2. Distinct(lh')
    BY <1>6 DEF DataInv, Distinct, Range
  <2>3. IdleInv'
    <3>1. ASSUME NEW c \in Block, c \notin Range(lh'),
                 \A q \in Proc : pc'[q] \in {"log_write", "panic"} => arg'[q] # c
          PROVE  cache[c] = disk[c]
      <4>1. c \notin Range(lh) /\ c # a
        BY <1>7, <3>1, Zenon
      <4>2. \A q \in Proc : pc[q] \in {"log_write", "panic"} => arg[q] # c
        BY <1>4, <3>1, <4>1, Zenon DEF a
      <4> QED BY <1>2, <4>1, <4>2, Zenon DEF IdleInv
    <3>2. outstanding # 0
      <4>1. Counted # {}
        BY <1>2
      <4> QED BY <4>1, CountedFinite, FS_EmptySet, Zenon DEF CallInv
    <3> QED BY <1>1, <1>2, <3>1, <3>2, Zenon DEF IdleInv, diskVars
  <2> QED BY <1>1, <1>2, <2>1, <2>2, <2>3, Zenon DEF DataInv, Distinct, diskVars
<1> QED BY <1>9, <1>10, <1>11, <1>12, <1>13

-----------------------------------------------------------------------------
(* Nothing is reserved when no call is in progress. *)
LEMMA NoneReserved ==
  ASSUME Counted' = {}
  PROVE  InOp' = {} /\ Reserved' = {} /\ Cardinality(Counted') = 0 /\ Cardinality(Reserved') = 0
<1>1. InOp' = {}
  BY DEF Counted, InOp
<1>2. Reserved' = {}
  BY <1>1 DEF Reserved
<1> QED BY <1>1, <1>2, FS_EmptySet

Header(s) == s \in Seq(Block) /\ Len(s) \in Nat /\ Len(s) <= LOGSIZE /\ Distinct(s)

(* What is left to show of a step after which p, and nobody else, commits. *)
LEMMA CommitStep ==
  ASSUME LogInv, NEW p \in Proc, mode' = "run", committing', Counted' = {},
         NEW loc \in InCommit, pc' = [pc EXCEPT ![p] = loc],
         \A q \in Proc \ {p} : pc[q] \notin InCommit,
         outstanding' = 0, UNCHANGED <<arg, written>>,
         disk' \in [Block -> Val], cache' \in [Block -> Val], logblk' \in [Slots -> Val],
         dhead' \in {dhead, lh, <<>>}, lh' \in {lh, <<>>}, tail' \in 0..LOGSIZE, committing' \in BOOLEAN,
         CommitInv(p)'
  PROVE  LogInv'
<1> USE DEF LogInv
<1>1. \A q \in Proc : pc'[q] = IF q = p THEN loc ELSE pc[q]
  BY DEF TypeOK
<1>2. \A q \in Proc \ {p} : pc'[q] \notin InCommit
  BY <1>1
<1>3. pc'[p] = loc
  BY <1>1
<1>4. Header(lh) /\ Header(dhead) /\ Header(<<>>)
  BY LogAssumption DEF TypeOK, DataInv, Distinct, Header
<1>5. Header(lh') /\ Header(dhead')
  BY <1>4
<1>6. TypeOK'
  <2>1. outstanding' \in 0..Cardinality(Proc)
    BY CountedFinite
  <2>2. pc' \in [Proc -> Locations]
    BY Zenon DEF TypeOK, Locations, InCommit
  <2> QED BY <1>5, <2>1, <2>2, Zenon DEF TypeOK, Locations, Header
<1>7. CallInv'
  <2>1. \A q \in Proc : pc'[q] # "log_write"
    BY Zenon DEF Counted
  <2> QED BY <1>2, <1>3, <2>1, NoneReserved, Zenon DEF CallInv
<1>8. RoomInv'
  <2>1. \A q \in Proc : pc'[q] # "log_write"
    BY DEF Counted
  <2> QED BY <1>5, <2>1, NoneReserved, LogAssumption DEF RoomInv, Header
<1>9. DataInv'
  <2>1. \A q \in Proc \ {p} : CommitInv(q)'
    BY <1>2, Zenon DEF CommitInv, InCommit
  <2> QED BY <1>5, <2>1 DEF DataInv, Header
<1> QED BY <1>6, <1>7, <1>8, <1>9

LEMMA EndOpInv == ASSUME LogInv, NEW p \in Proc, end_op(p) PROVE LogInv'
<1> USE DEF LogInv
<1>1. /\ pc[p] = "op" /\ outstanding' = outstanding - 1
      /\ UNCHANGED <<diskVars, cache, lh, tail, arg, written, mode>>
  BY DEF end_op
<1>2. /\ mode = "run" /\ ~committing /\ IdleInv /\ p \in InOp /\ p \in Counted
      /\ \A q \in Proc : pc[q] \notin InCommit
  BY <1>1, NoCommit
<1>3. /\ IsFiniteSet(Counted \ {p}) /\ Cardinality(Counted \ {p}) = outstanding - 1
      /\ outstanding \in Nat /\ outstanding # 0
  <2>1. Counted # {}
    BY <1>2
  <2> QED BY <1>2, <2>1, CountedFinite, FS_RemoveElement, FS_EmptySet, Zenon DEF CallInv
<1>4. CASE outstanding = 1
  <2>1. PICK loc \in {"committed", "write_log"} :
          pc' = [pc EXCEPT ![p] = loc] /\ (loc = "committed" <=> lh = <<>>)
    BY <1>2, <1>4 DEF end_op, Goto
  <2>2. committing'
    BY <1>2, <1>4 DEF end_op
  <2>3. Counted = {p}
    BY <1>2, <1>3, <1>4, FS_EmptySet
  <2>4. \A q \in Proc : pc'[q] = IF q = p THEN loc ELSE pc[q]
    BY <2>1 DEF TypeOK
  <2>5. Counted' = {}
    BY <2>3, <2>4, Zenon DEF Counted
  <2>6. OthersClean
    <3>1. \A q \in Proc : pc[q] \notin {"log_write", "panic"}
      BY <1>1, <2>3 DEF Counted
    <3> QED BY <1>2, <3>1 DEF IdleInv, OthersClean
  <2>7. dhead = <<>> /\ tail = 0 /\ Len(lh) \in Nat /\ (lh # <<>> => Len(lh) > 0)
    BY <1>2 DEF IdleInv, TypeOK
  <2>8. lh = <<>> => disk = cache
    BY <2>6 DEF OthersClean, Range, TypeOK
  <2>9. CommitInv(p)'
    BY <1>1, <2>1, <2>4, <2>6, <2>7, <2>8 DEF CommitInv, OthersClean, Logged, diskVars
  <2>10. /\ disk' \in [Block -> Val] /\ cache' \in [Block -> Val] /\ logblk' \in [Slots -> Val]
         /\ dhead' = dhead /\ lh' = lh /\ tail' \in 0..LOGSIZE
    BY <1>1, Zenon DEF TypeOK, diskVars
  <2>11. loc \in InCommit /\ outstanding' = 0 /\ mode' = "run"
    BY <1>1, <1>2, <1>4 DEF InCommit
  <2>12. committing' \in BOOLEAN
    BY <1>2, <1>4 DEF end_op
  <2> QED BY <1>1, <1>2, <2>1, <2>2, <2>5, <2>9, <2>10, <2>11, <2>12, CommitStep, Zenon
<1>5. CASE outstanding # 1
  <2>1. WakeupLog(p, "idle") /\ UNCHANGED committing
    BY <1>2, <1>5 DEF end_op
  <2>2. \A q \in Proc : pc'[q] = IF q = p THEN "idle" ELSE IF pc[q] = "asleep" THEN "begin" ELSE pc[q]
    BY <2>1 DEF WakeupLog
  <2>3. Counted' = Counted \ {p} /\ InOp' \subseteq InOp
    BY <2>2 DEF Counted, InOp
  <2>4. outstanding' = Cardinality(Counted') /\ outstanding' # 0
    BY <1>1, <1>3, <1>5, <2>3
  <2>5. TypeOK'
    <3>1. pc' \in [Proc -> Locations]
      BY <2>1 DEF WakeupLog, TypeOK, Locations
    <3>2. outstanding' \in 0..Cardinality(Proc)
      BY <2>4, CountedFinite
    <3> QED BY <1>1, <2>1, <3>1, <3>2, Zenon DEF TypeOK, Locations, diskVars
  <2>6. \A q \in Proc : pc'[q] \notin InCommit
    BY <1>2, <2>2, Zenon DEF InCommit
  <2>7. CallInv'
    BY <1>1, <1>2, <2>1, <2>2, <2>4, <2>6, Zenon DEF CallInv
  <2>8. RoomInv'
    <3>1. Reserved' \subseteq Reserved
      BY <1>1, <2>3 DEF Reserved
    <3>2. Cardinality(Reserved') \in Nat /\ Cardinality(Reserved') <= Cardinality(Reserved)
      BY <3>1, ReservedShrinks
    <3>3. Len(lh) \in Nat /\ Cardinality(Reserved) \in Nat /\ LOGSIZE \in Nat
      BY ReservedFinite, LogAssumption DEF TypeOK
    <3>4. Len(lh') + Cardinality(Reserved') <= LOGSIZE
      BY <1>1, <1>2, <3>2, <3>3 DEF RoomInv
    <3>5. \A q \in Proc : pc'[q] = "log_write" => pc[q] = "log_write"
      BY <2>2
    <3> QED BY <1>1, <2>3, <3>4, <3>5, Zenon DEF RoomInv
  <2>9. DataInv'
    <3>1. \A q \in Proc : CommitInv(q)'
      BY <2>6 DEF CommitInv, InCommit
    <3>2. IdleInv'
      <4>1. \A q \in Proc : pc[q] \in {"log_write", "panic"} => pc'[q] = pc[q]
        BY <1>1, <2>2
      <4> QED BY <1>1, <1>2, <2>4, <4>1, Zenon DEF IdleInv, diskVars
    <3> QED BY <1>1, <1>2, <2>1, <3>1, <3>2, Zenon DEF DataInv, Distinct, diskVars
  <2> QED BY <2>5, <2>7, <2>8, <2>9
<1> QED BY <1>4, <1>5

-----------------------------------------------------------------------------
(* Who commits is alone. *)
LEMMA Alone ==
  ASSUME LogInv, NEW p \in Proc, pc[p] \in InCommit
  PROVE  /\ mode = "run" /\ committing /\ Counted = {} /\ outstanding = 0 /\ CommitInv(p)
         /\ \A q \in Proc \ {p} : pc[q] \notin InCommit
<1>1. mode = "run"
  BY DEF LogInv, CallInv, InCommit
<1>2. committing /\ Counted = {} /\ \A q \in Proc \ {p} : pc[q] \notin InCommit
  BY DEF LogInv, CallInv
<1>3. outstanding = 0
  BY <1>2, FS_EmptySet, Zenon DEF LogInv, CallInv
<1> QED BY <1>1, <1>2, <1>3 DEF LogInv, DataInv

(* A step of the commit of p. *)
LEMMA CommitGoesOn ==
  ASSUME LogInv, NEW p \in Proc, pc[p] \in InCommit,
         NEW loc \in InCommit, pc' = [pc EXCEPT ![p] = loc],
         UNCHANGED <<outstanding, committing, arg, written, mode>>,
         disk' \in [Block -> Val], cache' \in [Block -> Val], logblk' \in [Slots -> Val],
         dhead' \in {dhead, lh, <<>>}, lh' \in {lh, <<>>}, tail' \in 0..LOGSIZE,
         CommitInv(p)'
  PROVE  LogInv'
<1>1. /\ mode = "run" /\ committing /\ Counted = {} /\ outstanding = 0
      /\ \A q \in Proc \ {p} : pc[q] \notin InCommit
  BY Alone
<1>2. Counted' = {}
  <2>1. \A q \in Proc : pc'[q] = IF q = p THEN loc ELSE pc[q]
    BY Zenon DEF LogInv, TypeOK
  <2> QED BY <1>1, <2>1 DEF Counted, InCommit
<1>3. committing \in BOOLEAN
  BY Zenon DEF LogInv, TypeOK
<1>4. mode' = "run" /\ committing' /\ outstanding' = 0 /\ committing' \in BOOLEAN
  BY <1>1, <1>3
<1> QED BY <1>1, <1>2, <1>4, CommitStep, Zenon

LEMMA WriteLogInv == ASSUME LogInv, NEW p \in Proc, write_log(p) PROVE LogInv'
<1> USE DEF LogInv
<1>1. /\ pc[p] = "write_log" /\ logblk' = [logblk EXCEPT ![tail + 1] = cache[lh[tail + 1]]]
      /\ UNCHANGED <<disk, dhead, cache, lh, outstanding, committing, arg, written, mode>>
  BY Zenon DEF write_log
<1>2. dhead = <<>> /\ tail < Len(lh) /\ Logged(tail) /\ OthersClean
  BY <1>1, Alone, Zenon DEF CommitInv, InCommit
<1>3. tail \in Nat /\ Len(lh) \in Nat /\ Len(lh) <= LOGSIZE /\ LOGSIZE \in Nat /\ tail + 1 \in 1..Len(lh)
  BY <1>2, LogAssumption DEF TypeOK
<1>4. lh[tail + 1] \in Block
  BY <1>3 DEF TypeOK
<1>5. tail + 1 \in Slots
  BY <1>3 DEF Slots
<1>6. logblk' \in [Slots -> Val]
  BY <1>1, <1>4, Zenon DEF TypeOK
<1>7. \A i \in 1..(tail + 1) : logblk'[i] = cache[lh[i]]
  <2> TAKE i \in 1..(tail + 1)
  <2>1. CASE i = tail + 1
    BY <1>1, <1>5, <2>1, Zenon DEF TypeOK
  <2>2. CASE i # tail + 1
    <3>1. i \in 1..tail /\ i \in Slots
      BY <1>3, <2>2 DEF Slots
    <3> QED BY <1>1, <1>2, <2>2, <3>1, Zenon DEF TypeOK, Logged
  <2> QED BY <2>1, <2>2, Zenon
<1>8. CASE tail + 1 = Len(lh)
  <2>1. tail' = 0 /\ pc' = [pc EXCEPT ![p] = "commit"] /\ pc'[p] = "commit"
    BY <1>8, Zenon DEF write_log, Goto, TypeOK
  <2>2. CommitInv(p)'
    BY <1>1, <1>2, <1>3, <1>7, <1>8, <2>1 DEF CommitInv, Logged, OthersClean
  <2>3. tail' \in 0..LOGSIZE
    BY <1>3, <2>1
  <2> QED BY <1>1, <1>6, <2>1, <2>2, <2>3, CommitGoesOn, Zenon DEF TypeOK, InCommit
<1>9. CASE tail + 1 # Len(lh)
  <2>1. tail' = tail + 1 /\ pc' = [pc EXCEPT ![p] = "write_log"] /\ pc'[p] = "write_log"
    BY <1>1, <1>9, Zenon DEF write_log, TypeOK
  <2>2. tail' < Len(lh) /\ tail' \in 0..LOGSIZE
    BY <1>3, <1>9, <2>1
  <2>3. CommitInv(p)'
    BY <1>1, <1>2, <1>7, <2>1, <2>2, Zenon DEF CommitInv, Logged, OthersClean
  <2> QED BY <1>1, <1>6, <2>1, <2>2, <2>3, CommitGoesOn, Zenon DEF TypeOK, InCommit
<1> QED BY <1>8, <1>9

LEMMA WriteHeadInv == ASSUME LogInv, NEW p \in Proc, write_head(p) PROVE LogInv'
<1> USE DEF LogInv
<1>1. /\ pc[p] = "commit" /\ pc' = [pc EXCEPT ![p] = "install"] /\ dhead' = lh
      /\ UNCHANGED <<disk, logblk, cache, lh, outstanding, committing, tail, arg, written, mode>>
  BY DEF write_head, Goto
<1>2. tail = 0 /\ lh # <<>> /\ Logged(Len(lh)) /\ OthersClean
  BY <1>1, Alone, Zenon DEF CommitInv, InCommit
<1>3. Len(lh) > 0 /\ pc'[p] = "install"
  BY <1>1, <1>2 DEF TypeOK
<1>4. CommitInv(p)'
  BY <1>1, <1>2, <1>3 DEF CommitInv, Logged, Homed, OthersClean
<1> QED BY <1>1, <1>4, CommitGoesOn, Zenon DEF TypeOK, InCommit

(* install_trans's loop body, in a commit or a recovery. *)
LEMMA Installs ==
  ASSUME LogInv, InstallBlock, tail < Len(lh), Homed(tail)
  PROVE  /\ tail \in Nat /\ Len(lh) \in Nat /\ Len(lh) <= LOGSIZE /\ LOGSIZE \in Nat
         /\ lh[tail + 1] \in Block /\ logblk[tail + 1] \in Val
         /\ disk' = [disk EXCEPT ![lh[tail + 1]] = logblk[tail + 1]]
         /\ cache' = [cache EXCEPT ![lh[tail + 1]] = logblk[tail + 1]]
         /\ disk' \in [Block -> Val] /\ cache' \in [Block -> Val]
         /\ \A i \in 1..(tail + 1) : disk'[lh[i]] = logblk[i]
<1> USE DEF LogInv
<1>1. tail \in Nat /\ Len(lh) \in Nat /\ Len(lh) <= LOGSIZE /\ LOGSIZE \in Nat /\ tail + 1 \in 1..Len(lh)
  BY LogAssumption DEF TypeOK
<1>2. lh[tail + 1] \in Block /\ logblk[tail + 1] \in Val
  <2>1. tail + 1 \in Slots
    BY <1>1 DEF Slots
  <2> QED BY <1>1, <2>1 DEF TypeOK
<1>3. /\ disk' = [disk EXCEPT ![lh[tail + 1]] = logblk[tail + 1]]
      /\ cache' = [cache EXCEPT ![lh[tail + 1]] = logblk[tail + 1]]
  BY DEF InstallBlock
<1>4. disk' \in [Block -> Val] /\ cache' \in [Block -> Val]
  BY <1>2, <1>3, Zenon DEF TypeOK
<1>5. \A i \in 1..(tail + 1) : disk'[lh[i]] = logblk[i]
  <2> TAKE i \in 1..(tail + 1)
  <2>1. CASE i = tail + 1
    BY <1>2, <1>3, <2>1, Zenon DEF TypeOK
  <2>2. CASE i # tail + 1
    <3>1. i \in 1..tail /\ i \in 1..Len(lh) /\ lh[i] \in Block
      BY <1>1, <2>2 DEF TypeOK
    <3>2. lh[i] # lh[tail + 1]
      BY <1>1, <2>2, <3>1 DEF DataInv, Distinct
    <3> QED BY <1>3, <3>1, <3>2, Zenon DEF TypeOK, Homed
  <2> QED BY <2>1, <2>2, Zenon
<1> QED BY <1>1, <1>2, <1>3, <1>4, <1>5, Zenon

LEMMA InstallTransInv == ASSUME LogInv, NEW p \in Proc, install_trans(p) PROVE LogInv' /\ cache' = cache
<1> USE DEF LogInv
<1>1. /\ pc[p] = "install" /\ InstallBlock
      /\ UNCHANGED <<logblk, dhead, lh, outstanding, committing, arg, written, mode>>
  BY DEF install_trans
<1>2. dhead = lh /\ tail < Len(lh) /\ Logged(Len(lh)) /\ Homed(tail) /\ OthersClean
  BY <1>1, Alone, Zenon DEF CommitInv, InCommit
<1>3. /\ tail \in Nat /\ Len(lh) \in Nat /\ Len(lh) <= LOGSIZE /\ LOGSIZE \in Nat
      /\ lh[tail + 1] \in Block /\ logblk[tail + 1] \in Val
      /\ disk' = [disk EXCEPT ![lh[tail + 1]] = logblk[tail + 1]]
      /\ cache' = [cache EXCEPT ![lh[tail + 1]] = logblk[tail + 1]]
      /\ disk' \in [Block -> Val] /\ cache' \in [Block -> Val]
      /\ \A i \in 1..(tail + 1) : disk'[lh[i]] = logblk[i]
  BY <1>1, <1>2, Installs, Zenon
<1>4. tail + 1 \in 1..Len(lh)
  BY <1>2, <1>3
<1>5. cache' = cache
  <2>1. cache[lh[tail + 1]] = logblk[tail + 1]
    BY <1>2, <1>4, Zenon DEF Logged
  <2> QED BY <1>3, <2>1 DEF TypeOK
<1>6. \A b \in Block : b \notin Range(lh) => cache[b] = disk'[b]
  <2>1. \A b \in Block : b \notin Range(lh) => b # lh[tail + 1]
    BY <1>4 DEF Range
  <2> QED BY <1>2, <1>3, <2>1, Zenon DEF OthersClean, TypeOK
<1>7. CASE tail + 1 = Len(lh)
  <2>1. tail' = 0 /\ pc' = [pc EXCEPT ![p] = "erase"] /\ pc'[p] = "erase"
    BY <1>7, Zenon DEF install_trans, Goto, TypeOK
  <2>2. \A b \in Block : disk'[b] = cache[b]
    <3> TAKE b \in Block
    <3>1. CASE b \in Range(lh)
      <4>1. PICK i \in 1..Len(lh) : lh[i] = b
        BY <3>1 DEF Range
      <4>2. disk'[b] = logblk[i]
        BY <1>3, <1>7, <4>1, Zenon
      <4> QED BY <1>2, <4>1, <4>2 DEF Logged
    <3>2. CASE b \notin Range(lh)
      BY <1>6, <3>2
    <3> QED BY <3>1, <3>2
  <2>3. disk' = cache
    BY <1>3, <2>2 DEF TypeOK
  <2>4. CommitInv(p)'
    BY <1>1, <1>2, <1>5, <2>1, <2>3, Zenon DEF CommitInv, Logged
  <2>5. tail' \in 0..LOGSIZE
    BY <1>3, <2>1
  <2> QED BY <1>1, <1>3, <1>5, <2>1, <2>4, <2>5, CommitGoesOn, Zenon DEF TypeOK, InCommit
<1>8. CASE tail + 1 # Len(lh)
  <2>1. tail' = tail + 1 /\ pc' = [pc EXCEPT ![p] = "install"] /\ pc'[p] = "install"
    BY <1>1, <1>8, Zenon DEF install_trans, TypeOK
  <2>2. tail' < Len(lh) /\ tail' \in 0..LOGSIZE
    BY <1>3, <1>4, <1>8, <2>1
  <2>3. CommitInv(p)'
    BY <1>1, <1>2, <1>3, <1>5, <1>6, <2>1, <2>2 DEF CommitInv, Logged, Homed, OthersClean
  <2> QED BY <1>1, <1>3, <1>5, <2>1, <2>2, <2>3, CommitGoesOn, Zenon DEF TypeOK, InCommit
<1> QED BY <1>5, <1>7, <1>8

LEMMA EraseHeadInv == ASSUME LogInv, NEW p \in Proc, EraseHead(p) PROVE LogInv'
<1>1. /\ pc[p] = "erase" /\ pc' = [pc EXCEPT ![p] = "committed"] /\ lh' = <<>> /\ dhead' = <<>>
      /\ UNCHANGED <<disk, logblk, cache, outstanding, committing, tail, arg, written, mode>>
  BY DEF EraseHead, Goto
<1>2. tail = 0 /\ disk = cache
  BY <1>1, Alone, Zenon DEF CommitInv, InCommit
<1>3. pc'[p] = "committed"
  BY <1>1, Zenon DEF LogInv, TypeOK
<1>4. CommitInv(p)'
  BY <1>1, <1>2, <1>3, Zenon DEF CommitInv
<1> QED BY <1>1, <1>4, CommitGoesOn, Zenon DEF LogInv, TypeOK, InCommit

LEMMA EndCommitInv == ASSUME LogInv, NEW p \in Proc, EndCommit(p) PROVE LogInv'
<1> USE DEF LogInv
<1>1. /\ pc[p] = "committed" /\ ~committing' /\ committing' \in BOOLEAN /\ WakeupLog(p, "idle")
      /\ UNCHANGED <<diskVars, cache, lh, outstanding, tail, arg, written, mode>>
  BY Zenon DEF EndCommit
<1>2. /\ mode = "run" /\ Counted = {} /\ outstanding = 0
      /\ dhead = <<>> /\ lh = <<>> /\ tail = 0 /\ disk = cache
      /\ \A q \in Proc \ {p} : pc[q] \notin InCommit
  BY <1>1, Alone, Zenon DEF CommitInv, InCommit
<1>3. \A q \in Proc : pc'[q] = IF q = p THEN "idle" ELSE IF pc[q] = "asleep" THEN "begin" ELSE pc[q]
  BY <1>1 DEF WakeupLog
<1>4. Counted' = {}
  BY <1>2, <1>3, Zenon DEF Counted
<1>5. \A q \in Proc : pc'[q] \notin InCommit
  BY <1>2, <1>3, Zenon DEF InCommit
<1>6. \A q \in Proc : pc'[q] # "log_write"
  BY <1>4 DEF Counted
<1>7. TypeOK'
  <2>1. pc' \in [Proc -> Locations]
    BY <1>1, Zenon DEF WakeupLog, TypeOK, Locations
  <2> QED BY <1>1, <2>1, Zenon DEF TypeOK, Locations, diskVars
<1>8. CallInv'
  BY <1>1, <1>2, <1>4, <1>5, <1>6, NoneReserved, Zenon DEF CallInv
<1>9. RoomInv'
  <2>1. Len(lh') = 0 /\ LOGSIZE \in Nat
    BY <1>1, <1>2, LogAssumption
  <2>2. InOp' = {} /\ Cardinality(Reserved') = 0
    BY <1>4, NoneReserved, Zenon
  <2>3. Len(lh') + Cardinality(Reserved') <= LOGSIZE
    BY <2>1, <2>2
  <2> QED BY <1>1, <1>6, <2>2, <2>3, Zenon DEF RoomInv
<1>10. DataInv'
  <2>1. \A q \in Proc : CommitInv(q)'
    BY <1>5 DEF CommitInv, InCommit
  <2>2. IdleInv'
    BY <1>1, <1>2, Zenon DEF IdleInv, diskVars
  <2> QED BY <1>1, <1>2, <2>1, <2>2 DEF DataInv, Distinct, diskVars
<1> QED BY <1>7, <1>8, <1>9, <1>10

-----------------------------------------------------------------------------
(* Recovery, and the crash before it: memory holds nothing of a call. *)
LEMMA RecoverStep ==
  ASSUME LogInv, mode' # "run", mode' \in {"read_head", "install", "erase"},
         pc' = [q \in Proc |-> "idle"], outstanding' = 0, committing' = FALSE,
         written' = written \/ written' = [q \in Proc |-> {}],
         arg' = arg \/ arg' = [q \in Proc |-> None],
         disk' \in [Block -> Val], cache' \in [Block -> Val], UNCHANGED <<logblk, dhead>>,
         lh' \in {lh, dhead, <<>>}, tail' \in 0..LOGSIZE, RecoverInv'
  PROVE  LogInv'
<1> USE DEF LogInv
<1>1. Header(lh') /\ Header(dhead')
  <2>1. Header(lh) /\ Header(dhead) /\ Header(<<>>)
    BY LogAssumption DEF TypeOK, DataInv, Distinct, Header
  <2> QED BY <2>1
<1>2. \A q \in Proc : pc'[q] = "idle"
  OBVIOUS
<1>3. Counted' = {}
  BY <1>2 DEF Counted
<1>4. TypeOK'
  <2>1. outstanding' \in 0..Cardinality(Proc)
    BY CountedFinite
  <2>2. pc' \in [Proc -> Locations]
    BY DEF Locations
  <2>3. written' \in [Proc -> SUBSET Block]
    <3>1. [q \in Proc |-> {}] \in [Proc -> SUBSET Block] /\ written \in [Proc -> SUBSET Block]
      BY Zenon DEF TypeOK
    <3> QED BY <3>1, Zenon
  <2>4. arg' \in [Proc -> Block \cup {None}]
    <3>1. [q \in Proc |-> None] \in [Proc -> Block \cup {None}] /\ arg \in [Proc -> Block \cup {None}]
      BY Zenon DEF TypeOK
    <3> QED BY <3>1
  <2>5. logblk' \in [Slots -> Val] /\ committing' \in BOOLEAN
    BY Zenon DEF TypeOK
  <2> QED BY <1>1, <2>1, <2>2, <2>3, <2>4, <2>5, Zenon DEF TypeOK, Locations, Header
<1>5. CallInv'
  BY <1>2, <1>3, NoneReserved, Zenon DEF CallInv, InCommit
<1>6. RoomInv'
  <2>1. \A q \in Proc : IsFiniteSet(written'[q])
    BY FS_EmptySet, Zenon DEF RoomInv
  <2> QED BY <1>2, <1>3, <2>1, NoneReserved, Zenon DEF RoomInv
<1>7. DataInv'
  BY <1>1, Zenon DEF DataInv, Header
<1> QED BY <1>4, <1>5, <1>6, <1>7, Zenon

LEMMA CrashInv == ASSUME LogInv, Crash PROVE LogInv'
<1>1. /\ mode' = "read_head" /\ cache' = disk /\ lh' = <<>> /\ outstanding' = 0
      /\ committing' = FALSE /\ tail' = 0 /\ pc' = [q \in Proc |-> "idle"]
      /\ written' = [q \in Proc |-> {}] /\ arg' = [q \in Proc |-> None]
      /\ UNCHANGED <<disk, logblk, dhead>>
  BY DEF Crash, diskVars
<1>2. disk' \in [Block -> Val] /\ cache' \in [Block -> Val] /\ tail' \in 0..LOGSIZE
  BY <1>1, LogAssumption DEF LogInv, TypeOK
<1>3. RecoverInv'
  BY <1>1 DEF RecoverInv
<1> QED BY <1>1, <1>2, <1>3, RecoverStep, Zenon

(* In recovery, everybody is idle. *)
LEMMA Recovering ==
  ASSUME LogInv, mode # "run"
  PROVE  /\ pc = [q \in Proc |-> "idle"] /\ outstanding = 0 /\ committing = FALSE /\ RecoverInv
         /\ InOp = {}
<1>1. \A q \in Proc : pc[q] = "idle"
  BY Zenon DEF LogInv, CallInv
<1>2. pc = [q \in Proc |-> "idle"]
  BY <1>1, Zenon DEF LogInv, TypeOK
<1>3. Counted = {} /\ InOp = {}
  BY <1>1 DEF Counted, InOp
<1>4. outstanding = 0
  BY <1>3, FS_EmptySet, Zenon DEF LogInv, CallInv
<1>5. committing = FALSE
  BY <1>1, Zenon DEF LogInv, CallInv, InCommit, TypeOK
<1> QED BY <1>2, <1>3, <1>4, <1>5 DEF LogInv, DataInv

LEMMA ReadHeadInv == ASSUME LogInv, read_head PROVE LogInv'
<1>1. /\ mode = "read_head" /\ lh' = dhead /\ mode' = IF dhead = <<>> THEN "erase" ELSE "install"
      /\ UNCHANGED <<diskVars, cache, outstanding, committing, tail, pc, arg, written>>
  BY DEF read_head
<1>2. /\ pc = [q \in Proc |-> "idle"] /\ outstanding = 0 /\ committing = FALSE
      /\ cache = disk /\ tail = 0
  BY <1>1, Recovering, Zenon DEF RecoverInv
<1>3. Len(dhead) \in Nat /\ (dhead # <<>> => 0 < Len(dhead)) /\ (dhead = <<>> => Len(dhead) = 0)
  BY DEF LogInv, TypeOK
<1>4. RecoverInv'
  BY <1>1, <1>2, <1>3 DEF RecoverInv, Homed, diskVars
<1>5. disk' \in [Block -> Val] /\ cache' \in [Block -> Val] /\ tail' \in 0..LOGSIZE
  BY <1>1, Zenon DEF LogInv, TypeOK, diskVars
<1>6. mode' # "run" /\ mode' \in {"read_head", "install", "erase"}
  BY <1>1
<1> QED BY <1>1, <1>2, <1>4, <1>5, <1>6, RecoverStep, Zenon DEF diskVars

LEMMA RecoverInstallInv == ASSUME LogInv, RecoverInstall PROVE LogInv'
<1>1. /\ mode = "install" /\ InstallBlock
      /\ UNCHANGED <<logblk, dhead, lh, outstanding, committing, pc, arg, written>>
  BY DEF RecoverInstall
<1>2. /\ pc = [q \in Proc |-> "idle"] /\ outstanding = 0 /\ committing = FALSE
      /\ cache = disk /\ lh = dhead /\ tail < Len(lh) /\ Homed(tail)
  BY <1>1, Recovering DEF RecoverInv
<1>3. /\ tail \in Nat /\ Len(lh) \in Nat /\ Len(lh) <= LOGSIZE /\ LOGSIZE \in Nat
      /\ disk' \in [Block -> Val] /\ cache' \in [Block -> Val]
      /\ \A i \in 1..(tail + 1) : disk'[lh[i]] = logblk[i]
  BY <1>1, <1>2, Installs, Zenon
<1>4. cache' = disk'
  BY <1>1, <1>2, Zenon DEF InstallBlock
<1>5. CASE tail + 1 = Len(lh)
  <2>1. tail' = 0 /\ mode' = "erase" /\ tail' \in 0..LOGSIZE
    BY <1>3, <1>5 DEF RecoverInstall
  <2>2. RecoverInv'
    BY <1>1, <1>2, <1>3, <1>4, <1>5, <2>1, Zenon DEF RecoverInv, Homed
  <2> QED BY <1>1, <1>2, <1>3, <2>1, <2>2, RecoverStep, Zenon
<1>6. CASE tail + 1 # Len(lh)
  <2>1. tail' = tail + 1 /\ mode' = "install" /\ tail' \in 0..LOGSIZE /\ tail' < Len(lh)
    BY <1>1, <1>2, <1>3, <1>6 DEF RecoverInstall
  <2>2. RecoverInv'
    BY <1>1, <1>2, <1>3, <1>4, <2>1, Zenon DEF RecoverInv, Homed
  <2> QED BY <1>1, <1>2, <1>3, <2>1, <2>2, RecoverStep, Zenon
<1> QED BY <1>5, <1>6

LEMMA RecoverEraseInv == ASSUME LogInv, RecoverErase PROVE LogInv'
<1> USE DEF LogInv
<1>1. /\ mode = "erase" /\ lh' = <<>> /\ dhead' = <<>> /\ mode' = "run"
      /\ UNCHANGED <<disk, logblk, cache, outstanding, committing, tail, pc, arg, written>>
  BY DEF RecoverErase
<1>2. /\ pc = [q \in Proc |-> "idle"] /\ outstanding = 0 /\ committing = FALSE /\ cache = disk /\ tail = 0
  BY <1>1, Recovering, Zenon DEF RecoverInv
<1>3. \A q \in Proc : pc'[q] = "idle"
  BY <1>1, <1>2
<1>4. Counted' = {}
  BY <1>3 DEF Counted
<1>5. Header(<<>>) /\ Len(<<>>) = 0 /\ LOGSIZE \in Nat
  BY LogAssumption DEF Distinct, Header
<1>6. TypeOK'
  BY <1>1, <1>5, Zenon DEF TypeOK, Header
<1>7. CallInv'
  BY <1>1, <1>2, <1>3, <1>4, NoneReserved, Zenon DEF CallInv, InCommit
<1>8. RoomInv'
  BY <1>1, <1>3, <1>4, <1>5, NoneReserved DEF RoomInv
<1>9. DataInv'
  <2>1. \A q \in Proc : CommitInv(q)'
    BY <1>3, Zenon DEF CommitInv
  <2>2. IdleInv'
    BY <1>1, <1>2, Zenon DEF IdleInv
  <2> QED BY <1>1, <1>2, <1>5, <2>1, <2>2, Zenon DEF DataInv, Header
<1> QED BY <1>6, <1>7, <1>8, <1>9

LEMMA LogStepInv == LogInv /\ [Next]_vars => LogInv'
<1> SUFFICES ASSUME LogInv, [Next]_vars PROVE LogInv'
  OBVIOUS
<1>1. ASSUME NEW p \in Proc, Call(p) \/ Step(p) PROVE LogInv'
  BY <1>1, CallInvStep, BeginInv, LogWriteInv, EndOpInv, WriteLogInv, WriteHeadInv, InstallTransInv,
     EraseHeadInv, EndCommitInv, Zenon DEF Step
<1>2. ASSUME NEW p \in Proc, NEW b \in Block, NEW v \in Val, Modify(p, b, v) PROVE LogInv'
  BY <1>2, ModifyInv
<1>3. CASE Recover
  BY <1>3, ReadHeadInv, RecoverInstallInv, RecoverEraseInv DEF Recover
<1>4. CASE Crash
  BY <1>4, CrashInv
<1>5. CASE UNCHANGED vars
  <2>1. Counted' = Counted /\ InOp' = InOp
    BY <1>5, Zenon DEF vars, Counted, InOp
  <2>2. Reserved' = Reserved
    BY <1>5, <2>1, Zenon DEF vars, Reserved
  <2>3. TypeOK' /\ CallInv' /\ RoomInv'
    BY <1>5, <2>1, <2>2, Zenon DEF vars, diskVars, LogInv, TypeOK, CallInv, RoomInv
  <2>4. DataInv'
    <3>1. UNCHANGED IdleInv /\ UNCHANGED RecoverInv /\ Distinct(lh)' = Distinct(lh) /\ Distinct(dhead)' = Distinct(dhead)
      BY <1>5, Zenon DEF vars, diskVars, Distinct, IdleInv, RecoverInv, Homed
    <3>2. \A p \in Proc : CommitInv(p)' = CommitInv(p)
      BY <1>5, Zenon DEF vars, diskVars, CommitInv, Logged, Homed, OthersClean
    <3> QED BY <1>5, <3>1, <3>2, Zenon DEF vars, LogInv, DataInv
  <2> QED BY <2>3, <2>4 DEF LogInv
<1> QED BY <1>1, <1>2, <1>3, <1>4, <1>5, Zenon DEF Next

LEMMA LogAlways == Spec => []LogInv
BY LogInitInv, LogStepInv, PTL DEF Spec

-----------------------------------------------------------------------------
(* A call writes fewer blocks than begin_op reserves for it, by enough to  *)
(* leave out the block of the log area that holds the header.              *)
Margin == OpBlocks < MAXOPBLOCKS /\ LOGSIZE + OpBlocks < LogBlocks - 1 + MAXOPBLOCKS

NoPanic == \A p \in Proc : pc[p] # "panic"

(* What a call in progress has left of its reservation is still free. *)
LEMMA RoomLeft ==
  ASSUME LogInv, NEW p \in Proc, pc[p] = "op", NEW b, Cardinality(written[p] \cup {b}) <= OpBlocks
  PROVE  Len(lh) + MAXOPBLOCKS - OpBlocks <= LOGSIZE
<1> DEFINE w == Cardinality(written[p])
           mine == {p} \X ((w + 1)..MAXOPBLOCKS)
<1>1. IsFiniteSet(written[p]) /\ w \in Nat
  BY FS_CardinalityType, Zenon DEF LogInv, RoomInv
<1>2. w <= OpBlocks /\ OpBlocks <= MAXOPBLOCKS /\ OpBlocks \in Nat /\ MAXOPBLOCKS \in Nat
  <2>1. IsFiniteSet(written[p] \cup {b}) /\ written[p] \in SUBSET (written[p] \cup {b})
    BY <1>1, FS_AddElement, Zenon
  <2>2. w <= Cardinality(written[p] \cup {b}) /\ Cardinality(written[p] \cup {b}) \in Nat
    BY <2>1, FS_Subset, FS_CardinalityType, Zenon
  <2> QED BY <1>1, <2>2, LogAssumption
<1>3. /\ IsFiniteSet((w + 1)..MAXOPBLOCKS)
      /\ Cardinality((w + 1)..MAXOPBLOCKS) = MAXOPBLOCKS - w
  <2>1. w + 1 \in Int /\ MAXOPBLOCKS \in Int
    BY <1>1, <1>2
  <2>2. /\ IsFiniteSet((w + 1)..MAXOPBLOCKS)
        /\ Cardinality((w + 1)..MAXOPBLOCKS) =
             IF w + 1 > MAXOPBLOCKS THEN 0 ELSE MAXOPBLOCKS - (w + 1) + 1
    BY <2>1, FS_Interval, Zenon
  <2> QED BY <1>1, <1>2, <2>2
<1>4. Cardinality(mine) = 1 * (MAXOPBLOCKS - w)
  <2>1. IsFiniteSet({p}) /\ Cardinality({p}) = 1
    BY FS_Singleton, Zenon
  <2>2. Cardinality(mine) = Cardinality({p}) * Cardinality((w + 1)..MAXOPBLOCKS)
    BY <1>3, <2>1, FS_Product, Zenon
  <2> QED BY <1>3, <2>1, <2>2, Zenon
<1>5. mine \in SUBSET Reserved
  <2>1. p \in InOp
    BY Zenon DEF InOp
  <2>2. ASSUME NEW x \in mine PROVE x \in Reserved
    <3>1. x[1] = p /\ x[2] \in (w + 1)..MAXOPBLOCKS /\ x = <<x[1], x[2]>>
      BY <2>2
    <3>2. x[2] \in 1..MAXOPBLOCKS /\ x[2] > w
      BY <1>1, <1>2, <3>1
    <3> QED BY <2>1, <3>1, <3>2, Zenon DEF Reserved
  <2> QED BY <2>2, Zenon
<1> HIDE DEF mine
<1>6. Cardinality(mine) <= Cardinality(Reserved) /\ Cardinality(Reserved) \in Nat
  BY <1>5, ReservedFinite, FS_Subset, Zenon
<1>7. Len(lh) + Cardinality(Reserved) <= LOGSIZE /\ Len(lh) \in Nat /\ LOGSIZE \in Nat
  BY Running, LogAssumption DEF LogInv, RoomInv, TypeOK
<1> HIDE DEF w
<1> QED BY <1>1, <1>2, <1>4, <1>6, <1>7

LEMMA Enough ==
  ASSUME Margin, LogInv, NEW p \in Proc, NEW b \in Block, NEW v \in Val, Modify(p, b, v)
  PROVE  pc' = [pc EXCEPT ![p] = "log_write"]
<1>1. pc[p] = "op" /\ Cardinality(written[p] \cup {b}) <= OpBlocks
  BY Zenon DEF Modify
<1>2. Len(lh) + MAXOPBLOCKS - OpBlocks <= LOGSIZE
  BY <1>1, RoomLeft, Zenon
<1>3. Len(lh) \in Nat /\ MAXOPBLOCKS \in Nat /\ OpBlocks \in Nat /\ LOGSIZE \in Nat /\ LogBlocks \in Nat
  BY LogAssumption DEF LogInv, TypeOK
<1>4. ~(Len(lh) >= LOGSIZE) /\ ~(Len(lh) >= LogBlocks - 1)
  BY <1>2, <1>3 DEF Margin
<1>5. ~(outstanding < 1)
  <2>1. Counted # {}
    BY <1>1, NoCommit, Zenon
  <2>2. Cardinality(Counted) \in Nat /\ Cardinality(Counted) # 0
    BY <2>1, CountedFinite, FS_EmptySet, Zenon
  <2>3. outstanding = Cardinality(Counted)
    BY Zenon DEF LogInv, CallInv
  <2> QED BY <2>2, <2>3
<1> QED BY <1>4, <1>5, Zenon DEF Modify, Goto

LEMMA NoPanicStep == ASSUME Margin PROVE LogInv /\ NoPanic /\ [Next]_vars => NoPanic'
<1> SUFFICES ASSUME LogInv, NoPanic, [Next]_vars PROVE NoPanic'
  OBVIOUS
<1> USE DEF NoPanic, Goto
<1>1. pc \in [Proc -> Locations]
  BY Zenon DEF LogInv, TypeOK, Locations
<1>2. ASSUME NEW p \in Proc, Call(p) \/ Step(p) PROVE NoPanic'
  <2>1. CASE end_op(p)
    <3>1. ~committing
      BY <2>1, NoCommit, Zenon DEF end_op
    <3> QED BY <1>1, <2>1, <3>1, Zenon DEF end_op, WakeupLog
  <2>2. CASE Call(p) \/ begin_op(p) \/ log_write(p) \/ write_log(p) \/ write_head(p)
    BY <1>1, <2>2, Zenon DEF Call, begin_op, log_write, write_log, write_head
  <2>3. CASE install_trans(p) \/ EraseHead(p) \/ EndCommit(p)
    BY <1>1, <2>3, Zenon DEF install_trans, EraseHead, EndCommit, WakeupLog
  <2> QED BY <1>2, <2>1, <2>2, <2>3, Zenon DEF Step
<1>3. ASSUME NEW p \in Proc, NEW b \in Block, NEW v \in Val, Modify(p, b, v) PROVE NoPanic'
  BY <1>1, <1>3, Enough, Zenon
<1>4. CASE Recover
  BY <1>4, Zenon DEF Recover, read_head, RecoverInstall, RecoverErase
<1>5. CASE Crash
  BY <1>5 DEF Crash
<1>6. CASE UNCHANGED vars
  BY <1>6, Zenon DEF vars
<1> QED BY <1>2, <1>3, <1>4, <1>5, <1>6, Zenon DEF Next

(* Who sleeps in begin_op has a reason to. *)
SleepInv == \A p \in Proc : pc[p] = "asleep" => MustWait

(* A step that leaves who sleeps, and what begin_op looks at, alone, or    *)
(* only adds to the header.                                                *)
LEMMA SleepOn ==
  ASSUME SleepInv, \A q \in Proc : pc'[q] = "asleep" => pc[q] = "asleep",
         Len(lh) \in Nat, Len(lh') \in Nat, Len(lh) <= Len(lh'), outstanding \in Nat,
         UNCHANGED <<outstanding, committing>>
  PROVE  SleepInv'
<1>1. MustWait => MustWait'
  <2>1. MAXOPBLOCKS \in Nat /\ LOGSIZE \in Nat
    BY LogAssumption
  <2>2. (outstanding + 1) * MAXOPBLOCKS \in Nat
    BY <2>1
  <2> QED BY <2>1, <2>2 DEF MustWait
<1> QED BY <1>1, Zenon DEF SleepInv

LEMMA SleepStep == LogInv /\ SleepInv /\ [Next]_vars => SleepInv'
<1> SUFFICES ASSUME LogInv, SleepInv, [Next]_vars PROVE SleepInv'
  OBVIOUS
<1>1. /\ pc \in [Proc -> Locations] /\ outstanding \in Nat /\ lh \in Seq(Block) /\ Len(lh) \in Nat
  BY CountedFinite DEF LogInv, TypeOK, CallInv, Locations
<1>2. ASSUME NEW p \in Proc, begin_op(p) PROVE SleepInv'
  <2>1. CASE MustWait
    <3>1. MustWait'
      BY <1>2, <2>1, Zenon DEF begin_op, MustWait
    <3> QED BY <3>1, Zenon DEF SleepInv
  <2>2. CASE ~MustWait
    <3>1. \A q \in Proc : pc[q] # "asleep"
      BY <2>2, Zenon DEF SleepInv
    <3>2. pc' = [pc EXCEPT ![p] = "op"]
      BY <1>2, <2>2, Zenon DEF begin_op, Goto
    <3>3. \A q \in Proc : pc'[q] # "asleep"
      BY <1>1, <3>1, <3>2
    <3> QED BY <3>3, Zenon DEF SleepInv
  <2> QED BY <2>1, <2>2
<1>3. ASSUME NEW p \in Proc, Call(p) PROVE SleepInv'
  <2>1. pc' = [pc EXCEPT ![p] = "begin"] /\ UNCHANGED <<lh, outstanding, committing>>
    BY <1>3, Zenon DEF Call, Goto
  <2>2. \A q \in Proc : pc'[q] = "asleep" => pc[q] = "asleep"
    BY <1>1, <2>1
  <2> QED BY <1>1, <2>1, <2>2, SleepOn
<1>4. ASSUME NEW p \in Proc, NEW b \in Block, NEW v \in Val, Modify(p, b, v) PROVE SleepInv'
  <2>1. UNCHANGED <<lh, outstanding, committing>>
    BY <1>4, Zenon DEF Modify
  <2>2. pc' = [pc EXCEPT ![p] = "panic"] \/ pc' = [pc EXCEPT ![p] = "log_write"]
    BY <1>4, Zenon DEF Modify, Goto
  <2>3. \A q \in Proc : pc'[q] = "asleep" => pc[q] = "asleep"
    BY <1>1, <2>2
  <2> QED BY <1>1, <2>1, <2>3, SleepOn
<1>5. ASSUME NEW p \in Proc, log_write(p) PROVE SleepInv'
  <2>1. /\ pc[p] = "log_write" /\ pc' = [pc EXCEPT ![p] = "op"] /\ UNCHANGED <<outstanding, committing>>
        /\ lh' = IF arg[p] \in Range(lh) THEN lh ELSE Append(lh, arg[p])
    BY <1>5, Zenon DEF log_write, Goto
  <2>2. arg[p] \in Block
    BY <2>1, Zenon DEF LogInv, CallInv
  <2>3. Len(lh') \in Nat /\ Len(lh) <= Len(lh')
    BY <1>1, <2>1, <2>2
  <2>4. \A q \in Proc : pc'[q] = "asleep" => pc[q] = "asleep"
    BY <1>1, <2>1
  <2> QED BY <1>1, <2>1, <2>3, <2>4, SleepOn
<1>6. ASSUME NEW p \in Proc, end_op(p) PROVE SleepInv'
  <2>1. ~committing
    BY <1>6, NoCommit, Zenon DEF end_op
  <2>2. CASE outstanding = 1
    BY <1>6, <2>1, <2>2, Zenon DEF end_op, SleepInv, MustWait
  <2>3. CASE outstanding # 1
    <3>1. WakeupLog(p, "idle")
      BY <1>6, <2>1, <2>3, Zenon DEF end_op
    <3> QED BY <3>1 DEF WakeupLog, SleepInv
  <2> QED BY <2>2, <2>3
<1>7. ASSUME NEW p \in Proc, write_log(p) \/ write_head(p) \/ install_trans(p) \/ EraseHead(p) PROVE SleepInv'
  <2>1. pc[p] \in InCommit /\ committing' = committing
    BY <1>7, Zenon DEF write_log, write_head, install_trans, EraseHead, Goto, InCommit
  <2>2. committing'
    BY <2>1, Zenon DEF LogInv, CallInv
  <2> QED BY <2>2, Zenon DEF SleepInv, MustWait
<1>8. ASSUME NEW p \in Proc, EndCommit(p) PROVE SleepInv'
  <2>1. WakeupLog(p, "idle")
    BY <1>8, Zenon DEF EndCommit
  <2> QED BY <2>1 DEF WakeupLog, SleepInv
<1>9. CASE Recover
  <2>1. mode # "run" /\ pc' = pc
    BY <1>9 DEF Recover, read_head, RecoverInstall, RecoverErase
  <2>2. \A q \in Proc : pc'[q] = "idle"
    BY <2>1, Zenon DEF LogInv, CallInv
  <2> QED BY <2>2 DEF SleepInv
<1>10. CASE Crash
  BY <1>10 DEF Crash, SleepInv
<1>11. CASE UNCHANGED vars
  BY <1>11, Zenon DEF vars, SleepInv, MustWait
<1> QED BY <1>2, <1>3, <1>4, <1>5, <1>6, <1>7, <1>8, <1>9, <1>10, <1>11, Zenon DEF Next, Step

(* With any number of processes and blocks, as long as every call keeps    *)
(* the margin: one process at a time commits, no call is in progress then, *)
(* none of the panics of begin_op, log_write and end_op                    *)
(* (src/kernel/c/log.c) is reached, once nothing is outstanding            *)
(* everything written is on disk in its home location, and no call is      *)
(* left asleep in begin_op when a commit ends or space comes back.         *)
THEOREM CommitsAlone == ASSUME Margin PROVE Spec => []CommitAlone
<1>1. Init => NoPanic
  BY DEF Init, NoPanic
<1>2. LogInv /\ NoPanic /\ [Next]_vars => NoPanic'
  BY NoPanicStep
<1>3. LogInv /\ NoPanic /\ SleepInv => CommitAlone
  <2> SUFFICES ASSUME LogInv, NoPanic, SleepInv PROVE CommitAlone
    OBVIOUS
  <2>1. Counted = InOp
    BY DEF NoPanic, Counted, InOp
  <2>2. mode = "run" /\ outstanding = 0 /\ ~committing => disk = cache /\ dhead = <<>>
    <3> SUFFICES ASSUME mode = "run", outstanding = 0, ~committing PROVE disk = cache /\ dhead = <<>>
      OBVIOUS
    <3>1. IdleInv
      BY DEF LogInv, DataInv
    <3>2. Counted = {}
      BY CountedFinite, FS_EmptySet, Zenon DEF LogInv, CallInv
    <3>3. \A q \in Proc : pc[q] \notin {"log_write", "panic"}
      BY <3>2 DEF Counted
    <3>4. lh = <<>> /\ dhead = <<>>
      BY <3>1, Zenon DEF IdleInv
    <3>5. \A b \in Block : b \notin Range(lh)
      BY <3>4 DEF Range
    <3>6. \A b \in Block : cache[b] = disk[b]
      BY <3>1, <3>3, <3>5, Zenon DEF IdleInv
    <3> QED BY <3>4, <3>6 DEF LogInv, TypeOK
  <2> QED BY <2>1, <2>2, Zenon DEF CommitAlone, LogInv, CallInv, NoPanic, SleepInv
<1>4. Init => SleepInv
  BY DEF Init, SleepInv
<1> QED BY <1>1, <1>2, <1>3, <1>4, LogAlways, SleepStep, PTL DEF Spec

-----------------------------------------------------------------------------
(* What recovery makes of home blocks d, log blocks l and header h. *)
Recovered(h, d, l) ==
  [b \in Block |-> IF b \in Range(h) THEN l[CHOOSE i \in DOMAIN h : h[i] = b] ELSE d[b]]

(* After recovery every block is as it is in memory m, when home and log   *)
(* blocks together hold what memory does.                                  *)
LEMMA RecoveredIs ==
  ASSUME NEW h \in Seq(Block), Distinct(h), NEW d, NEW l, NEW m \in [Block -> Val],
         \A i \in 1..Len(h) : l[i] = m[h[i]],
         \A b \in Block : b \notin Range(h) => m[b] = d[b]
  PROVE  Recovered(h, d, l) = m
<1>1. DOMAIN h = 1..Len(h)
  OBVIOUS
<1>2. ASSUME NEW b \in Block PROVE Recovered(h, d, l)[b] = m[b]
  <2>1. CASE b \in Range(h)
    <3>1. PICK i \in 1..Len(h) : h[i] = b
      BY <2>1 DEF Range
    <3>2. i = CHOOSE j \in DOMAIN h : h[j] = b
      BY <1>1, <3>1, Zenon DEF Distinct
    <3>3. Recovered(h, d, l)[b] = l[i]
      BY <2>1, <3>2, Zenon DEF Recovered
    <3> QED BY <3>1, <3>3, Zenon
  <2>2. CASE b \notin Range(h)
    BY <2>2, Zenon DEF Recovered
  <2> QED BY <2>1, <2>2, Zenon
<1>3. Recovered(h, d, l) = [b \in Block |-> Recovered(h, d, l)[b]]
  BY DEF Recovered
<1> QED BY <1>2, <1>3, Zenon

LEMMA EmptyRange == ASSUME NEW h, h = <<>> PROVE \A b : b \notin Range(h)
BY DEF Range

LEMMA AbstractInit == Init => A!Init
<1> SUFFICES ASSUME Init PROVE A!Init
  OBVIOUS
<1>1. Overlay = disk
  <2>1. dhead = <<>> /\ disk \in [Block -> Val]
    BY LogAssumption, Zenon DEF Init
  <2> QED BY <2>1, EmptyRange DEF Overlay
<1>2. InOp = {}
  BY DEF Init, InOp
<1>3. Mem = disk /\ disk = [b \in Block |-> InitVal]
  BY DEF Init, Mem
<1> QED BY <1>1, <1>2, <1>3 DEF A!Init

-----------------------------------------------------------------------------
(* Each step is a step of the abstract disk, or none. *)
Abstract == [A!Next]_<<Mem, Overlay, InOp>>

(* A step of p in a call, which leaves the disk alone. *)
LEMMA CallAbstract ==
  ASSUME LogInv, NEW p \in Proc, mode = "run", mode' = "run", UNCHANGED diskVars,
         \/ UNCHANGED <<cache, InOp>>
         \/ cache' = cache /\ p \notin InOp /\ InOp' = InOp \cup {p}
         \/ cache' = cache /\ p \in InOp /\ InOp' = InOp \ {p}
         \/ /\ p \in InOp /\ InOp' = InOp
            /\ \E b \in Block, v \in Val : cache' = [cache EXCEPT ![b] = v]
  PROVE  Abstract
<1>1. Overlay' = Overlay
  BY DEF Overlay, diskVars
<1>2. Mem = cache /\ Mem' = cache'
  BY Zenon DEF Mem
<1>3. CASE UNCHANGED <<cache, InOp>>
  BY <1>1, <1>2, <1>3, Zenon DEF Abstract
<1>4. CASE cache' = cache /\ p \notin InOp /\ InOp' = InOp \cup {p}
  <2>1. A!Begin(p)
    BY <1>1, <1>2, <1>4, Zenon DEF A!Begin
  <2> QED BY <2>1, Zenon DEF Abstract, A!Next
<1>5. CASE cache' = cache /\ p \in InOp /\ InOp' = InOp \ {p}
  <2>1. A!End(p)
    BY <1>1, <1>2, <1>5, Zenon DEF A!End
  <2> QED BY <2>1, Zenon DEF Abstract, A!Next
<1>6. ASSUME p \in InOp, InOp' = InOp, NEW b \in Block, NEW v \in Val, cache' = [cache EXCEPT ![b] = v]
      PROVE  Abstract
  <2>1. A!Write(p, b, v)
    BY <1>1, <1>2, <1>6, Zenon DEF A!Write
  <2> QED BY <2>1, Zenon DEF Abstract, A!Next
<1> QED BY <1>3, <1>4, <1>5, <1>6, Zenon

LEMMA CallsAbstract ==
  ASSUME Margin, LogInv, NoPanic, NEW p \in Proc,
         \/ Call(p) \/ begin_op(p) \/ log_write(p) \/ end_op(p) \/ EndCommit(p)
         \/ \E b \in Block, v \in Val : Modify(p, b, v)
  PROVE  Abstract
<1> USE DEF Goto
<1>1. pc \in [Proc -> Locations]
  BY Zenon DEF LogInv, TypeOK, Locations
<1>2. ASSUME Call(p) PROVE Abstract
  <2>1. mode = "run" /\ mode' = "run" /\ UNCHANGED <<diskVars, cache>>
    BY <1>2, Zenon DEF Call
  <2>2. InOp' = InOp
    BY <1>1, <1>2, Zenon DEF Call, InOp
  <2> QED BY <2>1, <2>2, CallAbstract, Zenon
<1>3. ASSUME begin_op(p) PROVE Abstract
  <2>1. mode = "run" /\ mode' = "run" /\ UNCHANGED <<diskVars, cache>> /\ p \notin InOp
    BY <1>3, Running, Zenon DEF begin_op, InOp
  <2>2. InOp' = InOp \/ InOp' = InOp \cup {p}
    BY <1>1, <1>3, Zenon DEF begin_op, InOp
  <2> QED BY <2>1, <2>2, CallAbstract, Zenon
<1>4. ASSUME log_write(p) PROVE Abstract
  <2>1. mode = "run" /\ mode' = "run" /\ UNCHANGED <<diskVars, cache>>
    BY <1>4, Running, Zenon DEF log_write
  <2>2. InOp' = InOp
    BY <1>1, <1>4, Zenon DEF log_write, InOp
  <2> QED BY <2>1, <2>2, CallAbstract
<1>5. ASSUME end_op(p) PROVE Abstract
  <2>1. pc[p] = "op" /\ UNCHANGED <<diskVars, cache, mode>>
    BY <1>5, Zenon DEF end_op
  <2>2. mode = "run" /\ ~committing /\ p \in InOp
    BY <2>1, NoCommit, Zenon
  <2>3. InOp' = InOp \ {p}
    BY <1>1, <1>5, <2>2, Zenon DEF end_op, WakeupLog, InOp
  <2> QED BY <2>1, <2>2, <2>3, CallAbstract, Zenon
<1>6. ASSUME EndCommit(p) PROVE Abstract
  <2>1. mode = "run" /\ mode' = "run" /\ UNCHANGED <<diskVars, cache>>
    BY <1>6, Running, Zenon DEF EndCommit
  <2>2. InOp' = InOp
    BY <1>1, <1>6, Zenon DEF EndCommit, WakeupLog, InOp
  <2> QED BY <2>1, <2>2, CallAbstract
<1>7. ASSUME NEW b \in Block, NEW v \in Val, Modify(p, b, v) PROVE Abstract
  <2>1. pc[p] = "op" /\ cache' = [cache EXCEPT ![b] = v] /\ UNCHANGED <<diskVars, mode>>
    BY <1>7, Zenon DEF Modify
  <2>2. mode = "run" /\ p \in InOp
    BY <2>1, NoCommit, Zenon
  <2>3. pc' = [pc EXCEPT ![p] = "log_write"]
    BY <1>7, Enough, Zenon
  <2>4. InOp' = InOp
    BY <1>1, <2>1, <2>3, Zenon DEF InOp
  <2> QED BY <2>1, <2>2, <2>4, CallAbstract, Zenon
<1> QED BY <1>2, <1>3, <1>4, <1>5, <1>6, <1>7, Zenon

(* Installing a block of the header on disk, or erasing a header whose     *)
(* blocks are all installed, does not change what recovery would leave.    *)
LEMMA InstallKeeps ==
  ASSUME LogInv, dhead = lh, tail < Len(lh), Homed(tail), InstallBlock, UNCHANGED <<logblk, dhead>>
  PROVE  Overlay' = Overlay
<1>1. /\ lh[tail + 1] \in Range(lh) /\ disk' = [disk EXCEPT ![lh[tail + 1]] = logblk[tail + 1]]
  <2>1. tail \in Nat /\ Len(lh) \in Nat /\ lh \in Seq(Block)
    BY DEF LogInv, TypeOK
  <2>2. tail + 1 \in DOMAIN lh
    BY <2>1
  <2> QED BY <2>2, Zenon DEF InstallBlock, Range
<1>2. \A b \in Block : b \notin Range(dhead) => disk'[b] = disk[b]
  BY <1>1, Zenon DEF LogInv, TypeOK
<1> QED BY <1>2 DEF Overlay

LEMMA ErasureKeeps ==
  ASSUME LogInv, dhead = lh, Homed(Len(lh)), dhead' = <<>>, UNCHANGED <<disk, logblk>>
  PROVE  Overlay' = Overlay /\ Overlay = disk
<1>1. Overlay' = disk
  <2>1. \A b : b \notin Range(dhead')
    BY EmptyRange
  <2> QED BY <2>1, Zenon DEF Overlay, LogInv, TypeOK
<1>2. lh \in Seq(Block) /\ Distinct(lh) /\ disk \in [Block -> Val]
  BY Zenon DEF LogInv, TypeOK, DataInv
<1>3. Overlay = Recovered(lh, disk, logblk)
  BY DEF Overlay, Recovered
<1>4. Overlay = disk
  BY <1>2, <1>3, RecoveredIs DEF Homed
<1> QED BY <1>1, <1>4

(* The steps of a commit: only write_head shows. *)
LEMMA CommitAbstract ==
  ASSUME LogInv, NEW p \in Proc,
         write_log(p) \/ write_head(p) \/ install_trans(p) \/ EraseHead(p)
  PROVE  Abstract
<1>1. /\ pc[p] \in {"write_log", "commit", "install", "erase"} /\ mode' = mode
      /\ \E loc \in InCommit : pc' = [pc EXCEPT ![p] = loc]
  BY Zenon DEF write_log, write_head, install_trans, EraseHead, Goto, InCommit, LogInv, TypeOK
<1>2. mode = "run" /\ Counted = {} /\ CommitInv(p)
  BY <1>1, Alone, Zenon DEF InCommit
<1>3. Mem = cache /\ Mem' = cache'
  BY <1>1, <1>2, Zenon DEF Mem
<1>4. InOp = {} /\ InOp' = {}
  <2>1. InOp = {}
    BY <1>2, Zenon DEF InOp, Counted
  <2>2. pc \in [Proc -> Locations]
    BY Zenon DEF LogInv, TypeOK, Locations
  <2> QED BY <1>1, <2>1, <2>2, Zenon DEF InOp, InCommit
<1>5. ASSUME write_log(p) PROVE Abstract
  <2>1. dhead = <<>> /\ UNCHANGED <<disk, dhead, cache>>
    BY <1>2, <1>5, Zenon DEF write_log, CommitInv
  <2>2. Overlay' = Overlay
    BY <2>1, EmptyRange, Zenon DEF Overlay
  <2> QED BY <1>3, <1>4, <2>1, <2>2 DEF Abstract
<1>6. ASSUME write_head(p) PROVE Abstract
  <2>1. dhead' = lh /\ Logged(Len(lh)) /\ OthersClean /\ UNCHANGED <<disk, logblk, cache>>
    BY <1>2, <1>6, Zenon DEF write_head, Goto, CommitInv
  <2>2. lh \in Seq(Block) /\ Distinct(lh) /\ cache \in [Block -> Val]
    BY Zenon DEF LogInv, TypeOK, DataInv
  <2>3. Overlay' = Recovered(lh, disk, logblk)
    BY <2>1 DEF Overlay, Recovered
  <2>4. Overlay' = cache
    <3>1. /\ \A i \in 1..Len(lh) : logblk[i] = cache[lh[i]]
          /\ \A b \in Block : b \notin Range(lh) => cache[b] = disk[b]
      BY <2>1, Zenon DEF Logged, OthersClean
    <3>2. Recovered(lh, disk, logblk) = cache
      BY <2>2, <3>1, RecoveredIs
    <3> QED BY <2>3, <3>2, Zenon
  <2>5. A!Commit
    BY <1>3, <1>4, <2>1, <2>4 DEF A!Commit
  <2> QED BY <2>5, Zenon DEF Abstract, A!Next
<1>7. ASSUME install_trans(p) PROVE Abstract
  <2>1. /\ dhead = lh /\ tail < Len(lh) /\ Homed(tail) /\ InstallBlock /\ UNCHANGED <<logblk, dhead>>
        /\ cache' = cache
    BY <1>2, <1>7, InstallTransInv, Zenon DEF install_trans, CommitInv
  <2>2. Overlay' = Overlay
    BY <2>1, InstallKeeps, Zenon
  <2> QED BY <1>3, <1>4, <2>1, <2>2 DEF Abstract
<1>8. ASSUME EraseHead(p) PROVE Abstract
  <2>1. /\ dhead = lh /\ Logged(Len(lh)) /\ disk = cache
        /\ dhead' = <<>> /\ UNCHANGED <<disk, logblk, cache>>
    BY <1>2, <1>8, Zenon DEF EraseHead, Goto, CommitInv
  <2>2. Homed(Len(lh))
    BY <2>1, Zenon DEF Homed, Logged
  <2>3. Overlay' = Overlay
    BY <2>1, <2>2, ErasureKeeps, Zenon
  <2> QED BY <1>3, <1>4, <2>1, <2>3 DEF Abstract
<1> QED BY <1>5, <1>6, <1>7, <1>8

(* A crash, and the recovery that nobody sees. *)
LEMMA RecoveryAbstract == ASSUME LogInv, Crash \/ Recover PROVE Abstract
<1>1. ASSUME Crash PROVE Abstract
  <2>1. mode' # "run" /\ UNCHANGED <<disk, logblk, dhead>> /\ pc' = [q \in Proc |-> "idle"]
    BY <1>1, Zenon DEF Crash, diskVars
  <2>2. Overlay' = Overlay /\ Mem' = Overlay /\ InOp' = {}
    BY <2>1 DEF Overlay, Mem, InOp
  <2>3. A!Crash
    BY <2>2 DEF A!Crash
  <2> QED BY <2>3 DEF Abstract, A!Next
<1>2. ASSUME Recover PROVE mode # "run" /\ RecoverInv /\ Mem = Overlay /\ InOp' = InOp
  <2>1. mode # "run" /\ UNCHANGED pc
    BY <1>2, Zenon DEF Recover, read_head, RecoverInstall, RecoverErase
  <2> QED BY <2>1, Recovering, Zenon DEF Mem, InOp
<1>3. ASSUME read_head PROVE Abstract
  <2>1. mode' # "run" /\ UNCHANGED <<disk, logblk, dhead>>
    BY <1>3, Zenon DEF read_head, diskVars
  <2>2. Overlay' = Overlay /\ Mem' = Overlay'
    BY <2>1 DEF Overlay, Mem
  <2> QED BY <1>2, <1>3, <2>2 DEF Abstract, Recover
<1>4. ASSUME RecoverInstall PROVE Abstract
  <2>1. /\ mode' # "run" /\ dhead = lh /\ tail < Len(lh) /\ Homed(tail) /\ InstallBlock
        /\ UNCHANGED <<logblk, dhead>>
    BY <1>2, <1>4, Zenon DEF RecoverInstall, RecoverInv, Recover
  <2>2. Overlay' = Overlay
    BY <2>1, InstallKeeps, Zenon
  <2>3. Mem' = Overlay'
    BY <2>1 DEF Mem
  <2> QED BY <1>2, <1>4, <2>2, <2>3 DEF Abstract, Recover
<1>5. ASSUME RecoverErase PROVE Abstract
  <2>1. /\ mode' = "run" /\ dhead = lh /\ Homed(Len(lh)) /\ disk = cache
        /\ dhead' = <<>> /\ UNCHANGED <<disk, logblk, cache>>
    BY <1>2, <1>5, Zenon DEF RecoverErase, RecoverInv, Recover
  <2>2. Overlay' = Overlay /\ Overlay = disk
    BY <2>1, ErasureKeeps, Zenon
  <2>3. Mem' = Overlay
    BY <2>1, <2>2 DEF Mem
  <2> QED BY <1>2, <1>5, <2>2, <2>3 DEF Abstract, Recover
<1> QED BY <1>1, <1>3, <1>4, <1>5 DEF Recover

LEMMA AbstractStep == ASSUME Margin, LogInv, NoPanic, [Next]_vars PROVE Abstract
<1>1. ASSUME NEW p \in Proc, Call(p) \/ Step(p) PROVE Abstract
  BY <1>1, CallsAbstract, CommitAbstract, Zenon DEF Step
<1>2. ASSUME NEW p \in Proc, NEW b \in Block, NEW v \in Val, Modify(p, b, v) PROVE Abstract
  BY <1>2, CallsAbstract
<1>3. ASSUME UNCHANGED vars PROVE Abstract
  BY <1>3 DEF vars, diskVars, Abstract, Mem, Overlay, InOp
<1> QED BY <1>1, <1>2, <1>3, RecoveryAbstract DEF Next

(* For every number of processes and blocks, and any log size that leaves  *)
(* the margin: with begin_op, log_write, end_op and the commit of log.c,   *)
(* a crash at any step, also of a recovery, leaves all the blocks of the   *)
(* system calls of a commit or none of them.                               *)
THEOREM LogIsAtomic == ASSUME Margin PROVE Spec => CrashAtomic
<1>1. CommitAlone => NoPanic
  BY Zenon DEF CommitAlone, NoPanic
<1>2. LogInv /\ NoPanic /\ [Next]_vars => [A!Next]_<<Mem, Overlay, InOp>>
  BY AbstractStep DEF Abstract
<1> QED BY AbstractInit, <1>1, <1>2, LogAlways, CommitsAlone, PTL DEF Spec, CrashAtomic, A!Spec
=============================================================================
