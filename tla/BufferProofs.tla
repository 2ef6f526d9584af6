---------------------------- MODULE BufferProofs ----------------------------
(***************************************************************************)
(* The buffer cache hands out what was last written, loses no wakeup and   *)
(* counts its users, for any number of processes, blocks and buffers, as   *)
(* long as no buffer moves that somebody has a pointer to.                 *)
(***************************************************************************)
EXTENDS BufferCache, FiniteSetTheorems, TLAPS

(* A process with a pointer into the cache, and one that has the lock of   *)
(* the buffer there.                                                       *)
Owning == {"read", "rw", "io", "iowake", "held"}
Pointing == Owning \cup {"lock", "lsleep", "brelse"}

(* The places of a process. *)
States == {"idle", "get", "lock", "lsleep", "read", "rw", "io", "iowake", "held", "brelse", "panic"}

(* A pointer leads to the buffer of the block that its process asked for. *)
PtrInv ==
  \A p \in Proc :
    /\ pc[p] \in Pointing => ptr[p] \in 1..len /\ Buf(p).blk = blk[p]
    /\ pc[p] \notin Pointing => ptr[p] = 0
    /\ pc[p] # "idle" => blk[p] \in Block

(* The buffers of the cache have different blocks and are in use. *)
SlotInv ==
  /\ \A s, t \in 1..len : slot[s].blk = slot[t].blk => s = t
  /\ \A s \in 1..len :
       /\ slot[s].blk \in Block
       /\ slot[s].refcnt = Cardinality(Users(s))
       /\ slot[s].refcnt # 0 \/ slot[s].dirty

(* A buffer is locked by the one process that works with it. *)
OwnerInv ==
  /\ \A p \in Proc :
       /\ pc[p] \in Owning => Buf(p).owner = p
       /\ pc[p] = "lsleep" => Buf(p).owner # None
  /\ \A s \in 1..len : slot[s].owner # None =>
       slot[s].owner \in Proc /\ pc[slot[s].owner] \in Owning /\ ptr[slot[s].owner] = s

(* What was last written is in a dirty buffer, or on the disk. *)
DataInv ==
  /\ \A s \in 1..len :
       /\ slot[s].dirty => slot[s].valid
       /\ slot[s].valid => slot[s].data = latest[slot[s].blk]
       /\ ~slot[s].dirty => disk[slot[s].blk] = latest[slot[s].blk]
  /\ \A b \in Block : (\A s \in 1..len : slot[s].blk # b) => disk[b] = latest[b]

(* What rw and its callers know of the buffer. *)
CallInv ==
  \A p \in Proc :
    /\ pc[p] \in {"rw", "io"} => ~Buf(p).valid \/ Buf(p).dirty
    /\ pc[p] = "iowake" => Buf(p).valid /\ ~Buf(p).dirty
    /\ pc[p] = "held" => Buf(p).valid

(* The queue has the requests of the processes that wait in rw, and the    *)
(* disk works on the first; once it has written, the data are there.       *)
QueueInv ==
  /\ \A i \in 1..Len(queue) : \E p \in Proc : pc[p] = "io" /\ ptr[p] = queue[i]
  /\ \A p \in Proc : pc[p] = "io" => \E i \in 1..Len(queue) : queue[i] = ptr[p]
  /\ \A i, j \in 1..Len(queue) : queue[i] = queue[j] => i = j
  /\ cmd = IF queue = <<>> THEN None ELSE Start(Head(queue))
  /\ irq => cmd # None /\ (cmd.write => disk[cmd.blk] = cmd.data)

(* The pinned buffers: dirty, and not on their way to the disk. *)
Pinned ==
  {s \in 1..len : slot[s].dirty /\ \A q \in Proc : ptr[q] = s => pc[q] \notin {"rw", "io"}}
PinInv == Cardinality(Pinned) <= MaxPinned

BufferInv ==
  TypeOK /\ PtrInv /\ SlotInv /\ OwnerInv /\ DataInv /\ CallInv /\ QueueInv /\ PinInv

-----------------------------------------------------------------------------
LEMMA BufferInitInv == Init => BufferInv
<1> SUFFICES ASSUME Init PROVE BufferInv
  OBVIOUS
<1> USE BufferAssumption DEF Init
<1>1. TypeOK
  <2>1. NewBuffer(None, None) \in Buffer /\ [NewBuffer(None, None) EXCEPT !.refcnt = 0] \in Buffer
    BY Zenon DEF NewBuffer, Buffer
  <2>2. slot \in [Slots -> Buffer] /\ queue \in Seq(Slots)
    BY <2>1
  <2>3. NBUF \in Nat /\ 0 \in 0..NBUF
    OBVIOUS
  <2>4. len \in 0..NBUF
    BY <2>3
  <2> QED BY <2>2, <2>4, Zenon DEF TypeOK
<1>2. PtrInv /\ SlotInv /\ OwnerInv /\ DataInv /\ CallInv
  BY DEF PtrInv, SlotInv, OwnerInv, DataInv, CallInv, Pointing, Owning
<1>3. QueueInv
  BY DEF QueueInv
<1>4. PinInv
  <2>1. Pinned = {}
    BY DEF Pinned
  <2> QED BY <2>1, FS_EmptySet DEF PinInv
<1> QED BY <1>1, <1>2, <1>3, <1>4 DEF BufferInv

-----------------------------------------------------------------------------
(* What a step that leaves part of the state alone leaves true. *)
LEMMA UsersFinite == ASSUME NEW s PROVE IsFiniteSet(Users(s)) /\ Cardinality(Users(s)) \in Nat
BY FS_Subset, FS_CardinalityType, BufferAssumption DEF Users

LEMMA SlotsKept ==
  ASSUME BufferInv, UNCHANGED <<len, ptr>>,
         \A t \in 1..len : /\ slot'[t].blk = slot[t].blk /\ slot'[t].refcnt = slot[t].refcnt
                           /\ slot'[t].refcnt # 0 \/ (slot[t].dirty <=> slot'[t].dirty)
  PROVE  SlotInv'
<1>1. \A t : Users(t)' = Users(t)
  BY DEF Users
<1> QED BY <1>1 DEF BufferInv, SlotInv

LEMMA DataKept ==
  ASSUME BufferInv, UNCHANGED <<len, disk, latest>>,
         \A t \in 1..len : /\ slot'[t].blk = slot[t].blk /\ (slot'[t].valid <=> slot[t].valid)
                           /\ (slot'[t].dirty <=> slot[t].dirty) /\ slot'[t].data = slot[t].data
  PROVE  DataInv'
<1>1. DataInv
  BY DEF BufferInv
<1> QED BY <1>1 DEF DataInv

LEMMA PinsKept ==
  ASSUME BufferInv, Pinned' \subseteq Pinned
  PROVE  PinInv'
<1>1. len \in Nat
  BY BufferAssumption DEF BufferInv, TypeOK
<1>2. IsFiniteSet(Pinned)
  <2>1. IsFiniteSet(1..len)
    BY <1>1, FS_Interval
  <2>2. Pinned \in SUBSET (1..len)
    BY DEF Pinned
  <2> QED BY <2>1, <2>2, FS_Subset, Zenon
<1>3. Cardinality(Pinned') <= Cardinality(Pinned) /\ IsFiniteSet(Pinned')
  BY <1>2, FS_Subset
<1>4. Cardinality(Pinned') \in Nat /\ Cardinality(Pinned) \in Nat
  BY <1>2, <1>3, FS_CardinalityType
<1> QED BY <1>3, <1>4, BufferAssumption DEF PinInv, BufferInv

(* The facts that a step by p leaves alone for everybody else. *)
LEMMA CallKept ==
  ASSUME BufferInv,
         \A q \in Proc : pc'[q] \in {"rw", "io", "iowake", "held"} =>
           /\ pc'[q] = pc[q]
           /\ slot'[ptr'[q]].valid <=> slot[ptr[q]].valid
           /\ slot'[ptr'[q]].dirty <=> slot[ptr[q]].dirty
  PROVE  CallInv'
<1>1. CallInv
  BY Zenon DEF BufferInv
<1> QED BY <1>1, Zenon DEF CallInv, Buf

LEMMA QueueKept ==
  ASSUME BufferInv, UNCHANGED <<queue, disk, cmd, irq>>,
         \A q \in Proc : /\ pc'[q] = "io" <=> pc[q] = "io"
                         /\ pc[q] = "io" => ptr'[q] = ptr[q] /\ Start(ptr[q])' = Start(ptr[q])
  PROVE  QueueInv'
<1>1. QueueInv /\ queue \in Seq(Slots)
  BY Zenon DEF BufferInv, TypeOK
<1>2. queue # <<>> => Head(queue) = queue[1] /\ 1 \in 1..Len(queue)
  BY <1>1
<1>3. queue # <<>> => \E q \in Proc : pc[q] = "io" /\ ptr[q] = queue[1]
  BY <1>1, <1>2, Zenon DEF QueueInv
<1>4. queue # <<>> => Start(Head(queue))' = Start(Head(queue))
  BY <1>2, <1>3
<1>5. /\ queue' = queue /\ disk' = disk /\ cmd' = cmd /\ irq' = irq
      /\ cmd' = IF queue' = <<>> THEN None ELSE Start(Head(queue))'
  BY <1>1, <1>4, Zenon DEF QueueInv
<1>6. /\ \A i \in 1..Len(queue) : \E q \in Proc : pc'[q] = "io" /\ ptr'[q] = queue[i]
      /\ \A q \in Proc : pc'[q] = "io" => \E i \in 1..Len(queue) : queue[i] = ptr'[q]
  BY <1>1 DEF QueueInv
<1>7. /\ \A i, j \in 1..Len(queue) : queue[i] = queue[j] => i = j
      /\ irq => cmd # None /\ (cmd.write => disk[cmd.blk] = cmd.data)
  BY <1>1, Zenon DEF QueueInv
<1> QED BY <1>5, <1>6, <1>7 DEF QueueInv

LEMMA OwnersKept ==
  ASSUME BufferInv, UNCHANGED len,
         \A q \in Proc : /\ pc'[q] \in Owning <=> pc[q] \in Owning
                         /\ pc'[q] = "lsleep" <=> pc[q] = "lsleep"
                         /\ pc[q] \in Owning \cup {"lsleep"} => ptr'[q] = ptr[q],
         \A t \in 1..len : slot'[t].owner = slot[t].owner
  PROVE  OwnerInv'
<1>1. OwnerInv /\ PtrInv
  BY Zenon DEF BufferInv
<1>2. \A q \in Proc : pc[q] \in Owning \cup {"lsleep"} => ptr[q] \in 1..len
  BY <1>1, Zenon DEF PtrInv, Pointing
<1>3. \A q \in Proc : pc[q] \in Owning \cup {"lsleep"} => slot'[ptr'[q]].owner = slot[ptr[q]].owner
  BY <1>2, Zenon
<1>a. \A q \in Proc : /\ pc'[q] \in Owning => Buf(q)'.owner = q
                      /\ pc'[q] = "lsleep" => Buf(q)'.owner # None
  BY <1>1, <1>3, Zenon DEF OwnerInv, Buf
<1>4. \A t \in 1..len : slot[t].owner # None =>
        slot[t].owner \in Proc /\ pc[slot[t].owner] \in Owning /\ ptr[slot[t].owner] = t
  BY <1>1, Zenon DEF OwnerInv
<1>5. ASSUME NEW t \in 1..len, slot[t].owner # None
      PROVE  slot[t].owner \in Proc /\ pc'[slot[t].owner] \in Owning /\ ptr'[slot[t].owner] = t
  BY <1>4, <1>5, Zenon
<1> QED BY <1>5, <1>a, Zenon DEF OwnerInv

-----------------------------------------------------------------------------
(* A step of p that moves nobody's pointer and leaves the buffers alone. *)
LEMMA PcInv ==
  ASSUME BufferInv, NEW p \in Proc, NEW to \in States \ {"io"}, pc[p] # "io",
         pc' = [pc EXCEPT ![p] = to],
         UNCHANGED <<slot, len, queue, disk, cmd, irq, ptr, latest>>,
         blk' \in [Proc -> Block \cup {None}], \A q \in Proc : q # p => blk'[q] = blk[q],
         to \in Pointing <=> pc[p] \in Pointing, to \in Pointing => blk'[p] = blk[p],
         to # "idle" => blk'[p] \in Block,
         to \in Owning <=> pc[p] \in Owning,
         to = "lsleep" => slot[ptr[p]].owner # None,
         to = "rw" => ~slot[ptr[p]].valid \/ slot[ptr[p]].dirty,
         to = "iowake" => slot[ptr[p]].valid /\ ~slot[ptr[p]].dirty,
         to = "held" => slot[ptr[p]].valid,
         pc[p] = "rw" => to = "rw"
  PROVE  BufferInv'
<1>1. TypeOK /\ PtrInv /\ OwnerInv /\ CallInv
  BY Zenon DEF BufferInv
<1>2. pc \in [Proc -> States] /\ pc'[p] = to /\ \A q \in Proc : q # p => pc'[q] = pc[q]
  BY <1>1, Zenon DEF TypeOK, States
<1>3. TypeOK'
  <2>1. pc' \in [Proc -> States]
    BY <1>2, Zenon
  <2> QED BY <1>1, <2>1, Zenon DEF TypeOK, States
<1>4. PtrInv'
  BY <1>1, <1>2, ZenonT(40) DEF PtrInv, Buf
<1>5. OwnerInv'
  <2>1. \A q \in Proc : /\ pc'[q] \in Owning => Buf(q)'.owner = q
                        /\ pc'[q] = "lsleep" => Buf(q)'.owner # None
    <3>1. \A q \in Proc : q # p => /\ pc'[q] \in Owning => slot[ptr[q]].owner = q
                                   /\ pc'[q] = "lsleep" => slot[ptr[q]].owner # None
      BY <1>1, <1>2 DEF OwnerInv, Buf
    <3>2. pc'[p] \in Owning => slot[ptr[p]].owner = p
      BY <1>1, <1>2 DEF OwnerInv, Buf
    <3> QED BY <1>2, <3>1, <3>2, Zenon DEF Buf
  <2>2. \A q \in Proc : pc[q] \in Owning => pc'[q] \in Owning
    BY <1>2, Zenon
  <2> QED BY <1>1, <2>1, <2>2, Zenon DEF OwnerInv
<1>6. CallInv'
  BY <1>1, <1>2, Zenon DEF CallInv, Buf
<1>7. SlotInv' /\ DataInv'
  BY SlotsKept, DataKept, Zenon
<1>8. QueueInv'
  <2>1. \A q \in Proc : pc'[q] = "io" <=> pc[q] = "io"
    BY <1>2, Zenon
  <2>2. \A t : Start(t)' = Start(t)
    BY Zenon DEF Start
  <2> QED BY <2>1, <2>2, QueueKept, Zenon
<1>9. Pinned' \subseteq Pinned
  <2>1. \A q \in Proc : pc[q] \in {"rw", "io"} => pc'[q] \in {"rw", "io"}
    BY <1>2, Zenon
  <2> QED BY <2>1, Zenon DEF Pinned
<1> QED BY <1>3, <1>4, <1>5, <1>6, <1>7, <1>8, <1>9, PinsKept, Zenon DEF BufferInv

LEMMA BreadInv ==
  ASSUME BufferInv, NEW p \in Proc, NEW b \in Block, Bread(p, b)
  PROVE  BufferInv'
<1>1. /\ pc[p] = "idle" /\ pc' = [pc EXCEPT ![p] = "get"] /\ blk' = [blk EXCEPT ![p] = b]
      /\ UNCHANGED <<slot, len, queue, disk, cmd, irq, ptr, latest>>
  BY Zenon DEF Bread, Goto, dev
<1>2. /\ blk' \in [Proc -> Block \cup {None}] /\ blk'[p] = b
      /\ \A q \in Proc : q # p => blk'[q] = blk[q]
  BY <1>1, Zenon DEF BufferInv, TypeOK
<1>3. "get" \in States \ {"io"} /\ "get" \notin Pointing /\ "idle" \notin Pointing
  BY Zenon DEF States, Pointing, Owning
<1> QED BY <1>1, <1>2, <1>3, PcInv, Zenon DEF Pointing

LEMMA ReadInv ==
  ASSUME BufferInv, NEW p \in Proc, Read(p)
  PROVE  BufferInv'
<1> DEFINE to == IF Buf(p).valid THEN "held" ELSE "rw"
<1>1. /\ pc[p] = "read" /\ pc' = [pc EXCEPT ![p] = to]
      /\ UNCHANGED <<slot, len, queue, disk, cmd, irq, blk, ptr, latest>>
  BY Zenon DEF Read, Goto, dev
<1>2. blk \in [Proc -> Block \cup {None}] /\ blk[p] \in Block
  BY <1>1, Zenon DEF BufferInv, TypeOK, PtrInv
<1>3. /\ to \in States \ {"io"} /\ to \in Owning /\ to \in Pointing /\ "read" \in Owning /\ "read" \in Pointing
      /\ to \notin {"lsleep", "iowake"}
  BY Zenon DEF States, Pointing, Owning
<1>4. (to = "rw" => ~slot[ptr[p]].valid) /\ (to = "held" => slot[ptr[p]].valid)
  BY Zenon DEF Buf
<1> HIDE DEF to
<1> QED BY <1>1, <1>2, <1>3, <1>4, PcInv, Zenon

LEMMA RwDoneInv ==
  ASSUME BufferInv, NEW p \in Proc, RwDone(p)
  PROVE  BufferInv'
<1>1. /\ pc[p] = "iowake" /\ pc' = [pc EXCEPT ![p] = "held"]
      /\ UNCHANGED <<slot, len, queue, disk, cmd, irq, blk, ptr, latest>>
  BY Zenon DEF RwDone, Goto, dev, BufferInv, CallInv
<1>2. blk \in [Proc -> Block \cup {None}] /\ blk[p] \in Block /\ slot[ptr[p]].valid
  BY <1>1, Zenon DEF BufferInv, TypeOK, PtrInv, CallInv, Buf
<1>3. /\ "held" \in States \ {"io"} /\ {"held", "iowake"} \subseteq Owning
      /\ {"held", "iowake"} \subseteq Pointing
  BY Zenon DEF States, Pointing, Owning
<1> QED BY <1>1, <1>2, <1>3, PcInv, Zenon

LEMMA LockBufferInv ==
  ASSUME BufferInv, NEW p \in Proc, LockBuffer(p)
  PROVE  BufferInv'
<1> DEFINE s == ptr[p]
<1>1. /\ s \in 1..len /\ pc[p] = "lock" /\ blk[p] \in Block
      /\ UNCHANGED <<len, queue, disk, cmd, irq, blk, ptr, latest>>
      /\ blk \in [Proc -> Block \cup {None}] /\ slot \in [Slots -> Buffer]
  BY Zenon DEF BufferInv, TypeOK, PtrInv, LockBuffer, Pointing, dev
<1>2. CASE slot[s].owner # None
  <2>1. UNCHANGED slot /\ pc' = [pc EXCEPT ![p] = "lsleep"]
    BY <1>2, Zenon DEF LockBuffer, Goto, Buf
  <2>2. /\ "lsleep" \in States \ {"io"} /\ {"lock", "lsleep"} \subseteq Pointing
        /\ "lock" \notin Owning /\ "lsleep" \notin Owning
    BY Zenon DEF States, Pointing, Owning
  <2> QED BY <1>1, <1>2, <2>1, <2>2, PcInv, Zenon
<1>3. CASE slot[s].owner = None
  <2>1. pc' = [pc EXCEPT ![p] = "read"] /\ slot' = [slot EXCEPT ![s].owner = p]
    BY <1>3, Zenon DEF LockBuffer, Goto, Buf
  <2>2. s \in Slots /\ 1..len \subseteq Slots /\ slot[s] \in Buffer
    <3>1. 1..len \subseteq Slots
      BY BufferAssumption DEF BufferInv, TypeOK, Slots
    <3> QED BY <1>1, <3>1, Zenon
  <2>3. /\ slot' \in [Slots -> Buffer] /\ slot'[s].owner = p
        /\ \A t \in 1..len : /\ slot'[t].blk = slot[t].blk /\ slot'[t].valid = slot[t].valid
                             /\ slot'[t].dirty = slot[t].dirty /\ slot'[t].data = slot[t].data
                             /\ slot'[t].refcnt = slot[t].refcnt
                             /\ t # s => slot'[t].owner = slot[t].owner
    <3> DEFINE new == [slot[s] EXCEPT !.owner = p]
    <3>1. /\ new \in Buffer /\ new.refcnt = slot[s].refcnt /\ new.blk = slot[s].blk
          /\ new.valid = slot[s].valid /\ new.dirty = slot[s].dirty /\ new.data = slot[s].data
          /\ new.owner = p
      BY <2>2, Zenon DEF Buffer
    <3>2. slot' = [slot EXCEPT ![s] = new]
      BY <1>1, <2>1, <2>2, Zenon
    <3> HIDE DEF new
    <3> QED BY <1>1, <2>2, <3>1, <3>2, Zenon
  <2>4. /\ pc \in [Proc -> States] /\ pc' \in [Proc -> States]
        /\ pc'[p] = "read" /\ \A q \in Proc : q # p => pc'[q] = pc[q]
    BY <2>1, Zenon DEF BufferInv, TypeOK, States
  <2>5. \A q \in Proc : pc[q] \in Pointing => ptr[q] \in 1..len
    BY Zenon DEF BufferInv, PtrInv
  <2>6. "read" \in Owning /\ "read" \in Pointing /\ "lock" \in Pointing
    BY Zenon DEF Owning, Pointing
  <2>7. TypeOK'
    BY <1>1, <2>3, <2>4, Zenon DEF BufferInv, TypeOK, States
  <2>8. PtrInv'
    <3>1. \A q \in Proc : (pc'[q] \in Pointing <=> pc[q] \in Pointing) /\ (pc'[q] # "idle" <=> pc[q] # "idle")
      BY <1>1, <2>4, <2>6, Zenon
    <3>2. PtrInv /\ \A q \in Proc : pc[q] \in Pointing => slot'[ptr[q]].blk = slot[ptr[q]].blk
      BY <2>3, <2>5, Zenon DEF BufferInv
    <3> QED BY <1>1, <2>5, <3>1, <3>2, Zenon DEF PtrInv, Buf
  <2>9. OwnerInv'
    <3>1. OwnerInv
      BY Zenon DEF BufferInv
    <3>2. \A q \in Proc : pc[q] \in Owning \cup {"lsleep"} => ptr[q] # s /\ q # p /\ ptr[q] \in 1..len
      <4>1. \A q \in Proc : q # None
        BY BufferAssumption, Zenon
      <4>2. \A q \in Proc : pc[q] \in Owning \cup {"lsleep"} => slot[ptr[q]].owner # None
        BY <3>1, <4>1, Zenon DEF OwnerInv, Buf
      <4>3. \A q \in Proc : pc[q] \in Owning \cup {"lsleep"} => q # p /\ pc[q] \in Pointing
        BY <1>1, Zenon DEF Owning, Pointing
      <4> QED BY <1>3, <2>5, <4>2, <4>3, Zenon
    <3>3. \A q \in Proc : /\ pc'[q] \in Owning => Buf(q)'.owner = q
                          /\ pc'[q] = "lsleep" => Buf(q)'.owner # None
      <4>1. \A q \in Proc : pc[q] \in Owning \cup {"lsleep"} => slot'[ptr[q]].owner = slot[ptr[q]].owner
        BY <2>3, <3>2, Zenon
      <4>2. \A q \in Proc : q # p => /\ pc'[q] \in Owning => slot'[ptr[q]].owner = q
                                     /\ pc'[q] = "lsleep" => slot'[ptr[q]].owner # None
        BY <2>4, <3>1, <4>1 DEF OwnerInv, Buf
      <4> QED BY <1>1, <2>3, <2>4, <4>2, Zenon DEF Buf
    <3>4. ASSUME NEW t \in 1..len, slot'[t].owner # None
          PROVE  slot'[t].owner \in Proc /\ pc'[slot'[t].owner] \in Owning /\ ptr[slot'[t].owner] = t
      <4>1. CASE t = s
        BY <2>3, <2>4, <2>6, <4>1, Zenon
      <4>2. CASE t # s
        <5>1. /\ slot'[t].owner = slot[t].owner /\ slot[t].owner \in Proc
              /\ pc[slot[t].owner] \in Owning /\ ptr[slot[t].owner] = t
          BY <2>3, <3>1, <3>4, <4>2, Zenon DEF OwnerInv
        <5> QED BY <2>4, <3>2, <5>1, Zenon
      <4> QED BY <4>1, <4>2, Zenon
    <3> QED BY <1>1, <3>3, <3>4, Zenon DEF OwnerInv
  <2>10. CallInv'
    <3>1. \A q \in Proc : pc'[q] \in {"rw", "io", "iowake", "held"} => pc'[q] = pc[q] /\ pc[q] \in Pointing
      BY <2>4, Zenon DEF Pointing, Owning
    <3> QED BY <1>1, <2>3, <2>5, <3>1, CallKept, Zenon
  <2>11. SlotInv' /\ DataInv'
    BY <1>1, <2>3, SlotsKept, DataKept, Zenon
  <2>12. QueueInv'
    <3>1. \A q \in Proc : (pc'[q] = "io" <=> pc[q] = "io") /\ (pc[q] = "io" => ptr[q] \in 1..len)
      BY <1>1, <2>4, <2>5, Zenon DEF Pointing, Owning
    <3>2. \A t \in 1..len : Start(t)' = Start(t)
      BY <2>3, Zenon DEF Start
    <3> QED BY <1>1, <3>1, <3>2, QueueKept, Zenon
  <2>13. Pinned' \subseteq Pinned
    <3>1. \A q \in Proc : pc[q] \in {"rw", "io"} => pc'[q] \in {"rw", "io"}
      BY <1>1, <2>4, Zenon
    <3> QED BY <1>1, <2>3, <3>1, Zenon DEF Pinned
  <2> QED BY <2>7, <2>8, <2>9, <2>10, <2>11, <2>12, <2>13, PinsKept, Zenon DEF BufferInv
<1> QED BY <1>2, <1>3, Zenon

(* Both ways to write leave a dirty buffer with the new content. *)
Written(p, v, to) ==
  /\ Goto(p, "held", to)
  /\ latest' = [latest EXCEPT ![blk[p]] = v]
  /\ slot' = [slot EXCEPT ![ptr[p]].data = v, ![ptr[p]].dirty = TRUE]
  /\ UNCHANGED <<len, queue, disk, cmd, irq, blk, ptr>>

LEMMA WrittenInv ==
  ASSUME BufferInv, NEW p \in Proc, NEW v \in Val, NEW to \in {"rw", "held"}, Written(p, v, to), PinInv'
  PROVE  BufferInv'
<1> DEFINE s == ptr[p]
<1>0. TypeOK /\ PtrInv /\ OwnerInv /\ CallInv /\ DataInv /\ SlotInv
  BY Zenon DEF BufferInv
<1>1. /\ s \in 1..len /\ pc[p] = "held" /\ slot[s].owner = p
      /\ slot[s].blk = blk[p] /\ blk[p] \in Block /\ slot[s].valid
      /\ UNCHANGED <<len, queue, disk, cmd, irq, blk, ptr>> /\ slot \in [Slots -> Buffer]
  BY <1>0, Zenon DEF TypeOK, PtrInv, OwnerInv, CallInv, Written, Goto, Pointing, Owning, Buf
<1>2. /\ pc' = [pc EXCEPT ![p] = to] /\ latest' = [latest EXCEPT ![blk[p]] = v]
      /\ slot' = [slot EXCEPT ![s].data = v, ![s].dirty = TRUE]
  BY Zenon DEF Written, Goto
<1>3. s \in Slots /\ 1..len \subseteq Slots /\ slot[s] \in Buffer
  <2>1. 1..len \subseteq Slots
    BY <1>0, BufferAssumption DEF TypeOK, Slots
  <2> QED BY <1>1, <2>1, Zenon
<1>4. /\ slot' \in [Slots -> Buffer]
      /\ slot'[s].dirty /\ slot'[s].valid /\ slot'[s].data = v /\ slot'[s].blk = slot[s].blk
      /\ slot'[s].owner = p /\ slot'[s].refcnt = slot[s].refcnt
      /\ \A t \in 1..len : t # s => slot'[t] = slot[t]
  <2> DEFINE new == [slot[s] EXCEPT !.data = v, !.dirty = TRUE]
  <2>1. /\ new \in Buffer /\ new.dirty /\ new.valid = slot[s].valid /\ new.data = v
        /\ new.blk = slot[s].blk /\ new.owner = slot[s].owner /\ new.refcnt = slot[s].refcnt
    BY <1>3, Zenon DEF Buffer
  <2>2. slot' = [slot EXCEPT ![s] = new]
    BY <1>1, <1>2, <1>3, Zenon
  <2> HIDE DEF new
  <2> QED BY <1>1, <1>3, <2>1, <2>2, Zenon
<1>5. \A q \in Proc : q # p /\ ptr[q] = s => pc[q] \notin Owning
  BY <1>0, <1>1, Zenon DEF OwnerInv, Buf
<1>6. /\ pc \in [Proc -> States] /\ pc' \in [Proc -> States]
      /\ pc'[p] = to /\ \A q \in Proc : q # p => pc'[q] = pc[q]
  BY <1>0, <1>2, Zenon DEF TypeOK, States
<1>7. \A q \in Proc : /\ pc'[q] \in Owning <=> pc[q] \in Owning
                      /\ pc'[q] \in Pointing <=> pc[q] \in Pointing
                      /\ pc'[q] = "lsleep" <=> pc[q] = "lsleep"
                      /\ pc'[q] # "idle" <=> pc[q] # "idle"
                      /\ pc'[q] = "io" <=> pc[q] = "io"
                      /\ pc[q] \in Pointing => ptr[q] \in 1..len
  <2>1. {"rw", "held"} \subseteq Owning /\ {"rw", "held"} \subseteq Pointing
    BY Zenon DEF Pointing, Owning
  <2> QED BY <1>0, <1>1, <1>6, <2>1, Zenon DEF PtrInv
<1>8. latest' \in [Block -> Val] /\ latest'[blk[p]] = v /\ \A b \in Block : b # blk[p] => latest'[b] = latest[b]
  BY <1>0, <1>1, <1>2, Zenon DEF TypeOK
<1>9. TypeOK'
  BY <1>0, <1>1, <1>4, <1>6, <1>8, Zenon DEF TypeOK, States
<1>10. \A t \in 1..len : /\ slot'[t].blk = slot[t].blk /\ slot'[t].refcnt = slot[t].refcnt
                         /\ slot'[t].owner = slot[t].owner /\ (slot[t].dirty => slot'[t].dirty)
  BY <1>1, <1>4, Zenon
<1>11. PtrInv'
  <2>1. \A q \in Proc : pc[q] \in Pointing => slot'[ptr[q]].blk = slot[ptr[q]].blk
    BY <1>7, <1>10, Zenon
  <2> QED BY <1>0, <1>1, <1>7, <2>1, Zenon DEF PtrInv, Buf
<1>12. OwnerInv'
  BY <1>1, <1>7, <1>10, OwnersKept, Zenon
<1>13. CallInv'
  <2>1. \A q \in Proc : q # p /\ pc[q] \in Owning => slot'[ptr[q]] = slot[ptr[q]]
    BY <1>4, <1>5, <1>7, Zenon DEF Pointing
  <2>2. \A q \in Proc : q # p => /\ pc'[q] \in {"rw", "io"} => ~Buf(q)'.valid \/ Buf(q)'.dirty
                                 /\ pc'[q] = "iowake" => Buf(q)'.valid /\ ~Buf(q)'.dirty
                                 /\ pc'[q] = "held" => Buf(q)'.valid
    BY <1>0, <1>1, <1>6, <2>1 DEF CallInv, Buf, Owning
  <2>3. Buf(p)'.valid /\ Buf(p)'.dirty /\ pc'[p] # "iowake"
    BY <1>1, <1>4, <1>6, Zenon DEF Buf
  <2> QED BY <2>2, <2>3, Zenon DEF CallInv
<1>14. SlotInv'
  <2>1. \A t : Users(t)' = Users(t)
    BY <1>1, Zenon DEF Users
  <2> QED BY <1>0, <1>1, <1>10, <2>1 DEF SlotInv
<1>15. DataInv'
  <2>1. \A t \in 1..len : t # s => slot[t].blk # blk[p] /\ slot[t].blk \in Block
    BY <1>0, <1>1, Zenon DEF SlotInv
  <2>2. \A t \in 1..len : t # s => /\ slot'[t].dirty => slot'[t].valid
                                   /\ slot'[t].valid => slot'[t].data = latest'[slot'[t].blk]
                                   /\ ~slot'[t].dirty => disk[slot'[t].blk] = latest'[slot'[t].blk]
    BY <1>0, <1>4, <1>8, <2>1 DEF DataInv
  <2>3. ASSUME NEW b \in Block, \A t \in 1..len : slot'[t].blk # b PROVE disk[b] = latest'[b]
    BY <1>0, <1>1, <1>8, <1>10, <2>3 DEF DataInv
  <2>4. slot'[s].valid => slot'[s].data = latest'[slot'[s].blk]
    BY <1>1, <1>4, <1>8, ZenonT(40)
  <2> QED BY <1>1, <1>4, <2>2, <2>3, <2>4, Zenon DEF DataInv
<1>16. QueueInv'
  <2>1. \A q \in Proc : pc[q] = "io" => Start(ptr[q])' = Start(ptr[q])
    <3>1. \A q \in Proc : pc[q] = "io" => q # p /\ ptr[q] # s /\ ptr[q] \in 1..len
      BY <1>1, <1>5, <1>7, Zenon DEF Owning, Pointing
    <3>2. \A q \in Proc : pc[q] = "io" => slot'[ptr[q]] = slot[ptr[q]]
      BY <1>4, <3>1, Zenon
    <3> QED BY <1>1, <3>2, Zenon DEF Start
  <2> QED BY <1>1, <1>7, <2>1, QueueKept, Zenon
<1> QED BY <1>9, <1>11, <1>12, <1>13, <1>14, <1>15, <1>16, Zenon DEF BufferInv

LEMMA BwriteInv ==
  ASSUME BufferInv, NEW p \in Proc, NEW v \in Val, Bwrite(p, v)
  PROVE  BufferInv'
<1> DEFINE s == ptr[p]
<1>1. pc[p] = "held" /\ s \in 1..len /\ is_locked(p) /\ slot \in [Slots -> Buffer] /\ pc \in [Proc -> States]
  BY Zenon DEF BufferInv, TypeOK, PtrInv, OwnerInv, Bwrite, Goto, Pointing, Owning, is_locked, Buf, States
<1>2. /\ pc' = [pc EXCEPT ![p] = "rw"] /\ latest' = [latest EXCEPT ![blk[p]] = v]
      /\ slot' = [slot EXCEPT ![s].data = v, ![s].dirty = TRUE]
      /\ UNCHANGED <<len, queue, disk, cmd, irq, blk, ptr>>
  BY <1>1, Zenon DEF Bwrite, Goto, dev
<1>3. \A t \in 1..len : t # s => slot'[t] = slot[t]
  <2>1. 1..len \subseteq Slots
    BY BufferAssumption DEF BufferInv, TypeOK, Slots
  <2> QED BY <1>1, <1>2, <2>1
<1>4. pc'[p] = "rw" /\ \A q \in Proc : q # p => pc'[q] = pc[q]
  BY <1>1, <1>2, Zenon
<1>5. Pinned' \subseteq Pinned
  BY <1>1, <1>2, <1>3, <1>4, Zenon DEF Pinned
<1>6. PinInv'
  BY <1>5, PinsKept, Zenon
<1>7. Written(p, v, "rw")
  BY <1>1, <1>2, Zenon DEF Written, Goto
<1> QED BY <1>6, <1>7, WrittenInv, Zenon

(* log_write pins no more blocks than a transaction may. *)
LEMMA LogWriteInv ==
  ASSUME BufferInv, NEW p \in Proc, NEW v \in Val, LogWrite(p, v)
  PROVE  BufferInv'
<1> DEFINE s == ptr[p]
           D == {t \in 1..len : slot[t].dirty} \cup {s}
<1>1. /\ s \in 1..len /\ 1..len \subseteq Slots /\ pc[p] = "held" /\ len \in Nat
      /\ slot \in [Slots -> Buffer] /\ slot[s] \in Buffer
  <2>1. pc[p] = "held" /\ s \in 1..len /\ slot \in [Slots -> Buffer]
    BY Zenon DEF BufferInv, TypeOK, PtrInv, LogWrite, Pointing, Owning
  <2>2. 1..len \subseteq Slots /\ len \in Nat
    BY BufferAssumption DEF BufferInv, TypeOK, Slots
  <2> QED BY <2>1, <2>2, Zenon
<1>2. /\ pc' = [pc EXCEPT ![p] = "held"] /\ latest' = [latest EXCEPT ![blk[p]] = v]
      /\ slot' = [slot EXCEPT ![s].data = v, ![s].dirty = TRUE]
      /\ UNCHANGED <<len, queue, disk, cmd, irq, blk, ptr>>
  <2>1. pc \in [Proc -> States] /\ pc' = pc
    BY Zenon DEF LogWrite, BufferInv, TypeOK, States
  <2>2. pc' = [pc EXCEPT ![p] = "held"]
    BY <1>1, <2>1
  <2> QED BY <2>2, Zenon DEF LogWrite, dev
<1>3. \A t \in 1..len : t # s => slot'[t] = slot[t]
  BY <1>1, <1>2
<1>4. PinInv'
  <2>1. Cardinality(D) <= MaxPinned
    BY DEF LogWrite
  <2>2. Pinned' \in SUBSET D
    BY <1>2, <1>3, Zenon DEF Pinned
  <2>3. IsFiniteSet(1..len) /\ D \in SUBSET (1..len)
    BY <1>1, FS_Interval
  <2>4. IsFiniteSet(D)
    BY <2>3, FS_Subset, Zenon
  <2> HIDE DEF D
  <2>5. IsFiniteSet(Pinned') /\ Cardinality(Pinned') <= Cardinality(D)
    BY <2>2, <2>4, FS_Subset
  <2>6. Cardinality(Pinned') \in Nat /\ Cardinality(D) \in Nat
    BY <2>4, <2>5, FS_CardinalityType
  <2> QED BY <2>1, <2>5, <2>6, BufferAssumption DEF PinInv
<1>5. Written(p, v, "held")
  BY <1>1, <1>2 DEF Written, Goto
<1> QED BY <1>4, <1>5, WrittenInv

(* The queue has the pointers of those who wait in rw, each once. *)
LEMMA QueueSlots ==
  ASSUME BufferInv
  PROVE  /\ queue # <<>> => Head(queue) = queue[1] /\ Len(queue) \in Nat \ {0} /\ 1 \in 1..Len(queue)
         /\ Len(queue) \in Nat
         /\ \A i \in 1..Len(queue) : /\ queue[i] \in 1..len /\ queue[i] \in Slots
                                     /\ \E q \in Proc : pc[q] = "io" /\ ptr[q] = queue[i] /\ slot[queue[i]].owner = q
<1>1. queue \in Seq(Slots)
  BY DEF BufferInv, TypeOK
<1>2. Len(queue) \in Nat /\ (queue # <<>> => Head(queue) = queue[1] /\ Len(queue) # 0)
  BY <1>1
<1>3. \A i \in 1..Len(queue) : /\ queue[i] \in 1..len
                               /\ \E q \in Proc : pc[q] = "io" /\ ptr[q] = queue[i] /\ slot[queue[i]].owner = q
  <2>1. \A i \in 1..Len(queue) : \E q \in Proc : pc[q] = "io" /\ ptr[q] = queue[i]
    BY Zenon DEF BufferInv, QueueInv
  <2>2. \A q \in Proc : pc[q] = "io" => ptr[q] \in 1..len /\ slot[ptr[q]].owner = q
    BY Zenon DEF BufferInv, PtrInv, OwnerInv, Pointing, Owning, Buf
  <2> QED BY <2>1, <2>2
<1>4. 1..len \subseteq Slots
  BY BufferAssumption DEF BufferInv, TypeOK, Slots
<1> QED BY <1>2, <1>3, <1>4

LEMMA RwInv ==
  ASSUME BufferInv, NEW p \in Proc, Rw(p)
  PROVE  BufferInv'
<1> DEFINE s == ptr[p]
<1>0. TypeOK /\ PtrInv /\ OwnerInv /\ CallInv /\ SlotInv
  BY Zenon DEF BufferInv
<1>1. /\ s \in Slots /\ s \in 1..len /\ pc[p] = "rw" /\ slot[s].owner = p
      /\ slot[s].blk \in Block /\ slot[s] \in Buffer /\ (~slot[s].valid \/ slot[s].dirty)
      /\ UNCHANGED <<slot, len, disk, irq, blk, ptr, latest>>
  <2>1. /\ s \in 1..len /\ pc[p] = "rw" /\ slot[s].owner = p /\ (~slot[s].valid \/ slot[s].dirty)
        /\ UNCHANGED <<slot, len, disk, irq, blk, ptr, latest>>
    BY <1>0, Zenon DEF PtrInv, OwnerInv, CallInv, Rw, Pointing, Owning, Buf
  <2>2. 1..len \subseteq Slots /\ slot \in [Slots -> Buffer]
    BY <1>0, BufferAssumption DEF TypeOK, Slots
  <2> QED BY <1>0, <2>1, <2>2, Zenon DEF SlotInv
<1>2. /\ pc' = [pc EXCEPT ![p] = "io"] /\ queue' = Append(queue, s)
      /\ cmd' = IF queue = <<>> THEN Start(s) ELSE cmd
  BY <1>1, Zenon DEF Rw, Goto, is_locked, Buf
<1>3. Start(s) \in Command
  BY <1>1 DEF Start, Command, Buffer
<1>a. /\ pc \in [Proc -> States] /\ pc' \in [Proc -> States]
      /\ pc'[p] = "io" /\ \A q \in Proc : q # p => pc'[q] = pc[q]
  BY <1>0, <1>2, Zenon DEF TypeOK, States
<1>4. TypeOK'
  <2>1. queue' \in Seq(Slots) /\ cmd' \in Command \cup {None}
    BY <1>0, <1>1, <1>2, <1>3 DEF TypeOK
  <2> QED BY <1>0, <1>1, <1>a, <2>1, Zenon DEF TypeOK, States
<1>5. PtrInv' /\ OwnerInv' /\ CallInv'
  <2>1. \A q \in Proc : /\ pc'[q] \in Owning <=> pc[q] \in Owning
                        /\ pc'[q] \in Pointing <=> pc[q] \in Pointing
                        /\ pc'[q] = "lsleep" <=> pc[q] = "lsleep"
                        /\ pc'[q] # "idle" <=> pc[q] # "idle"
                        /\ pc'[q] \in {"rw", "io"} <=> pc[q] \in {"rw", "io"}
                        /\ pc'[q] = "iowake" <=> pc[q] = "iowake"
                        /\ pc'[q] = "held" <=> pc[q] = "held"
    <3>1. {"rw", "io"} \subseteq Owning /\ {"rw", "io"} \subseteq Pointing
      BY Zenon DEF Pointing, Owning
    <3> QED BY <1>1, <1>a, <3>1, Zenon
  <2>2. PtrInv'
    BY <1>0, <1>1, <2>1, Zenon DEF PtrInv, Buf
  <2>3. OwnerInv'
    BY <1>1, <2>1, OwnersKept, Zenon
  <2>4. CallInv'
    BY <1>0, <1>1, <2>1, Zenon DEF CallInv, Buf
  <2> QED BY <2>2, <2>3, <2>4, Zenon
<1>6. SlotInv' /\ DataInv'
  BY <1>1, SlotsKept, DataKept, Zenon
<1>7. QueueInv'
  <2>1. /\ Len(queue) \in Nat /\ Len(queue') = Len(queue) + 1 /\ queue'[Len(queue) + 1] = s
        /\ \A i \in 1..Len(queue) : queue'[i] = queue[i]
    BY <1>0, <1>1, <1>2 DEF TypeOK
  <2>2. \A i \in 1..Len(queue) : queue[i] # s
    BY <1>1, QueueSlots
  <2>3. \A i \in 1..Len(queue') : i \in 1..Len(queue) \/ i = Len(queue')
    BY <2>1
  <2>4. \A i \in 1..Len(queue') : \E q \in Proc : pc'[q] = "io" /\ ptr'[q] = queue'[i]
    <3> SUFFICES ASSUME NEW i \in 1..Len(queue') PROVE \E q \in Proc : pc'[q] = "io" /\ ptr'[q] = queue'[i]
      OBVIOUS
    <3>1. CASE i \in 1..Len(queue)
      <4>1. PICK q \in Proc : pc[q] = "io" /\ ptr[q] = queue[i]
        BY <3>1, Zenon DEF BufferInv, QueueInv
      <4> QED BY <1>1, <1>a, <2>1, <3>1, <4>1, Zenon
    <3>2. CASE i = Len(queue')
      BY <1>1, <1>a, <2>1, <3>2, Zenon
    <3> QED BY <2>3, <3>1, <3>2, Zenon
  <2>5. \A q \in Proc : pc'[q] = "io" => \E i \in 1..Len(queue') : queue'[i] = ptr'[q]
    <3> SUFFICES ASSUME NEW q \in Proc, pc'[q] = "io" PROVE \E i \in 1..Len(queue') : queue'[i] = ptr'[q]
      OBVIOUS
    <3>1. CASE q = p
      BY <1>1, <2>1, <3>1
    <3>2. CASE q # p
      <4>1. pc[q] = "io"
        BY <1>a, <3>2, Zenon
      <4>2. PICK i \in 1..Len(queue) : queue[i] = ptr[q]
        BY <4>1, Zenon DEF BufferInv, QueueInv
      <4> QED BY <1>1, <2>1, <4>2
    <3> QED BY <3>1, <3>2
  <2>6. \A i, j \in 1..Len(queue') : queue'[i] = queue'[j] => i = j
    BY <2>1, <2>2, <2>3 DEF BufferInv, QueueInv
  <2>7. /\ queue' # <<>> /\ (irq => queue # <<>>)
        /\ cmd' = (IF queue = <<>> THEN None ELSE Start(Head(queue)))'
    <3>1. Head(queue') = IF queue = <<>> THEN s ELSE Head(queue)
      BY <1>1, <1>2, <2>1 DEF BufferInv, TypeOK
    <3>2. queue' # <<>> /\ (irq => queue # <<>>)
      BY <2>1 DEF BufferInv, QueueInv
    <3>3. \A t : Start(t)' = [blk |-> slot[t].blk, write |-> slot[t].dirty, data |-> slot[t].data]
      BY <1>1 DEF Start
    <3>4. cmd = IF queue = <<>> THEN None ELSE Start(Head(queue))
      BY DEF BufferInv, QueueInv
    <3> QED BY <1>2, <3>1, <3>2, <3>4, <1>1, Zenon DEF Start
  <2>8. irq' => cmd' # None /\ (cmd'.write => disk'[cmd'.blk] = cmd'.data)
    BY <1>1, <1>2, <2>7 DEF BufferInv, QueueInv
  <2> QED BY <2>4, <2>5, <2>6, <2>7, <2>8, <1>1 DEF QueueInv
<1>8. Pinned' \subseteq Pinned
  BY <1>1, <1>a, Zenon DEF Pinned
<1> QED BY <1>4, <1>5, <1>6, <1>7, <1>8, PinsKept, Zenon DEF BufferInv

LEMMA DeviceInv ==
  ASSUME BufferInv, Device
  PROVE  BufferInv'
<1> DEFINE s == Head(queue)
<1>1. /\ cmd # None /\ irq' = TRUE /\ UNCHANGED <<slot, len, queue, cmd, pc, blk, ptr, latest>>
      /\ disk' = IF cmd.write THEN [disk EXCEPT ![cmd.blk] = cmd.data] ELSE disk
  BY DEF Device
<1>2. queue # <<>> /\ cmd = Start(s) /\ cmd \in Command
  BY <1>1, Zenon DEF BufferInv, QueueInv, TypeOK
<1>3. s \in 1..len /\ slot[s] \in Buffer /\ slot[s].blk \in Block
  <2>1. s \in 1..len /\ s \in Slots
    BY <1>2, QueueSlots, Zenon
  <2> QED BY <2>1, Zenon DEF BufferInv, TypeOK, SlotInv
<1>4. cmd.blk = slot[s].blk /\ (cmd.write <=> slot[s].dirty) /\ cmd.data = slot[s].data
  BY <1>2, <1>3 DEF Start, Buffer
<1>5. cmd.write => cmd.data = latest[cmd.blk]
  BY <1>3, <1>4, Zenon DEF BufferInv, DataInv
<1>6. disk' \in [Block -> Val] /\ \A b \in Block : disk'[b] = disk[b] \/ disk'[b] = latest[b]
  <2>1. disk \in [Block -> Val] /\ cmd.blk \in Block /\ cmd.data \in Val
    BY <1>2, Zenon DEF BufferInv, TypeOK, Command
  <2> QED BY <1>1, <1>5, <2>1
<1>7. TypeOK'
  BY <1>1, <1>6, Zenon DEF BufferInv, TypeOK
<1>8. PtrInv' /\ OwnerInv' /\ CallInv'
  BY <1>1, Zenon DEF BufferInv, PtrInv, OwnerInv, CallInv, Buf
<1>9. SlotInv'
  BY <1>1, SlotsKept
<1>10. DataInv'
  <2>1. \A t \in 1..len : slot[t].blk \in Block
    BY DEF BufferInv, SlotInv
  <2>2. DataInv
    BY Zenon DEF BufferInv
  <2> QED BY <1>1, <1>6, <2>1, <2>2 DEF DataInv
<1>11. QueueInv'
  <2>1. \A t : Start(t)' = Start(t)
    BY <1>1 DEF Start
  <2>2. cmd.write => disk'[cmd.blk] = cmd.data
    <3>1. disk \in [Block -> Val] /\ cmd.blk \in Block
      BY <1>2, Zenon DEF BufferInv, TypeOK, Command
    <3> QED BY <1>1, <3>1, Zenon
  <2>3. QueueInv
    BY Zenon DEF BufferInv
  <2> QED BY <1>1, <2>1, <2>2, <2>3, Zenon DEF QueueInv
<1>12. Pinned' \subseteq Pinned
  BY <1>1 DEF Pinned
<1> QED BY <1>7, <1>8, <1>9, <1>10, <1>11, <1>12, PinsKept, Zenon DEF BufferInv

(* The one who waits for the first request wakes up with a buffer that is  *)
(* valid and clean, whichever way the data went.                           *)
LEMMA InterruptHandlerInv ==
  ASSUME BufferInv, InterruptHandler
  PROVE  BufferInv'
<1> DEFINE s == Head(queue)
<1>0. TypeOK /\ PtrInv /\ OwnerInv /\ CallInv /\ SlotInv /\ DataInv /\ QueueInv
  BY Zenon DEF BufferInv
<1>1. /\ irq /\ irq' = FALSE /\ queue # <<>> /\ queue' = Tail(queue)
      /\ slot' = [slot EXCEPT ![s].data = IF slot[s].dirty THEN slot[s].data ELSE disk[cmd.blk],
                              ![s].valid = TRUE, ![s].dirty = FALSE]
      /\ pc' = [q \in Proc |-> IF pc[q] = "io" /\ ptr[q] = s THEN "iowake" ELSE pc[q]]
      /\ cmd' = IF queue' = <<>> THEN None ELSE Start(Head(queue'))
      /\ UNCHANGED <<len, disk, blk, ptr, latest>>
  BY DEF InterruptHandler
<1>2. /\ s \in 1..len /\ s \in Slots /\ 1..len \subseteq Slots /\ slot[s] \in Buffer /\ slot[s].blk \in Block
      /\ s = queue[1] /\ Len(queue) \in Nat \ {0}
  <2>1. /\ s \in 1..len /\ s \in Slots /\ s = queue[1] /\ Len(queue) \in Nat \ {0}
    BY <1>1, QueueSlots, Zenon
  <2>2. 1..len \subseteq Slots /\ slot \in [Slots -> Buffer]
    BY <1>0, BufferAssumption DEF TypeOK, Slots
  <2> QED BY <1>0, <2>1, <2>2, Zenon DEF SlotInv
<1>3. PICK p \in Proc : pc[p] = "io" /\ ptr[p] = s /\ slot[s].owner = p
  <2>1. 1 \in 1..Len(queue)
    BY <1>2
  <2> QED BY <1>2, <2>1, QueueSlots, ZenonT(40)
<1>4. \A q \in Proc : ptr[q] = s /\ pc[q] \in Owning => q = p
  BY <1>0, <1>3, Zenon DEF OwnerInv, Buf
<1>5. /\ cmd = Start(s) /\ cmd.blk = slot[s].blk /\ (cmd.write <=> slot[s].dirty) /\ cmd.data = slot[s].data
      /\ (cmd.write => disk[cmd.blk] = cmd.data)
  BY <1>1, <1>2, Zenon DEF BufferInv, QueueInv, Start, Buffer
<1>6. pc' = [pc EXCEPT ![p] = "iowake"]
  BY <1>1, <1>3, <1>4, Zenon DEF BufferInv, TypeOK, Owning
<1>a. /\ pc \in [Proc -> States] /\ pc' \in [Proc -> States]
      /\ pc'[p] = "iowake" /\ \A q \in Proc : q # p => pc'[q] = pc[q]
  BY <1>0, <1>6, Zenon DEF TypeOK, States
<1>7. /\ slot' \in [Slots -> Buffer] /\ slot'[s].blk = slot[s].blk /\ slot'[s].refcnt = slot[s].refcnt
      /\ slot'[s].owner = slot[s].owner /\ slot'[s].valid /\ ~slot'[s].dirty
      /\ slot'[s].data = IF slot[s].dirty THEN slot[s].data ELSE disk[slot[s].blk]
      /\ \A t \in 1..len : t # s => slot'[t] = slot[t]
  <2> DEFINE d == IF slot[s].dirty THEN slot[s].data ELSE disk[cmd.blk]
             new == [slot[s] EXCEPT !.data = d, !.valid = TRUE, !.dirty = FALSE]
  <2>1. d \in Val /\ slot \in [Slots -> Buffer]
    BY <1>2, <1>5, Zenon DEF BufferInv, TypeOK, Buffer
  <2>2. /\ new \in Buffer /\ new.blk = slot[s].blk /\ new.refcnt = slot[s].refcnt
        /\ new.owner = slot[s].owner /\ new.valid /\ ~new.dirty /\ new.data = d
    BY <1>2, <2>1, Zenon DEF Buffer
  <2>3. slot' = [slot EXCEPT ![s] = new]
    BY <1>1, <1>2, <2>1, Zenon DEF Buffer
  <2> HIDE DEF new
  <2> QED BY <1>2, <1>5, <2>1, <2>2, <2>3, Zenon
<1>8. \A t \in 1..len : slot'[t].blk = slot[t].blk /\ slot'[t].refcnt = slot[t].refcnt /\ slot'[t].owner = slot[t].owner
  BY <1>2, <1>7
<1>9. /\ Len(queue') \in Nat /\ Len(queue') = Len(queue) - 1 /\ queue' \in Seq(Slots)
      /\ \A i \in 1..Len(queue') : queue'[i] = queue[i + 1] /\ i + 1 \in 1..Len(queue)
      /\ (queue' # <<>> => Head(queue') = queue'[1] /\ 1 \in 1..Len(queue'))
  <2>1. queue \in Seq(Slots)
    BY <1>0, Zenon DEF TypeOK
  <2> QED BY <1>1, <1>2, <2>1
<1>10. \A i \in 1..Len(queue') : queue'[i] # s /\ queue'[i] \in 1..len
  <2>1. \A i, j \in 1..Len(queue) : queue[i] = queue[j] => i = j
    BY <1>0, Zenon DEF QueueInv
  <2>2. 1 \in 1..Len(queue)
    BY <1>2
  <2>3. \A i \in 1..Len(queue') : i + 1 # 1
    OBVIOUS
  <2> QED BY <1>2, <1>9, <2>1, <2>2, <2>3, QueueSlots
<1>11. TypeOK'
  <2>1. cmd' \in Command \cup {None}
    <3>1. CASE queue' = <<>>
      BY <1>1, <3>1
    <3>2. CASE queue' # <<>>
      <4>1. Head(queue') \in 1..len
        BY <1>9, <1>10, <3>2
      <4>2. slot[Head(queue')] \in Buffer /\ slot[Head(queue')].blk \in Block
        BY <1>0, <1>2, <4>1, Zenon DEF TypeOK, SlotInv
      <4>3. Start(Head(queue')) \in Command
        BY <4>2 DEF Start, Command, Buffer
      <4> QED BY <1>1, <3>2, <4>3
    <3> QED BY <3>1, <3>2
  <2>2. UNCHANGED <<len, disk, blk, ptr, latest>> /\ irq' = FALSE
    BY <1>1
  <2> QED BY <1>0, <1>7, <1>9, <1>a, <2>1, <2>2, Zenon DEF TypeOK, States
<1>12. UNCHANGED <<len, disk, blk, ptr, latest>>
  BY <1>1
<1>b. \A q \in Proc : /\ pc'[q] \in Owning <=> pc[q] \in Owning
                      /\ pc'[q] \in Pointing <=> pc[q] \in Pointing
                      /\ pc'[q] = "lsleep" <=> pc[q] = "lsleep"
                      /\ pc'[q] # "idle" <=> pc[q] # "idle"
                      /\ pc[q] \in Pointing => ptr[q] \in 1..len
  <2>1. {"io", "iowake"} \subseteq Owning /\ {"io", "iowake"} \subseteq Pointing
    BY Zenon DEF Pointing, Owning
  <2> QED BY <1>0, <1>3, <1>a, <2>1, Zenon DEF PtrInv
<1>13. PtrInv'
  <2>1. \A q \in Proc : pc[q] \in Pointing => slot'[ptr[q]].blk = slot[ptr[q]].blk
    BY <1>8, <1>b, Zenon
  <2> QED BY <1>0, <1>12, <1>b, <2>1, Zenon DEF PtrInv, Buf
<1>14. OwnerInv'
  BY <1>8, <1>12, <1>b, OwnersKept, Zenon
<1>15. CallInv'
  <2>1. \A q \in Proc : q # p /\ pc[q] \in Owning => slot'[ptr[q]] = slot[ptr[q]]
    BY <1>4, <1>7, <1>b, Zenon DEF Pointing
  <2>2. \A q \in Proc : q # p => /\ pc'[q] \in {"rw", "io"} => ~Buf(q)'.valid \/ Buf(q)'.dirty
                                 /\ pc'[q] = "iowake" => Buf(q)'.valid /\ ~Buf(q)'.dirty
                                 /\ pc'[q] = "held" => Buf(q)'.valid
    BY <1>0, <1>12, <1>a, <2>1 DEF CallInv, Buf, Owning
  <2>3. Buf(p)'.valid /\ ~Buf(p)'.dirty /\ pc'[p] = "iowake"
    BY <1>3, <1>7, <1>12, <1>a, Zenon DEF Buf
  <2> QED BY <2>2, <2>3, Zenon DEF CallInv
<1>16. SlotInv'
  <2>1. p \in Users(s)
    BY <1>3, Zenon DEF Users
  <2>2. slot[s].refcnt = Cardinality(Users(s))
    BY <1>0, <1>2, Zenon DEF SlotInv
  <2>3. slot[s].refcnt # 0
    BY <2>1, <2>2, UsersFinite, FS_EmptySet
  <2>4. \A t \in 1..len : slot'[t].refcnt # 0 \/ (slot[t].dirty <=> slot'[t].dirty)
    BY <1>7, <2>3
  <2> QED BY <1>8, <1>12, <2>4, SlotsKept, Zenon
<1>17. DataInv'
  <2>1. slot'[s].data = latest[slot[s].blk] /\ disk[slot[s].blk] = latest[slot[s].blk]
    BY <1>2, <1>5, <1>7, Zenon DEF BufferInv, DataInv
  <2>2. \A t \in 1..len : t # s => /\ slot'[t].dirty => slot'[t].valid
                                   /\ slot'[t].valid => slot'[t].data = latest[slot'[t].blk]
                                   /\ ~slot'[t].dirty => disk[slot'[t].blk] = latest[slot'[t].blk]
    BY <1>0, <1>7 DEF DataInv
  <2>3. ASSUME NEW b \in Block, \A t \in 1..len : slot'[t].blk # b PROVE disk[b] = latest[b]
    BY <1>0, <1>8, <2>3 DEF DataInv
  <2>4. /\ slot'[s].valid => slot'[s].data = latest[slot'[s].blk]
        /\ ~slot'[s].dirty => disk[slot'[s].blk] = latest[slot'[s].blk]
    BY <1>2, <1>8, <2>1
  <2> QED BY <1>7, <1>12, <2>2, <2>3, <2>4, Zenon DEF DataInv
<1>18. QueueInv'
  <2>1. \A i \in 1..Len(queue') : \E q \in Proc : pc'[q] = "io" /\ ptr'[q] = queue'[i]
    <3> SUFFICES ASSUME NEW i \in 1..Len(queue') PROVE \E q \in Proc : pc'[q] = "io" /\ ptr'[q] = queue'[i]
      OBVIOUS
    <3>1. PICK q \in Proc : pc[q] = "io" /\ ptr[q] = queue[i + 1]
      BY <1>0, <1>9, Zenon DEF QueueInv
    <3>2. q # p
      BY <1>3, <1>9, <1>10, <3>1
    <3> QED BY <1>9, <1>12, <1>a, <3>1, <3>2
  <2>2. \A q \in Proc : pc'[q] = "io" => \E i \in 1..Len(queue') : queue'[i] = ptr'[q]
    <3> SUFFICES ASSUME NEW q \in Proc, pc'[q] = "io" PROVE \E i \in 1..Len(queue') : queue'[i] = ptr'[q]
      OBVIOUS
    <3>1. q # p /\ pc[q] = "io"
      BY <1>a, Zenon
    <3>2. PICK i \in 1..Len(queue) : queue[i] = ptr[q]
      BY <1>0, <3>1, Zenon DEF QueueInv
    <3>3. i # 1
      BY <1>2, <1>4, <3>1, <3>2 DEF Owning
    <3>4. i - 1 \in 1..Len(queue') /\ (i - 1) + 1 = i
      BY <1>2, <1>9, <3>3
    <3> QED BY <1>9, <1>12, <3>2, <3>4, Zenon
  <2>3. \A i, j \in 1..Len(queue') : queue'[i] = queue'[j] => i = j
    <3> SUFFICES ASSUME NEW i \in 1..Len(queue'), NEW j \in 1..Len(queue'), queue'[i] = queue'[j] PROVE i = j
      OBVIOUS
    <3>1. i + 1 \in 1..Len(queue) /\ j + 1 \in 1..Len(queue) /\ queue[i + 1] = queue[j + 1]
      BY <1>9
    <3>2. \A m, n \in 1..Len(queue) : queue[m] = queue[n] => m = n
      BY <1>0, Zenon DEF QueueInv
    <3>3. i + 1 = j + 1
      BY <3>1, <3>2
    <3> QED BY <3>3
  <2>4. queue' # <<>> => slot'[Head(queue')] = slot[Head(queue')]
    BY <1>7, <1>9, <1>10
  <2>5. cmd' = (IF queue = <<>> THEN None ELSE Start(Head(queue)))'
    BY <1>1, <2>4, Zenon DEF Start
  <2>6. irq' = FALSE
    BY <1>1
  <2> QED BY <2>1, <2>2, <2>3, <2>5, <2>6 DEF QueueInv
<1>19. Pinned' \subseteq Pinned
  <2>1. \A q \in Proc : q # p => (pc'[q] \in {"rw", "io"} <=> pc[q] \in {"rw", "io"})
    BY <1>a, Zenon
  <2>2. \A t \in 1..len : slot'[t].dirty => t # s /\ slot[t].dirty
    BY <1>7, Zenon
  <2> QED BY <1>3, <1>12, <2>1, <2>2 DEF Pinned
<1> QED BY <1>11, <1>13, <1>14, <1>15, <1>16, <1>17, <1>18, <1>19, PinsKept, Zenon DEF BufferInv

LEMMA BrelseInv ==
  ASSUME BufferInv, NEW p \in Proc, Brelse(p)
  PROVE  BufferInv'
<1> DEFINE s == ptr[p]
<1>0. TypeOK /\ PtrInv /\ OwnerInv
  BY Zenon DEF BufferInv
<1>1. /\ s \in Slots /\ s \in 1..len /\ 1..len \subseteq Slots /\ pc[p] = "held" /\ slot[s].owner = p
      /\ slot[s] \in Buffer /\ UNCHANGED <<len, queue, disk, cmd, irq, blk, ptr, latest>>
  <2>1. /\ s \in 1..len /\ pc[p] = "held" /\ slot[s].owner = p
        /\ UNCHANGED <<len, queue, disk, cmd, irq, blk, ptr, latest>>
    BY <1>0, Zenon DEF PtrInv, OwnerInv, Brelse, Pointing, Owning, dev, Buf
  <2>2. 1..len \subseteq Slots /\ slot \in [Slots -> Buffer]
    BY <1>0, BufferAssumption DEF TypeOK, Slots
  <2> QED BY <2>1, <2>2, Zenon
<1>2. /\ slot' = [slot EXCEPT ![s].owner = None]
      /\ pc' = [q \in Proc |-> CASE q = p -> "brelse"
                                 [] pc[q] = "lsleep" /\ ptr[q] = s -> "lock"
                                 [] OTHER -> pc[q]]
  BY <1>1, Zenon DEF Brelse, is_locked, Buf
<1>3. /\ pc'[p] = "brelse"
      /\ \A q \in Proc : q # p => pc'[q] = IF pc[q] = "lsleep" /\ ptr[q] = s THEN "lock" ELSE pc[q]
  <2> SUFFICES ASSUME NEW q \in Proc
               PROVE  /\ q = p => pc'[q] = "brelse"
                      /\ q # p /\ pc[q] = "lsleep" /\ ptr[q] = s => pc'[q] = "lock"
                      /\ q # p /\ ~(pc[q] = "lsleep" /\ ptr[q] = s) => pc'[q] = pc[q]
    BY Zenon
  <2>1. pc'[q] = CASE q = p -> "brelse" [] pc[q] = "lsleep" /\ ptr[q] = s -> "lock" [] OTHER -> pc[q]
    BY <1>2
  <2>2. q = p => pc[q] # "lsleep"
    BY <1>1
  <2> QED BY <2>1, <2>2
<1>4. slot \in [Slots -> Buffer] /\ pc \in [Proc -> States]
  BY <1>0, Zenon DEF TypeOK, States
<1>5. /\ slot' \in [Slots -> Buffer] /\ slot'[s].owner = None
      /\ \A t \in 1..len : /\ slot'[t].blk = slot[t].blk /\ slot'[t].valid = slot[t].valid
                           /\ slot'[t].dirty = slot[t].dirty /\ slot'[t].data = slot[t].data
                           /\ slot'[t].refcnt = slot[t].refcnt
                           /\ t # s => slot'[t].owner = slot[t].owner
  <2> DEFINE new == [slot[s] EXCEPT !.owner = None]
  <2>1. /\ new \in Buffer /\ new.refcnt = slot[s].refcnt /\ new.blk = slot[s].blk
        /\ new.valid = slot[s].valid /\ new.dirty = slot[s].dirty /\ new.data = slot[s].data
        /\ new.owner = None
    BY <1>1, Zenon DEF Buffer
  <2>2. slot' = [slot EXCEPT ![s] = new]
    BY <1>1, <1>2, <1>4, Zenon
  <2> HIDE DEF new
  <2> QED BY <1>1, <1>4, <2>1, <2>2, Zenon
<1>6. \A q \in Proc : q # p /\ ptr[q] = s => pc[q] \notin Owning
  BY <1>1, Zenon DEF BufferInv, OwnerInv, Buf
<1>a. \A q \in Proc : /\ pc'[q] \in Owning <=> q # p /\ pc[q] \in Owning
                      /\ pc'[q] \in Owning => pc'[q] = pc[q]
                      /\ pc'[q] \in Pointing <=> pc[q] \in Pointing
                      /\ pc'[q] = "lsleep" => q # p /\ pc[q] = "lsleep" /\ ptr[q] # s
                      /\ pc'[q] # "idle" <=> pc[q] # "idle"
                      /\ pc[q] \in Pointing => ptr[q] \in 1..len
                      /\ pc'[q] \in States
  BY <1>0, <1>1, <1>3, <1>4 DEF Pointing, Owning, States, PtrInv
<1>7. TypeOK'
  <2>1. pc' \in [Proc -> States]
    BY <1>2, <1>a, Zenon
  <2> QED BY <1>0, <1>1, <1>5, <2>1, Zenon DEF TypeOK, States
<1>8. PtrInv'
  <2>1. \A q \in Proc : pc[q] \in Pointing => slot'[ptr[q]].blk = slot[ptr[q]].blk
    BY <1>5, <1>a, Zenon
  <2> QED BY <1>0, <1>1, <1>a, <2>1, Zenon DEF PtrInv, Buf
<1>9. OwnerInv'
  <2>1. \A q \in Proc : (pc'[q] \in Owning \cup {"lsleep"}) => slot'[ptr[q]].owner = slot[ptr[q]].owner
    BY <1>5, <1>6, <1>a, Zenon DEF Pointing
  <2>2. \A q \in Proc : /\ pc'[q] \in Owning => Buf(q)'.owner = q
                        /\ pc'[q] = "lsleep" => Buf(q)'.owner # None
    BY <1>0, <1>1, <1>a, <2>1 DEF OwnerInv, Buf
  <2>3. ASSUME NEW t \in 1..len, slot'[t].owner # None
        PROVE  slot'[t].owner \in Proc /\ pc'[slot'[t].owner] \in Owning /\ ptr[slot'[t].owner] = t
    <3>1. t # s /\ slot'[t].owner = slot[t].owner
      BY <1>5, <2>3, Zenon
    <3>2. slot[t].owner \in Proc /\ pc[slot[t].owner] \in Owning /\ ptr[slot[t].owner] = t
      BY <1>0, <2>3, <3>1, Zenon DEF OwnerInv
    <3>3. slot[t].owner # p
      BY <3>1, <3>2, Zenon
    <3> QED BY <1>a, <3>1, <3>2, <3>3, Zenon
  <2> QED BY <1>1, <2>2, <2>3, Zenon DEF OwnerInv
<1>10. CallInv'
  <2>1. \A q \in Proc : pc'[q] \in {"rw", "io", "iowake", "held"} => pc'[q] = pc[q] /\ ptr[q] \in 1..len
    BY <1>a, Zenon DEF Pointing, Owning
  <2> QED BY <1>1, <1>5, <2>1, CallKept, Zenon
<1>11. SlotInv' /\ DataInv'
  BY <1>1, <1>5, SlotsKept, DataKept, Zenon
<1>12. QueueInv'
  <2>1. \A q \in Proc : (pc'[q] = "io" <=> pc[q] = "io") /\ (pc[q] = "io" => ptr[q] \in 1..len)
    BY <1>1, <1>3, <1>a, Zenon DEF Pointing, Owning
  <2>2. \A t \in 1..len : Start(t)' = Start(t)
    BY <1>5, Zenon DEF Start
  <2> QED BY <1>1, <2>1, <2>2, QueueKept, Zenon
<1>13. Pinned' \subseteq Pinned
  BY <1>1, <1>3, <1>5, Zenon DEF Pinned
<1> QED BY <1>7, <1>8, <1>9, <1>10, <1>11, <1>12, <1>13, PinsKept, Zenon DEF BufferInv

-----------------------------------------------------------------------------

(* retain removes nothing: what nobody needed has gone already. *)
LEMMA RetainedAll ==
  ASSUME BufferInv
  PROVE  kept = len /\ Retained = slot
<1>1. len \in Nat /\ slot \in [Slots -> Buffer] /\ 1..len \subseteq Slots
  BY BufferAssumption DEF BufferInv, TypeOK, Slots
<1>2. Kept = 1..len
  BY Zenon DEF Kept, BufferInv, SlotInv
<1>3. \A t \in Nat : Cardinality(1..t) = t
  BY FS_Interval
<1>4. kept = len
  BY <1>1, <1>2, <1>3 DEF kept
<1>5. \A t \in 1..len : Kept \cap 1..t = 1..t
  BY <1>1, <1>2
<1>6. ASSUME NEW s \in Slots, s <= kept
      PROVE  (CHOOSE t \in Kept : Cardinality(Kept \cap 1..t) = s) = s
  <2>1. s \in Kept
    BY <1>1, <1>2, <1>4, <1>6, BufferAssumption DEF Slots
  <2>2. ASSUME NEW t \in Kept PROVE Cardinality(Kept \cap 1..t) = t
    <3>1. t \in 1..len /\ t \in Nat
      BY <1>1, <1>2
    <3>2. Kept \cap 1..t = 1..t
      BY <1>5, <3>1
    <3> QED BY <1>3, <3>1, <3>2, Zenon
  <2>3. \A t \in Kept : Cardinality(Kept \cap 1..t) = s <=> t = s
    BY <2>2
  <2> QED BY <2>1, <2>3
<1>7. Retained = [s \in Slots |-> slot[s]]
  <2>1. \A s \in Slots : s <= kept => slot[CHOOSE t \in Kept : Cardinality(Kept \cap 1..t) = s] = slot[s]
    BY <1>6, Zenon
  <2> QED BY <2>1, Zenon DEF Retained
<1> QED BY <1>1, <1>4, <1>7

(* A block is found in one place. *)
LEMMA FoundAt ==
  ASSUME BufferInv, NEW s \in 1..len, NEW b, slot[s].blk = b
  PROVE  {t \in 1..len : slot[t].blk = b} = {s} /\ Min({s}) = s
<1>1. {t \in 1..len : slot[t].blk = b} = {s}
  BY DEF BufferInv, SlotInv
<1>2. s \in Int
  OBVIOUS
<1> QED BY <1>1, <1>2 DEF Min

(* A pointer, if there is one, leads into the cache. *)
LEMMA Pointers ==
  ASSUME BufferInv
  PROVE  /\ \A q \in Proc : ptr[q] \in 1..len \cup {0}
         /\ \A q \in Proc : ptr[q] # 0 <=> pc[q] \in Pointing
         /\ 0 \notin 1..len
BY DEF BufferInv, PtrInv

(* The operation in terms of the state before it, one case a name. *)
GetFound(p, s) ==
  /\ pc[p] = "get" /\ slot[s].blk = blk[p] /\ len' = len
  /\ slot' = [slot EXCEPT ![s].refcnt = @ + 1]
  /\ ptr' = [ptr EXCEPT ![p] = s] /\ pc' = [pc EXCEPT ![p] = "lock"]
  /\ UNCHANGED <<queue, disk, cmd, irq, blk, latest>>

GetNew(p) ==
  /\ pc[p] = "get" /\ len < NBUF /\ len' = len + 1
  /\ \A t \in 1..len : slot[t].blk # blk[p]
  /\ slot' = [slot EXCEPT ![len + 1] = NewBuffer(blk[p], p)]
  /\ ptr' = [ptr EXCEPT ![p] = len + 1] /\ pc' = [pc EXCEPT ![p] = "read"]
  /\ UNCHANGED <<queue, disk, cmd, irq, blk, latest>>

GetPanics(p) ==
  /\ pc[p] = "get" /\ len = NBUF
  /\ pc' = [pc EXCEPT ![p] = "panic"]
  /\ UNCHANGED <<slot, len, ptr, queue, disk, cmd, irq, blk, latest>>

LEMMA GetCases ==
  ASSUME BufferInv, NEW p \in Proc, Get(p)
  PROVE  (\E s \in 1..len : GetFound(p, s)) \/ GetNew(p) \/ GetPanics(p)
<1> DEFINE F == {s \in 1..len : slot[s].blk = blk[p]}
<1>1. kept = len /\ Retained = slot /\ len \in Nat /\ len <= NBUF /\ NBUF \in Nat
  BY RetainedAll, BufferAssumption DEF BufferInv, TypeOK
<1>2. /\ pc[p] = "get"
      /\ \/ /\ F # {} /\ slot' = [slot EXCEPT ![Min(F)].refcnt = @ + 1] /\ len' = len
            /\ ptr' = [ptr EXCEPT ![p] = Min(F)] /\ pc' = [pc EXCEPT ![p] = "lock"]
         \/ /\ F = {} /\ len + 1 <= NBUF /\ slot' = [slot EXCEPT ![len + 1] = NewBuffer(blk[p], p)]
            /\ len' = len + 1
            /\ ptr' = [ptr EXCEPT ![p] = len + 1] /\ pc' = [pc EXCEPT ![p] = "read"]
         \/ F = {} /\ len + 1 > NBUF /\ pc' = [pc EXCEPT ![p] = "panic"] /\ UNCHANGED <<slot, len, ptr>>
      /\ UNCHANGED <<queue, disk, cmd, irq, blk, latest>>
  BY <1>1 DEF Get, Goto, dev
<1>3. CASE F # {}
  <2>1. PICK s \in 1..len : slot[s].blk = blk[p]
    BY <1>3
  <2>2. Min(F) = s
    BY <2>1, FoundAt, Zenon
  <2> HIDE DEF F
  <2> QED BY <1>2, <1>3, <2>1, <2>2 DEF GetFound
<1>4. CASE F = {}
  <2>1. \A t \in 1..len : slot[t].blk # blk[p]
    BY <1>4
  <2> HIDE DEF F
  <2> QED BY <1>1, <1>2, <1>4, <2>1 DEF GetNew, GetPanics
<1> QED BY <1>3, <1>4

LEMMA GetFoundInv ==
  ASSUME BufferInv, NEW p \in Proc, NEW s \in 1..len, GetFound(p, s)
  PROVE  BufferInv'
<1>0. TypeOK /\ PtrInv /\ OwnerInv /\ SlotInv
  BY Zenon DEF BufferInv
<1>1. /\ s \in Slots /\ 1..len \subseteq Slots /\ pc[p] = "get" /\ slot[s].blk = blk[p] /\ ptr[p] = 0
      /\ slot[s] \in Buffer /\ slot \in [Slots -> Buffer] /\ slot[s].refcnt \in Nat
      /\ UNCHANGED <<len, queue, disk, cmd, irq, blk, latest>>
  <2>1. 1..len \subseteq Slots /\ slot \in [Slots -> Buffer]
    BY <1>0, BufferAssumption DEF TypeOK, Slots
  <2>2. s \in Slots /\ slot[s] \in Buffer
    BY <2>1
  <2>3. slot[s].refcnt \in Nat
    BY <2>2 DEF Buffer
  <2>4. pc[p] = "get" /\ slot[s].blk = blk[p] /\ UNCHANGED <<len, queue, disk, cmd, irq, blk, latest>>
    BY DEF GetFound
  <2>5. ptr[p] = 0
    BY <2>4, Pointers, Zenon DEF Pointing, Owning
  <2> QED BY <2>1, <2>2, <2>3, <2>4, <2>5, Zenon
<1>2. /\ slot' = [slot EXCEPT ![s].refcnt = @ + 1]
      /\ ptr' = [ptr EXCEPT ![p] = s] /\ pc' = [pc EXCEPT ![p] = "lock"]
  BY DEF GetFound
<1>3. /\ slot' \in [Slots -> Buffer] /\ slot'[s].refcnt = slot[s].refcnt + 1
      /\ \A t \in 1..len : /\ slot'[t].blk = slot[t].blk /\ (slot'[t].valid <=> slot[t].valid)
                           /\ (slot'[t].dirty <=> slot[t].dirty) /\ slot'[t].data = slot[t].data
                           /\ slot'[t].dirty = slot[t].dirty /\ slot'[t].owner = slot[t].owner
                           /\ t # s => slot'[t].refcnt = slot[t].refcnt
  <2> DEFINE new == [slot[s] EXCEPT !.refcnt = @ + 1]
  <2>1. /\ new \in Buffer /\ new.refcnt = slot[s].refcnt + 1 /\ new.blk = slot[s].blk
        /\ new.valid = slot[s].valid /\ new.dirty = slot[s].dirty /\ new.data = slot[s].data
        /\ new.owner = slot[s].owner
    BY <1>1 DEF Buffer
  <2>2. slot' = [slot EXCEPT ![s] = new]
    BY <1>1, <1>2
  <2> HIDE DEF new
  <2> QED BY <1>1, <2>1, <2>2, Zenon
<1>4. /\ pc \in [Proc -> States] /\ pc' \in [Proc -> States] /\ ptr' \in [Proc -> Slots \cup {0}]
      /\ ptr'[p] = s /\ pc'[p] = "lock"
      /\ \A q \in Proc : q # p => ptr'[q] = ptr[q] /\ pc'[q] = pc[q]
  BY <1>0, <1>1, <1>2, Zenon DEF TypeOK, States
<1>5. TypeOK'
  BY <1>0, <1>1, <1>3, <1>4, Zenon DEF TypeOK, States
<1>6. \A q \in Proc : /\ pc'[q] \in Owning <=> pc[q] \in Owning
                      /\ pc'[q] = "lsleep" <=> pc[q] = "lsleep"
                      /\ pc'[q] = "io" <=> pc[q] = "io"
                      /\ pc[q] \in Pointing => q # p /\ ptr[q] \in 1..len
  <2>1. "get" \notin Pointing /\ "get" \notin Owning /\ "lock" \notin Owning
    BY Zenon DEF Pointing, Owning
  <2> QED BY <1>0, <1>1, <1>4, <2>1, Zenon DEF PtrInv
<1>a. PtrInv'
  <2>1. \A q \in Proc : pc[q] \in Pointing => slot'[ptr[q]].blk = slot[ptr[q]].blk
    BY <1>3, <1>6, Zenon
  <2>2. \A q \in Proc : q # p => /\ pc'[q] \in Pointing => ptr'[q] \in 1..len' /\ Buf(q)'.blk = blk'[q]
                                 /\ pc'[q] \notin Pointing => ptr'[q] = 0
                                 /\ pc'[q] # "idle" => blk'[q] \in Block
    BY <1>0, <1>1, <1>4, <2>1 DEF PtrInv, Buf
  <2>3. "lock" \in Pointing /\ ptr'[p] \in 1..len' /\ Buf(p)'.blk = blk'[p] /\ blk'[p] \in Block
    BY <1>0, <1>1, <1>3, <1>4 DEF Pointing, Buf, PtrInv
  <2> QED BY <1>4, <2>2, <2>3, Zenon DEF PtrInv
<1>7. OwnerInv'
  <2>1. \A q \in Proc : pc[q] \in Owning \cup {"lsleep"} => ptr'[q] = ptr[q]
    BY <1>4, <1>6, Zenon DEF Pointing
  <2>2. UNCHANGED len /\ \A t \in 1..len : slot'[t].owner = slot[t].owner
    BY <1>1, <1>3, Zenon
  <2> QED BY <1>6, <2>1, <2>2, OwnersKept, Zenon
<1>8. CallInv'
  <2>1. \A q \in Proc : pc'[q] \in {"rw", "io", "iowake", "held"} =>
          pc'[q] = pc[q] /\ ptr'[q] = ptr[q] /\ ptr[q] \in 1..len
    BY <1>4, <1>6, Zenon DEF Pointing, Owning
  <2> QED BY <1>3, <2>1, CallKept, Zenon
<1>9. SlotInv'
  <2>1. Users(s)' = Users(s) \cup {p} /\ p \notin Users(s)
    BY <1>1, <1>4 DEF Users
  <2>2. Cardinality(Users(s)') = Cardinality(Users(s)) + 1 /\ Cardinality(Users(s)) \in Nat
    BY <2>1, UsersFinite, FS_AddElement, Zenon
  <2>3. \A t \in 1..len : t # s => Users(t)' = Users(t)
    BY <1>1, <1>4, Pointers DEF Users
  <2>5. \A t \in 1..len : /\ slot'[t].refcnt = Cardinality(Users(t))'
                          /\ slot'[t].refcnt # 0 \/ slot'[t].dirty
    BY <1>0, <1>3, <2>2, <2>3 DEF SlotInv
  <2>6. len' = len /\ \A t \in 1..len : slot'[t].blk = slot[t].blk
    BY <1>1, <1>3, Zenon
  <2> QED BY <1>0, <2>5, <2>6 DEF SlotInv
<1>10. DataInv'
  BY <1>1, <1>3, DataKept, Zenon
<1>11. QueueInv'
  <2>1. \A q \in Proc : pc[q] = "io" => ptr'[q] = ptr[q] /\ ptr[q] \in 1..len
    BY <1>4, <1>6, Zenon DEF Pointing, Owning
  <2>2. \A t \in 1..len : [blk |-> slot'[t].blk, write |-> slot'[t].dirty, data |-> slot'[t].data] = Start(t)
    BY <1>3, Zenon DEF Start
  <2>3. \A q \in Proc : pc[q] = "io" => Start(ptr[q])' = Start(ptr[q])
    BY <2>1, <2>2 DEF Start
  <2> QED BY <1>1, <1>6, <2>1, <2>3, QueueKept, Zenon
<1>12. Pinned' \subseteq Pinned
  <2>1. \A q \in Proc : pc[q] \in {"rw", "io"} => pc'[q] = pc[q] /\ ptr'[q] = ptr[q]
    BY <1>1, <1>4, Zenon
  <2> QED BY <1>1, <1>3, <2>1 DEF Pinned
<1> QED BY <1>5, <1>7, <1>8, <1>9, <1>10, <1>11, <1>12, <1>a, PinsKept, Zenon DEF BufferInv

(* get makes a new buffer, locked by the caller. *)
LEMMA GetNewInv ==
  ASSUME BufferInv, NEW p \in Proc, GetNew(p)
  PROVE  BufferInv'
<1> DEFINE n == len + 1
<1>0. TypeOK /\ PtrInv /\ OwnerInv /\ SlotInv /\ DataInv
  BY Zenon DEF BufferInv
<1>1. /\ len \in Nat /\ n \in Slots /\ 1..len \subseteq Slots /\ len' = n /\ pc[p] = "get" /\ ptr[p] = 0
      /\ slot \in [Slots -> Buffer] /\ blk[p] \in Block /\ n \notin 1..len /\ 1..n = 1..len \cup {n}
      /\ UNCHANGED <<queue, disk, cmd, irq, blk, latest>>
      /\ \A t \in 1..len : slot[t].blk # blk[p]
  <2>1. /\ pc[p] = "get" /\ len < NBUF /\ len' = n /\ UNCHANGED <<queue, disk, cmd, irq, blk, latest>>
        /\ \A t \in 1..len : slot[t].blk # blk[p]
    BY DEF GetNew
  <2>2. len \in Nat /\ NBUF \in Nat /\ slot \in [Slots -> Buffer]
    BY <1>0, BufferAssumption DEF TypeOK
  <2>3. n \in Slots /\ 1..len \subseteq Slots /\ n \notin 1..len /\ 1..n = 1..len \cup {n}
    BY <2>1, <2>2 DEF Slots
  <2>4. ptr[p] = 0 /\ blk[p] \in Block
    BY <1>0, <2>1, Zenon DEF PtrInv, Pointing, Owning
  <2> QED BY <2>1, <2>2, <2>3, <2>4, Zenon
<1>2. /\ slot' = [slot EXCEPT ![n] = NewBuffer(blk[p], p)]
      /\ ptr' = [ptr EXCEPT ![p] = n] /\ pc' = [pc EXCEPT ![p] = "read"]
  BY DEF GetNew
<1>3. /\ slot' \in [Slots -> Buffer] /\ slot'[n].blk = blk[p] /\ ~slot'[n].valid /\ ~slot'[n].dirty
      /\ slot'[n].owner = p /\ slot'[n].refcnt = 1 /\ \A t \in 1..len : slot'[t] = slot[t]
  <2>1. LET b == NewBuffer(blk[p], p) IN
          b \in Buffer /\ b.blk = blk[p] /\ ~b.valid /\ ~b.dirty /\ b.owner = p /\ b.refcnt = 1
    BY <1>1, BufferAssumption, Zenon DEF NewBuffer, Buffer
  <2> QED BY <1>1, <1>2, <2>1, Zenon
<1>4. /\ pc \in [Proc -> States] /\ pc' \in [Proc -> States] /\ ptr' \in [Proc -> Slots \cup {0}]
      /\ ptr'[p] = n /\ pc'[p] = "read"
      /\ \A q \in Proc : q # p => ptr'[q] = ptr[q] /\ pc'[q] = pc[q]
  BY <1>0, <1>1, <1>2, Zenon DEF TypeOK, States
<1> HIDE DEF n
<1>a. \A q \in Proc : q # p => ptr[q] # n
  <2>1. n # 0
    BY <1>1 DEF Slots
  <2> QED BY <1>1, <2>1, Pointers, Zenon
<1>b. \A q \in Proc : pc[q] \in Pointing => q # p /\ ptr[q] \in 1..len /\ slot'[ptr[q]] = slot[ptr[q]]
  BY <1>0, <1>1, <1>3, Zenon DEF PtrInv, Pointing, Owning
<1>c. 1..len' = 1..len \cup {n}
  BY <1>1, Zenon
<1>5. TypeOK'
  <2>1. len' \in 0..NBUF
    BY <1>1, BufferAssumption DEF Slots
  <2> QED BY <1>0, <1>1, <1>3, <1>4, <2>1, Zenon DEF TypeOK, States
<1>6. PtrInv'
  <2>1. \A q \in Proc : q # p => /\ pc'[q] \in Pointing => ptr'[q] \in 1..len' /\ Buf(q)'.blk = blk'[q]
                                 /\ pc'[q] \notin Pointing => ptr'[q] = 0
                                 /\ pc'[q] # "idle" => blk'[q] \in Block
    BY <1>0, <1>1, <1>4, <1>b, <1>c DEF PtrInv, Buf
  <2>2. "read" \in Pointing /\ ptr'[p] \in 1..len' /\ Buf(p)'.blk = blk'[p] /\ blk'[p] \in Block
    BY <1>1, <1>3, <1>4, <1>c, Zenon DEF Pointing, Owning, Buf
  <2> QED BY <1>4, <2>1, <2>2, Zenon DEF PtrInv
<1>7. OwnerInv'
  <2>1. \A q \in Proc : pc[q] \in Owning \cup {"lsleep"} => pc[q] \in Pointing
    BY Zenon DEF Pointing
  <2>2. \A q \in Proc : q # p => /\ pc'[q] \in Owning => Buf(q)'.owner = q
                                 /\ pc'[q] = "lsleep" => Buf(q)'.owner # None
    BY <1>0, <1>4, <1>b, <2>1 DEF OwnerInv, Buf
  <2>3. pc'[p] \in Owning /\ Buf(p)'.owner = p /\ pc'[p] # "lsleep"
    BY <1>3, <1>4, Zenon DEF Owning, Buf
  <2>4. ASSUME NEW s \in 1..len, slot'[s].owner # None
        PROVE  slot'[s].owner \in Proc /\ pc'[slot'[s].owner] \in Owning /\ ptr'[slot'[s].owner] = s
    <3>1. slot'[s] = slot[s]
      BY <1>3, Zenon
    <3>2. slot[s].owner \in Proc /\ pc[slot[s].owner] \in Owning /\ ptr[slot[s].owner] = s
      BY <1>0, <2>4, <3>1, Zenon DEF OwnerInv
    <3>3. slot[s].owner # p
      BY <1>b, <2>1, <3>2, Zenon
    <3> QED BY <1>4, <3>1, <3>2, <3>3, Zenon
  <2>5. \A s \in 1..len' : s \in 1..len \/ s = n
    BY <1>1, Zenon
  <2>6. \A s \in 1..len' : slot'[s].owner # None =>
          slot'[s].owner \in Proc /\ pc'[slot'[s].owner] \in Owning /\ ptr'[slot'[s].owner] = s
    BY <1>3, <1>4, <2>3, <2>4, <2>5, Zenon
  <2> QED BY <2>2, <2>3, <2>6, Zenon DEF OwnerInv
<1>8. CallInv'
  <2>1. \A q \in Proc : pc'[q] \in {"rw", "io", "iowake", "held"} =>
          pc'[q] = pc[q] /\ ptr'[q] = ptr[q] /\ slot'[ptr[q]] = slot[ptr[q]]
    BY <1>4, <1>b, Zenon DEF Pointing, Owning
  <2> QED BY <2>1, CallKept, Zenon
<1>9. SlotInv'
  <2>1. \A t : t = n => Users(t)' = {p}
    BY <1>4, <1>a DEF Users
  <2>2. \A t : t = n => Cardinality(Users(t))' = 1
    BY <2>1, FS_Singleton
  <2>3. \A t \in 1..len : Users(t)' = Users(t)
    BY <1>1, <1>4, Pointers DEF Users
  <2>4. \A t \in 1..len' : /\ slot'[t].blk \in Block
                           /\ slot'[t].refcnt = Cardinality(Users(t))'
                           /\ slot'[t].refcnt # 0 \/ slot'[t].dirty
    <3>1. \A t \in 1..len : /\ slot'[t].blk \in Block
                            /\ slot'[t].refcnt = Cardinality(Users(t))'
                            /\ slot'[t].refcnt # 0 \/ slot'[t].dirty
      BY <1>0, <1>3, <2>3 DEF SlotInv
    <3>2. slot'[n].blk \in Block /\ slot'[n].refcnt = 1 /\ 1 # 0
      BY <1>1, <1>3
    <3> QED BY <1>c, <2>2, <3>1, <3>2, Zenon
  <2>5. ASSUME NEW t \in 1..len', NEW u \in 1..len', slot'[t].blk = slot'[u].blk PROVE t = u
    <3>1. CASE t \in 1..len /\ u \in 1..len
      <4>1. slot[t].blk = slot[u].blk
        BY <1>3, <2>5, <3>1, Zenon
      <4> QED BY <1>0, <3>1, <4>1, Zenon DEF SlotInv
    <3>2. CASE t = n \/ u = n
      BY <1>1, <1>3, <1>c, <2>5, <3>2
    <3> QED BY <1>c, <3>1, <3>2, Zenon
  <2> QED BY <2>4, <2>5, Zenon DEF SlotInv
<1>10. DataInv'
  <2>1. disk[blk[p]] = latest[blk[p]]
    BY <1>0, <1>1, Zenon DEF DataInv
  <2>2. \A t \in 1..len : /\ slot'[t].dirty => slot'[t].valid
                          /\ slot'[t].valid => slot'[t].data = latest[slot'[t].blk]
                          /\ ~slot'[t].dirty => disk[slot'[t].blk] = latest[slot'[t].blk]
    BY <1>0, <1>3, Zenon DEF DataInv
  <2>3. ASSUME NEW b \in Block, \A t \in 1..len' : slot'[t].blk # b PROVE disk[b] = latest[b]
    <3>1. \A t \in 1..len : slot[t].blk # b
      BY <1>3, <1>c, <2>3, Zenon
    <3> QED BY <1>0, <3>1, Zenon DEF DataInv
  <2>4. /\ ~slot'[n].dirty /\ ~slot'[n].valid /\ disk[slot'[n].blk] = latest[slot'[n].blk]
        /\ disk' = disk /\ latest' = latest
    BY <1>1, <1>3, <2>1, Zenon
  <2> QED BY <1>c, <2>2, <2>3, <2>4, Zenon DEF DataInv
<1>11. QueueInv'
  <2>1. \A q \in Proc : /\ pc'[q] = "io" <=> pc[q] = "io"
                        /\ pc[q] = "io" => ptr'[q] = ptr[q] /\ slot'[ptr[q]] = slot[ptr[q]]
    BY <1>1, <1>4, <1>b, Zenon DEF Pointing, Owning
  <2>2. \A q \in Proc : pc[q] = "io" => Start(ptr[q])' = Start(ptr[q])
    BY <2>1, Zenon DEF Start
  <2> QED BY <1>1, <2>1, <2>2, QueueKept, Zenon
<1>12. Pinned' \subseteq Pinned
  <2>1. \A q \in Proc : pc[q] \in {"rw", "io"} => pc'[q] = pc[q] /\ ptr'[q] = ptr[q]
    BY <1>1, <1>4, Zenon
  <2> QED BY <1>3, <1>c, <2>1 DEF Pinned
<1> QED BY <1>5, <1>6, <1>7, <1>8, <1>9, <1>10, <1>11, <1>12, PinsKept, Zenon DEF BufferInv

LEMMA GetInv ==
  ASSUME BufferInv, NEW p \in Proc, Get(p)
  PROVE  BufferInv'
<1>1. CASE GetPanics(p)
  <2>1. /\ pc[p] = "get" /\ pc' = [pc EXCEPT ![p] = "panic"]
        /\ UNCHANGED <<slot, len, ptr, queue, disk, cmd, irq, blk, latest>>
    BY <1>1 DEF GetPanics
  <2>2. blk \in [Proc -> Block \cup {None}] /\ blk[p] \in Block
    BY <2>1, Zenon DEF BufferInv, TypeOK, PtrInv
  <2>3. "panic" \in States \ {"io"} /\ "panic" \notin Pointing /\ "get" \notin Pointing
    BY Zenon DEF States, Pointing, Owning
  <2> QED BY <2>1, <2>2, <2>3, PcInv, Zenon DEF Pointing
<1> QED BY <1>1, GetCases, GetFoundInv, GetNewInv

-----------------------------------------------------------------------------
(* release_buffer leaves the buffer, or moves one that nobody points to. *)
ReleaseLeaves(p) ==
  /\ len' = len /\ slot' = [slot EXCEPT ![ptr[p]].refcnt = @ - 1]
  /\ slot[ptr[p]].refcnt - 1 # 0 \/ slot[ptr[p]].dirty

ReleaseMoves(p) ==
  /\ len' = len - 1 /\ slot' \in [Slots -> Buffer]
  /\ Users(ptr[p]) = {p} /\ ~slot[ptr[p]].dirty
  /\ ptr[p] = len \/ Users(len) = {}
  /\ \A t \in 1..(len - 1) : slot'[t] = IF t = ptr[p] THEN slot[len] ELSE slot[t]

ReleaseRest(p) ==
  /\ pc[p] = "brelse" /\ pc' = [pc EXCEPT ![p] = "idle"]
  /\ ptr' = [ptr EXCEPT ![p] = 0] /\ blk' = [blk EXCEPT ![p] = None]
  /\ UNCHANGED <<queue, disk, cmd, irq, latest>>

LEMMA ReleaseCases ==
  ASSUME BufferInv, Careful, NEW p \in Proc, ReleaseBuffer(p)
  PROVE  ReleaseRest(p) /\ (ReleaseLeaves(p) \/ ReleaseMoves(p))
<1> DEFINE s == ptr[p]
           sl == [slot EXCEPT ![s].refcnt = @ - 1]
           gone == sl[s].refcnt = 0 /\ ~sl[s].dirty
           F == {t \in 1..len : sl[t].blk = sl[s].blk}
<1>1. /\ pc[p] = "brelse"
      /\ gone => Min(F) = len \/ Users(len) \subseteq {p}
      /\ IF gone /\ F = {} THEN Goto(p, "brelse", "panic") /\ UNCHANGED <<slot, len>>
         ELSE /\ Goto(p, "brelse", "idle")
              /\ slot' = IF gone THEN SwapRemove(sl, Min(F)) ELSE sl
              /\ len' = IF gone THEN len - 1 ELSE len
      /\ ptr' = [ptr EXCEPT ![p] = 0] /\ blk' = [blk EXCEPT ![p] = None]
      /\ UNCHANGED <<queue, disk, cmd, irq, latest>>
  BY Zenon DEF ReleaseBuffer, dev
<1>2. /\ s \in 1..len /\ s \in Slots /\ 1..len \subseteq Slots /\ len \in Nat
      /\ slot \in [Slots -> Buffer] /\ slot[s] \in Buffer
  <2>1. s \in 1..len /\ slot \in [Slots -> Buffer]
    BY <1>1, Zenon DEF BufferInv, TypeOK, PtrInv, Pointing
  <2>2. 1..len \subseteq Slots /\ len \in Nat
    BY BufferAssumption DEF BufferInv, TypeOK, Slots
  <2> QED BY <2>1, <2>2, Zenon
<1>3. slot[s].refcnt = Cardinality(Users(s)) /\ p \in Users(s)
  BY <1>2, Zenon DEF BufferInv, SlotInv, Users
<1>4. slot[s].refcnt \in Nat \ {0}
  BY <1>3, UsersFinite, FS_EmptySet, Zenon
<1>5. /\ sl \in [Slots -> Buffer] /\ sl[s].refcnt = slot[s].refcnt - 1 /\ sl[s].blk = slot[s].blk
      /\ (sl[s].dirty <=> slot[s].dirty) /\ \A t \in Slots : t # s => sl[t] = slot[t]
  <2> DEFINE new == [slot[s] EXCEPT !.refcnt = @ - 1]
  <2>1. new \in Buffer /\ new.refcnt = slot[s].refcnt - 1 /\ new.blk = slot[s].blk /\ (new.dirty <=> slot[s].dirty)
    BY <1>2, <1>4 DEF Buffer
  <2>2. sl = [slot EXCEPT ![s] = new]
    BY <1>2
  <2> HIDE DEF new
  <2> QED BY <1>2, <2>1, <2>2
<1>6. F = {s} /\ Min(F) = s
  <2>1. \A t \in 1..len : sl[t].blk = slot[t].blk
    BY <1>2, <1>5
  <2>2. F = {t \in 1..len : slot[t].blk = slot[s].blk}
    BY <1>5, <2>1
  <2> DEFINE b == slot[s].blk
  <2>3. F = {t \in 1..len : slot[t].blk = b} /\ slot[s].blk = b
    BY <2>2
  <2> HIDE DEF b, F, sl
  <2>4. F = {s} /\ Min({s}) = s
    BY <1>2, <2>3, FoundAt
  <2> QED BY <2>4
<1> HIDE DEF F
<1>7. /\ pc' = [pc EXCEPT ![p] = "idle"]
      /\ slot' = IF gone THEN SwapRemove(sl, s) ELSE sl
      /\ len' = IF gone THEN len - 1 ELSE len
      /\ gone => s = len \/ Users(len) \subseteq {p}
  BY <1>1, <1>6, Zenon DEF Goto
<1>8. ReleaseRest(p)
  BY <1>1, <1>7 DEF ReleaseRest
<1>9. CASE gone
  <2>1. ~slot[s].dirty /\ slot[s].refcnt = 1
    BY <1>4, <1>5, <1>9
  <2>2. Users(s) = {p}
    <3> DEFINE U == Users(s)
    <3>1. IsFiniteSet(U) /\ Cardinality(U) = 1 /\ p \in U
      BY <1>3, <2>1, UsersFinite, Zenon
    <3> HIDE DEF U
    <3>2. \E x : U = {x}
      BY <3>1, FS_Singleton
    <3> QED BY <3>1, <3>2 DEF U
  <2>3. s = len \/ Users(len) = {}
    BY <1>7, <1>9 DEF Users
  <2> HIDE DEF sl
  <2>4. slot' = [sl EXCEPT ![s] = sl[len], ![len] = sl[s]]
    BY <1>7, <1>9 DEF SwapRemove
  <2>5. len \in Slots
    BY <1>2, BufferAssumption DEF BufferInv, TypeOK, Slots
  <2>6. slot' \in [Slots -> Buffer]
    BY <1>2, <1>5, <2>4, <2>5
  <2>7. ASSUME NEW t \in 1..(len - 1) PROVE slot'[t] = IF t = s THEN slot[len] ELSE slot[t]
    <3>1. t \in Slots /\ t # len
      BY <1>2
    <3> QED BY <1>2, <1>5, <2>4, <2>5, <3>1
  <2> HIDE DEF gone
  <2> QED BY <1>7, <1>8, <1>9, <2>1, <2>2, <2>3, <2>6, <2>7, Zenon DEF ReleaseMoves
<1>10. CASE ~gone
  <2>1. slot[s].refcnt - 1 # 0 \/ slot[s].dirty
    BY <1>5, <1>10
  <2>2. slot' = sl /\ len' = len
    BY <1>7, <1>10
  <2> QED BY <1>8, <2>1, <2>2 DEF ReleaseLeaves
<1> QED BY <1>9, <1>10

LEMMA ReleaseLeavesInv ==
  ASSUME BufferInv, NEW p \in Proc, ReleaseRest(p), ReleaseLeaves(p)
  PROVE  BufferInv'
<1> DEFINE s == ptr[p]
<1>0. TypeOK /\ PtrInv /\ OwnerInv /\ SlotInv
  BY Zenon DEF BufferInv
<1>1. /\ pc[p] = "brelse" /\ UNCHANGED <<len, queue, disk, cmd, irq, latest>>
      /\ slot' = [slot EXCEPT ![s].refcnt = @ - 1] /\ (slot[s].refcnt - 1 # 0 \/ slot[s].dirty)
  BY DEF ReleaseRest, ReleaseLeaves
<1>2. /\ s \in 1..len /\ s \in Slots /\ 1..len \subseteq Slots /\ slot \in [Slots -> Buffer] /\ slot[s] \in Buffer
  <2>1. s \in 1..len /\ slot \in [Slots -> Buffer]
    BY <1>0, <1>1, Zenon DEF TypeOK, PtrInv, Pointing
  <2>2. 1..len \subseteq Slots
    BY <1>0, BufferAssumption DEF TypeOK, Slots
  <2> QED BY <2>1, <2>2, Zenon
<1>3. slot[s].refcnt = Cardinality(Users(s)) /\ p \in Users(s)
  BY <1>2, Zenon DEF BufferInv, SlotInv, Users
<1>4. slot[s].refcnt \in Nat \ {0}
  BY <1>3, UsersFinite, FS_EmptySet, Zenon
<1>5. /\ slot' \in [Slots -> Buffer] /\ slot'[s].refcnt = slot[s].refcnt - 1
      /\ \A t \in 1..len : /\ slot'[t].blk = slot[t].blk /\ (slot'[t].valid <=> slot[t].valid)
                           /\ (slot'[t].dirty <=> slot[t].dirty) /\ slot'[t].data = slot[t].data
                           /\ slot'[t].dirty = slot[t].dirty /\ slot'[t].owner = slot[t].owner
                           /\ t # s => slot'[t].refcnt = slot[t].refcnt
  <2> DEFINE new == [slot[s] EXCEPT !.refcnt = @ - 1]
  <2>1. /\ new \in Buffer /\ new.refcnt = slot[s].refcnt - 1 /\ new.blk = slot[s].blk
        /\ new.valid = slot[s].valid /\ new.dirty = slot[s].dirty /\ new.data = slot[s].data
        /\ new.owner = slot[s].owner
    BY <1>2, <1>4 DEF Buffer
  <2>2. slot' = [slot EXCEPT ![s] = new]
    BY <1>1, <1>2
  <2> HIDE DEF new
  <2> QED BY <1>2, <2>1, <2>2, Zenon
<1>6. /\ ptr' = [ptr EXCEPT ![p] = 0] /\ blk' = [blk EXCEPT ![p] = None] /\ pc' = [pc EXCEPT ![p] = "idle"]
  BY DEF ReleaseRest
<1>7. /\ pc \in [Proc -> States] /\ pc' \in [Proc -> States] /\ ptr' \in [Proc -> Slots \cup {0}]
      /\ blk' \in [Proc -> Block \cup {None}] /\ ptr'[p] = 0 /\ pc'[p] = "idle"
      /\ \A q \in Proc : q # p => ptr'[q] = ptr[q] /\ pc'[q] = pc[q] /\ blk'[q] = blk[q]
  BY <1>0, <1>6, Zenon DEF TypeOK, States
<1>8. TypeOK'
  BY <1>0, <1>1, <1>5, <1>7, Zenon DEF TypeOK, States
<1>a. \A q \in Proc : /\ pc'[q] \in Owning <=> pc[q] \in Owning
                      /\ pc'[q] = "lsleep" <=> pc[q] = "lsleep"
                      /\ pc'[q] = "io" <=> pc[q] = "io"
                      /\ pc[q] \in Owning \cup {"lsleep"} => q # p /\ ptr'[q] = ptr[q]
                      /\ pc[q] \in Pointing => ptr[q] \in 1..len
  <2>1. "brelse" \notin Owning /\ "idle" \notin Owning
    BY Zenon DEF Owning
  <2>2. \A q \in Proc : pc[q] \in Pointing => ptr[q] \in 1..len
    BY <1>0, Zenon DEF PtrInv
  <2>3. \A q \in Proc : pc[q] \in Owning \cup {"lsleep"} => q # p
    BY <1>1, <2>1, Zenon
  <2> QED BY <1>1, <1>7, <2>1, <2>2, <2>3, Zenon
<1>9. PtrInv'
  <2>1. \A q \in Proc : pc[q] \in Pointing => slot'[ptr[q]].blk = slot[ptr[q]].blk
    BY <1>5, <1>a, Zenon
  <2>2. \A q \in Proc : q # p => /\ pc'[q] \in Pointing => ptr'[q] \in 1..len' /\ Buf(q)'.blk = blk'[q]
                                 /\ pc'[q] \notin Pointing => ptr'[q] = 0
                                 /\ pc'[q] # "idle" => blk'[q] \in Block
    BY <1>0, <1>1, <1>7, <2>1 DEF PtrInv, Buf
  <2>3. "idle" \notin Pointing
    BY Zenon DEF Pointing, Owning
  <2> QED BY <1>7, <2>2, <2>3, Zenon DEF PtrInv
<1>10. OwnerInv'
  <2>1. UNCHANGED len /\ \A t \in 1..len : slot'[t].owner = slot[t].owner
    BY <1>1, <1>5, Zenon
  <2> QED BY <1>a, <2>1, OwnersKept, Zenon
<1>11. CallInv'
  <2>1. \A q \in Proc : pc'[q] \in {"rw", "io", "iowake", "held"} =>
          pc'[q] = pc[q] /\ ptr'[q] = ptr[q] /\ ptr[q] \in 1..len
    BY <1>7, <1>a, Zenon DEF Pointing, Owning
  <2> QED BY <1>5, <2>1, CallKept, Zenon
<1>12. SlotInv'
  <2>1. \A t : t = s => Users(t)' = Users(s) \ {p}
    BY <1>2, <1>7 DEF Users
  <2>2. Cardinality(Users(s) \ {p}) = Cardinality(Users(s)) - 1
    BY <1>3, UsersFinite, FS_RemoveElement, Zenon
  <2>3. \A t \in 1..len : t # s => Users(t)' = Users(t)
    BY <1>7 DEF Users
  <2>5. \A t \in 1..len : /\ slot'[t].refcnt = Cardinality(Users(t))'
                          /\ slot'[t].refcnt # 0 \/ slot'[t].dirty
    <3> SUFFICES ASSUME NEW t \in 1..len
                 PROVE  slot'[t].refcnt = Cardinality(Users(t))' /\ (slot'[t].refcnt # 0 \/ slot'[t].dirty)
      OBVIOUS
    <3>1. CASE t = s
      <4>1. Users(t)' = Users(s) \ {p}
        BY <2>1, <3>1
      <4> QED BY <1>1, <1>3, <1>5, <2>2, <3>1, <4>1
    <3>2. CASE t # s
      BY <1>0, <1>5, <2>3, <3>2 DEF SlotInv
    <3> QED BY <3>1, <3>2, Zenon
  <2>6. len' = len /\ \A t \in 1..len : slot'[t].blk = slot[t].blk
    BY <1>1, <1>5, Zenon
  <2> QED BY <1>0, <2>5, <2>6 DEF SlotInv
<1>13. DataInv'
  BY <1>1, <1>5, DataKept, Zenon
<1>14. QueueInv'
  <2>1. \A q \in Proc : pc[q] = "io" => ptr'[q] = ptr[q] /\ ptr[q] \in 1..len
    BY <1>a, Zenon DEF Pointing, Owning
  <2>2. \A t \in 1..len : [blk |-> slot'[t].blk, write |-> slot'[t].dirty, data |-> slot'[t].data] = Start(t)
    BY <1>5, Zenon DEF Start
  <2>3. \A q \in Proc : pc[q] = "io" => Start(ptr[q])' = Start(ptr[q])
    BY <2>1, <2>2 DEF Start
  <2> QED BY <1>1, <1>a, <2>1, <2>3, QueueKept, Zenon
<1>15. Pinned' \subseteq Pinned
  <2>1. \A q \in Proc : pc[q] \in {"rw", "io"} => pc'[q] = pc[q] /\ ptr'[q] = ptr[q]
    BY <1>1, <1>7, Zenon
  <2> QED BY <1>1, <1>5, <2>1 DEF Pinned
<1> QED BY <1>8, <1>9, <1>10, <1>11, <1>12, <1>13, <1>14, <1>15, PinsKept, Zenon DEF BufferInv

LEMMA ReleaseMovesInv ==
  ASSUME BufferInv, NEW p \in Proc, ReleaseRest(p), ReleaseMoves(p)
  PROVE  BufferInv'
<1> DEFINE s == ptr[p]
<1>0. TypeOK /\ PtrInv /\ OwnerInv /\ SlotInv /\ DataInv
  BY Zenon DEF BufferInv
<1>1. /\ pc[p] = "brelse" /\ UNCHANGED <<queue, disk, cmd, irq, latest>>
      /\ len' = len - 1 /\ slot' \in [Slots -> Buffer] /\ ~slot[s].dirty
      /\ \A t \in 1..(len - 1) : slot'[t] = IF t = s THEN slot[len] ELSE slot[t]
  BY Zenon DEF ReleaseRest, ReleaseMoves
<1>2. s \in 1..len /\ len \in Nat /\ len \in 1..len /\ len - 1 \in 0..NBUF /\ len - 1 \in Nat
  <2>1. s \in 1..len
    BY <1>0, <1>1, Zenon DEF PtrInv, Pointing
  <2> QED BY <1>0, <2>1, BufferAssumption DEF TypeOK
<1>3. \A q \in Proc : q # p => ptr[q] # s /\ ptr[q] # len
  BY DEF ReleaseMoves, Users
<1>4. s # len => p \notin Users(len) /\ Users(len) = {}
  BY DEF ReleaseMoves
<1>5. /\ ptr' = [ptr EXCEPT ![p] = 0] /\ blk' = [blk EXCEPT ![p] = None] /\ pc' = [pc EXCEPT ![p] = "idle"]
  BY DEF ReleaseRest
<1>6. /\ ptr'[p] = 0 /\ pc'[p] = "idle"
      /\ \A q \in Proc : q # p => ptr'[q] = ptr[q] /\ pc'[q] = pc[q] /\ blk'[q] = blk[q]
  BY <1>0, <1>5, Zenon DEF TypeOK
<1>7. \A t \in 1..(len - 1) : t \in 1..len /\ t # len
  BY <1>2
<1>8. \A t \in 1..len : t # len => t \in 1..(len - 1)
  BY <1>2
<1>9. \A q \in Proc : q # p /\ ptr[q] # 0 => ptr[q] \in 1..(len - 1) /\ slot'[ptr[q]] = slot[ptr[q]]
  BY <1>1, <1>3, <1>8, Pointers, Zenon
<1>10. TypeOK'
  <2>1. len' \in 0..NBUF
    BY <1>1, <1>2, Zenon
  <2>2. /\ pc' \in [Proc -> States] /\ ptr' \in [Proc -> Slots \cup {0}]
        /\ blk' \in [Proc -> Block \cup {None}]
    BY <1>0, <1>5, Zenon DEF TypeOK, States
  <2> QED BY <1>0, <1>1, <2>1, <2>2, Zenon DEF TypeOK, States
<1>11. PtrInv'
  <2> SUFFICES ASSUME NEW q \in Proc
               PROVE /\ pc'[q] \in Pointing => ptr'[q] \in 1..len' /\ slot'[ptr'[q]].blk = blk'[q]
                     /\ pc'[q] \notin Pointing => ptr'[q] = 0
                     /\ pc'[q] # "idle" => blk'[q] \in Block
    BY Zenon DEF PtrInv, Buf
  <2>1. CASE q = p
    BY <1>6, <2>1, Zenon DEF Pointing, Owning
  <2>2. CASE q # p
    <3>1. pc[q] \in Pointing => ptr[q] \in 1..(len - 1) /\ slot'[ptr[q]] = slot[ptr[q]]
      BY <1>9, <2>2, Pointers, Zenon
    <3>2. /\ ptr'[q] = ptr[q] /\ pc'[q] = pc[q] /\ blk'[q] = blk[q] /\ 1..len' = 1..(len - 1)
          /\ pc[q] \in Pointing => slot[ptr[q]].blk = blk[q]
          /\ pc[q] \notin Pointing => ptr[q] = 0
          /\ pc[q] # "idle" => blk[q] \in Block
      BY <1>0, <1>1, <1>6, <2>2, Zenon DEF PtrInv, Buf
    <3> QED BY <3>1, <3>2, Zenon
  <2> QED BY <2>1, <2>2, Zenon
<1>12. OwnerInv'
  <2>1. \A q \in Proc : pc'[q] \in Owning \cup {"lsleep"} =>
          q # p /\ pc'[q] = pc[q] /\ ptr'[q] = ptr[q] /\ ptr[q] # 0
    BY <1>6, Pointers, Zenon DEF Pointing, Owning
  <2>2. \A q \in Proc : /\ pc'[q] \in Owning => Buf(q)'.owner = q
                        /\ pc'[q] = "lsleep" => Buf(q)'.owner # None
    <3>1. \A q \in Proc : pc'[q] \in Owning \cup {"lsleep"} => slot'[ptr'[q]] = slot[ptr[q]]
      BY <1>9, <2>1, Zenon
    <3> QED BY <1>0, <2>1, <3>1, Zenon DEF OwnerInv, Buf
  <2>3. ASSUME NEW t \in 1..(len - 1), slot'[t].owner # None
        PROVE  slot'[t].owner \in Proc /\ pc'[slot'[t].owner] \in Owning /\ ptr'[slot'[t].owner] = t
    <3>1. CASE t = s
      <4>1. slot'[t] = slot[len] /\ s # len
        BY <1>1, <1>7, <3>1, Zenon
      <4>2. slot[len].owner # None => slot[len].owner \in Users(len)
        BY <1>0, <1>2, Zenon DEF OwnerInv, Users
      <4> QED BY <1>4, <2>3, <4>1, <4>2, Zenon
    <3>2. CASE t # s
      <4>1. slot'[t] = slot[t] /\ t \in 1..len
        BY <1>1, <1>7, <3>2, Zenon
      <4>2. slot[t].owner \in Proc /\ pc[slot[t].owner] \in Owning /\ ptr[slot[t].owner] = t
        BY <1>0, <2>3, <4>1, Zenon DEF OwnerInv
      <4>3. slot[t].owner # p
        BY <3>2, <4>2, Zenon
      <4> QED BY <1>6, <4>1, <4>2, <4>3, Zenon
    <3> QED BY <3>1, <3>2, Zenon
  <2> QED BY <1>1, <2>2, <2>3, Zenon DEF OwnerInv
<1>13. CallInv'
  <2>1. \A q \in Proc : pc'[q] \in Owning => q # p /\ pc[q] = pc'[q] /\ ptr'[q] = ptr[q] /\ ptr[q] # 0
    BY <1>6, Pointers, Zenon DEF Pointing, Owning
  <2>2. \A q \in Proc : pc'[q] \in {"rw", "io", "iowake", "held"} => pc'[q] \in Owning
    BY Zenon DEF Owning
  <2> QED BY <1>9, <2>1, <2>2, CallKept, Zenon
<1>14. SlotInv'
  <2> DEFINE from(t) == IF t = s THEN len ELSE t
  <2>1. \A t \in 1..(len - 1) : from(t) \in 1..len /\ slot'[t] = slot[from(t)]
    BY <1>1, <1>2, <1>7, Zenon
  <2>2. \A t \in 1..(len - 1) : t # s => Users(t)' = Users(t)
    BY <1>6, <1>7 DEF Users
  <2>3. \A t \in 1..(len - 1) : t = s => Users(t)' = Users(len)
    BY <1>3, <1>4, <1>6, <1>7 DEF Users
  <2>4. \A t \in 1..(len - 1) : Users(t)' = Users(from(t))
    BY <2>2, <2>3, Zenon
  <2>5. \A t, u \in 1..(len - 1) : from(t) = from(u) => t = u
    BY <1>7
  <2> HIDE DEF from
  <2>6. ASSUME NEW t \in 1..(len - 1)
        PROVE  /\ slot'[t].blk \in Block /\ slot'[t].refcnt = Cardinality(Users(t))'
               /\ slot'[t].refcnt # 0 \/ slot'[t].dirty
    <3>1. PICK u \in 1..len : slot'[t] = slot[u] /\ Users(t)' = Users(u)
      BY <2>1, <2>4, Zenon
    <3>2. Cardinality(Users(t))' = Cardinality(Users(u))
      BY <3>1
    <3> QED BY <1>0, <3>1, <3>2, Zenon DEF SlotInv
  <2>7. ASSUME NEW t \in 1..(len - 1), NEW u \in 1..(len - 1), slot'[t].blk = slot'[u].blk
        PROVE  t = u
    <3>1. from(t) = from(u)
      BY <1>0, <2>1, <2>7 DEF SlotInv
    <3> QED BY <2>5, <3>1, Zenon
  <2> QED BY <1>1, <2>6, <2>7, Zenon DEF SlotInv
<1>15. DataInv'
  <2>2. \A t \in 1..(len - 1) : /\ slot'[t].dirty => slot'[t].valid
                                /\ slot'[t].valid => slot'[t].data = latest[slot'[t].blk]
                                /\ ~slot'[t].dirty => disk[slot'[t].blk] = latest[slot'[t].blk]
    <3>1. \A t \in 1..(len - 1) : \E u \in 1..len : slot'[t] = slot[u]
      BY <1>1, <1>2, <1>7, Zenon
    <3> QED BY <1>0, <3>1 DEF DataInv
  <2>3. ASSUME NEW b \in Block, \A t \in 1..(len - 1) : slot'[t].blk # b
        PROVE  disk[b] = latest[b]
    <3>1. CASE slot[s].blk = b
      BY <1>0, <1>1, <1>2, <3>1, Zenon DEF DataInv
    <3>2. CASE slot[s].blk # b
      <4>1. ASSUME NEW u \in 1..len PROVE slot[u].blk # b
        <5>1. CASE u = s
          BY <3>2, <5>1, Zenon
        <5>2. CASE u # s /\ u # len
          BY <1>1, <1>8, <2>3, <5>2, Zenon
        <5>3. CASE u # s /\ u = len
          <6>1. s \in 1..(len - 1)
            BY <1>2, <1>8, <5>3
          <6> QED BY <1>1, <2>3, <5>3, <6>1, Zenon
        <5> QED BY <5>1, <5>2, <5>3, Zenon
      <4> QED BY <1>0, <4>1, Zenon DEF DataInv
    <3> QED BY <3>1, <3>2, Zenon
  <2> QED BY <1>1, <2>2, <2>3, Zenon DEF DataInv
<1>16. QueueInv'
  <2>1. \A q \in Proc : /\ pc'[q] = "io" <=> pc[q] = "io"
                        /\ pc[q] = "io" => ptr'[q] = ptr[q] /\ q # p /\ ptr[q] # 0
    BY <1>1, <1>6, Pointers, Zenon DEF Pointing, Owning
  <2>2. \A q \in Proc : pc[q] = "io" => Start(ptr[q])' = Start(ptr[q])
    BY <1>9, <2>1, Zenon DEF Start
  <2> QED BY <1>1, <2>1, <2>2, QueueKept, Zenon
<1>17. PinInv'
  <2>1. CASE s = len
    <3>1. Pinned' \subseteq Pinned
      BY <1>1, <1>6, <1>7, <2>1 DEF Pinned
    <3> QED BY <3>1, PinsKept, Zenon
  <2>2. CASE s # len
    <3>1. IsFiniteSet(Pinned) /\ Pinned \in SUBSET (1..len)
      <4>1. IsFiniteSet(1..len)
        BY <1>2, FS_Interval
      <4>2. Pinned \in SUBSET (1..len)
        BY Zenon DEF Pinned
      <4> QED BY <4>1, <4>2, FS_Subset, Zenon
    <3>2. s \notin Pinned
      BY <1>1, Zenon DEF Pinned
    <3>3. slot[len].refcnt = 0
      BY <1>2, <1>4, <2>2, FS_EmptySet, Zenon DEF BufferInv, SlotInv
    <3>4. len \in Pinned
      BY <1>2, <1>4, <2>2, <3>3, Zenon DEF BufferInv, SlotInv, Pinned, Users
    <3>5. Pinned' \in SUBSET ((Pinned \ {len}) \cup {s})
      BY <1>1, <1>6, <1>7 DEF Pinned
    <3> DEFINE R == Pinned \ {len}
    <3>6. IsFiniteSet(R) /\ Cardinality(R) = Cardinality(Pinned) - 1
      BY <3>1, <3>4, FS_RemoveElement, Zenon
    <3>7. s \notin R
      BY <3>2
    <3> HIDE DEF R
    <3>8. IsFiniteSet(R \cup {s}) /\ Cardinality(R \cup {s}) = Cardinality(R) + 1
      BY <3>6, <3>7, FS_AddElement, Zenon
    <3>9. IsFiniteSet(Pinned') /\ Cardinality(Pinned') <= Cardinality(R \cup {s})
      BY <3>5, <3>8, FS_Subset, Zenon DEF R
    <3>10. Cardinality(Pinned) \in Nat /\ Cardinality(Pinned') \in Nat /\ Cardinality(Pinned) <= MaxPinned
      BY <3>1, <3>9, FS_CardinalityType DEF BufferInv, PinInv
    <3> QED BY <3>6, <3>8, <3>9, <3>10, BufferAssumption DEF PinInv
  <2> QED BY <2>1, <2>2
<1> QED BY <1>10, <1>11, <1>12, <1>13, <1>14, <1>15, <1>16, <1>17, Zenon DEF BufferInv

-----------------------------------------------------------------------------
LEMMA BufferStepInv ==
  ASSUME Careful, BufferInv, [Next]_vars
  PROVE  BufferInv'
<1>1. ASSUME NEW p \in Proc, Step(p) PROVE BufferInv'
  BY <1>1, GetInv, LockBufferInv, ReadInv, RwInv, RwDoneInv, ReleaseCases, ReleaseLeavesInv, ReleaseMovesInv
     DEF Step
<1>2. CASE UNCHANGED vars
  <2>1. UNCHANGED <<slot, len, queue, disk, cmd, irq, pc, blk, ptr, latest>>
    BY <1>2 DEF vars, dev
  <2>2. TypeOK' /\ PtrInv' /\ OwnerInv' /\ CallInv'
    BY <2>1, Zenon DEF BufferInv, TypeOK, PtrInv, OwnerInv, CallInv, Buf
  <2>3. SlotInv' /\ DataInv'
    BY <2>1, SlotsKept, DataKept, Zenon
  <2>4. QueueInv'
    BY <2>1, Zenon DEF BufferInv, QueueInv, Start
  <2>5. Pinned' \subseteq Pinned
    BY <2>1 DEF Pinned
  <2> QED BY <2>2, <2>3, <2>4, <2>5, PinsKept DEF BufferInv
<1> QED BY <1>1, <1>2, BrelseInv, BreadInv, BwriteInv, LogWriteInv, DeviceInv, InterruptHandlerInv DEF Next

LEMMA BufferInvariant == ASSUME Careful PROVE Spec => []BufferInv
<1>1. Init => BufferInv
  BY BufferInitInv
<1>2. BufferInv /\ [Next]_vars => BufferInv'
  BY BufferStepInv
<1> QED BY <1>1, <1>2, PTL DEF Spec

(* For any number of processes, blocks and buffers: as long as no buffer   *)
(* moves that somebody else points to, whoever has called bread (read of   *)
(* src/kernel/src/buf.rs) holds the buffer of its block with the content   *)
(* last written to it, through the queue and the interrupts of             *)
(* src/kernel/src/ide.rs.                                                  *)
THEOREM CacheHandsOutLatest == ASSUME Careful PROVE Spec => []BreadReturnsBlock
<1>1. BufferInv => BreadReturnsBlock
  BY DEF BufferInv, BreadReturnsBlock, PtrInv, OwnerInv, CallInv, DataInv, Pointing, Owning, Buf, is_locked
<1> QED BY <1>1, BufferInvariant, PTL

(* For any number of processes, blocks and buffers, under the same         *)
(* condition: nobody sleeps in rw or on the lock of a buffer without a     *)
(* request in the queue or an owner that will wake it, and the disk works  *)
(* on the first request (src/kernel/src/ide.rs).                           *)
THEOREM DiskWakes == ASSUME Careful PROVE Spec => []NoLostWakeup
<1>1. BufferInv => NoLostWakeup
  <2> SUFFICES ASSUME BufferInv PROVE NoLostWakeup
    OBVIOUS
  <2>1. DOMAIN queue = 1..Len(queue)
    BY DEF BufferInv, TypeOK
  <2>2. IsInjective(queue)
    BY <2>1, Zenon DEF BufferInv, QueueInv, IsInjective
  <2>3. ASSUME NEW p \in Proc, pc[p] = "lsleep" PROVE Buf(p).owner \in Proc \ {p}
    <3>1. ptr[p] \in 1..len /\ Buf(p).owner # None
      BY <2>3, Zenon DEF BufferInv, PtrInv, OwnerInv, Pointing
    <3>2. Buf(p).owner \in Proc /\ pc[Buf(p).owner] \in Owning
      BY <3>1, Zenon DEF BufferInv, OwnerInv, Buf
    <3> QED BY <2>3, <3>2 DEF Owning
  <2> QED BY <2>1, <2>2, <2>3, Zenon DEF BufferInv, QueueInv, NoLostWakeup
<1> QED BY <1>1, BufferInvariant, PTL

-----------------------------------------------------------------------------
(* Room for the pinned blocks and one more for every process. *)
Room == NBUF >= MaxPinned + Cardinality(Proc)

(* A process that asks for a buffer has none, and every buffer is either   *)
(* pinned or another process's.                                            *)
LEMMA RoomForOneMore ==
  ASSUME BufferInv, Room, NEW p \in Proc, ptr[p] = 0
  PROVE  len < NBUF
<1> DEFINE O == Proc \ {p}
           T == {ptr[q] : q \in O}
           f == [q \in O |-> ptr[q]]
<1>1. len \in Nat
  BY BufferAssumption DEF BufferInv, TypeOK
<1>2. IsFiniteSet(1..len) /\ Cardinality(1..len) = len
  BY <1>1, FS_Interval
<1>3. IsFiniteSet(Pinned) /\ Cardinality(Pinned) <= MaxPinned /\ Cardinality(Pinned) \in Nat
  <2>1. Pinned \in SUBSET (1..len)
    BY Zenon DEF Pinned
  <2> QED BY <1>2, <2>1, FS_Subset, FS_CardinalityType, Zenon DEF BufferInv, PinInv
<1>4. IsFiniteSet(O) /\ Cardinality(O) = Cardinality(Proc) - 1 /\ Cardinality(Proc) \in Nat
  BY FS_RemoveElement, FS_CardinalityType, BufferAssumption, Zenon
<1>5. f \in Surjection(O, T)
  BY DEF Surjection
<1>6. IsFiniteSet(T) /\ Cardinality(T) <= Cardinality(O) /\ Cardinality(T) \in Nat
  <2> HIDE DEF f, T, O
  <2> QED BY <1>4, <1>5, FS_Surjection, FS_CardinalityType
<1>7. 1..len \in SUBSET (Pinned \cup T)
  <2> SUFFICES ASSUME NEW t \in 1..len, t \notin T PROVE t \in Pinned
    BY Zenon
  <2>1. \A q \in Proc : ptr[q] # t
    BY <1>1
  <2>2. Users(t) = {}
    BY <2>1 DEF Users
  <2>3. slot[t].refcnt = 0
    BY <2>2, FS_EmptySet, Zenon DEF BufferInv, SlotInv
  <2>4. slot[t].dirty
    BY <2>3, Zenon DEF BufferInv, SlotInv
  <2> QED BY <2>1, <2>4, Zenon DEF Pinned
<1> HIDE DEF T, O
<1>8. /\ IsFiniteSet(Pinned \cup T) /\ Cardinality(Pinned \cap T) \in Nat
      /\ Cardinality(Pinned \cup T) = Cardinality(Pinned) + Cardinality(T) - Cardinality(Pinned \cap T)
  <2>1. Pinned \cap T \in SUBSET T
    OBVIOUS
  <2>2. IsFiniteSet(Pinned \cap T)
    BY <1>6, <2>1, FS_Subset
  <2> QED BY <1>3, <1>6, <2>2, FS_Union, FS_CardinalityType, Zenon
<1>9. len <= Cardinality(Pinned \cup T)
  <2> DEFINE N == 1..len
             S == Pinned \cup T
  <2>1. N \in SUBSET S /\ IsFiniteSet(S) /\ Cardinality(N) = len
    BY <1>2, <1>7, <1>8
  <2> HIDE DEF N, S
  <2>2. Cardinality(N) <= Cardinality(S)
    BY <2>1, FS_Subset
  <2> QED BY <2>1, <2>2 DEF S
<1> QED BY <1>1, <1>3, <1>4, <1>6, <1>8, <1>9, BufferAssumption DEF Room

(* The checks of bwrite, rw and release_buffer never fail, and push finds  *)
(* a free place.                                                           *)
NoPanic == \A p \in Proc : pc[p] # "panic"

LEMMA NoPanicStep ==
  ASSUME Careful, Room, BufferInv, NoPanic, [Next]_vars
  PROVE  NoPanic'
<1> USE BufferAssumption DEF NoPanic
<1>1. \A p \in Proc : pc[p] \in {"rw", "held"} => is_locked(p)
  BY Zenon DEF BufferInv, OwnerInv, Owning, Buf, is_locked
<1>2. \A p \in Proc : pc[p] = "rw" => ~Buf(p).valid \/ Buf(p).dirty
  BY DEF BufferInv, CallInv
<1>3. pc \in [Proc -> {"idle", "get", "lock", "lsleep", "read", "rw", "io", "iowake", "held", "brelse", "panic"}]
  BY DEF BufferInv, TypeOK
<1>4. ASSUME NEW p \in Proc, Get(p) PROVE NoPanic'
  <2>1. pc[p] = "get"
    BY <1>4 DEF Get
  <2>2. len < NBUF /\ len \in Nat /\ NBUF \in Nat
    <3>1. ptr[p] = 0
      BY <2>1, Pointers, Zenon DEF Pointing, Owning
    <3>2. len < NBUF
      BY <3>1, RoomForOneMore, Zenon
    <3> QED BY <3>2 DEF BufferInv, TypeOK
  <2>3. ~GetPanics(p)
    BY <2>2 DEF GetPanics
  <2> QED BY <1>3, <1>4, <2>3, GetCases DEF GetFound, GetNew
<1>5. ASSUME NEW p \in Proc, LockBuffer(p) \/ Read(p) \/ RwDone(p) PROVE NoPanic'
  BY <1>3, <1>5 DEF LockBuffer, Read, RwDone, Goto
<1>6. ASSUME NEW p \in Proc, Rw(p) PROVE NoPanic'
  BY <1>1, <1>2, <1>3, <1>6, Zenon DEF Rw, Goto
<1>7. ASSUME NEW p \in Proc, ReleaseBuffer(p) PROVE NoPanic'
  BY <1>3, <1>7, ReleaseCases DEF ReleaseRest
<1>8. ASSUME NEW p \in Proc, Brelse(p) PROVE NoPanic'
  BY <1>1, <1>3, <1>8 DEF Brelse
<1>9. ASSUME NEW p \in Proc, NEW b \in Block, Bread(p, b) PROVE NoPanic'
  BY <1>3, <1>9 DEF Bread, Goto
<1>10. ASSUME NEW p \in Proc, NEW v \in Val, Bwrite(p, v) \/ LogWrite(p, v) PROVE NoPanic'
  BY <1>1, <1>3, <1>10 DEF Bwrite, LogWrite, Goto
<1>11. CASE Device \/ UNCHANGED vars
  BY <1>11 DEF Device, vars
<1>12. CASE InterruptHandler
  BY <1>3, <1>12 DEF InterruptHandler
<1> QED BY <1>4, <1>5, <1>6, <1>7, <1>8, <1>9, <1>10, <1>11, <1>12, Zenon DEF Next, Step

(* For any number of processes, blocks and buffers: with room in the cache *)
(* for the blocks a transaction pins and one more for every process, and   *)
(* as long as no buffer moves that somebody else points to, no block is    *)
(* cached twice, the counts of users are right, retain of get in           *)
(* src/kernel/src/buf.rs finds nothing to remove, and none of the panics   *)
(* of the cache and of the driver is reached.                              *)
THEOREM CacheStaysExact == ASSUME Careful, Room PROVE Spec => []CacheExact
<1>1. Init => NoPanic
  BY DEF Init, NoPanic
<1>2. BufferInv /\ NoPanic /\ [Next]_vars => NoPanic'
  BY NoPanicStep
<1>3. BufferInv /\ NoPanic => CacheExact
  BY Zenon DEF BufferInv, NoPanic, CacheExact, SlotInv
<1> QED BY <1>1, <1>2, <1>3, BufferInvariant, PTL DEF Spec
=============================================================================
