---------------------------- MODULE BufferCache ----------------------------
(***************************************************************************)
(* The buffer cache and the disk driver below it.                          *)
(*                                                                         *)
(*   src/kernel/src/buf.rs   BufferCache: get, push, read, release_buffer, *)
(*                           Buffer: write, release                        *)
(*   src/kernel/src/ide.rs   IDE: rw, start, interrupt_handler             *)
(*   src/kernel/c/log.c      log_write, as far as it marks a buffer dirty  *)
(*                                                                         *)
(* The cache is an ArrayVec: buffers 1..len of slot are in it, and when    *)
(* one is removed the last one moves to its place.  Callers keep pointers  *)
(* into slot.  With Careful, a process lets go of a buffer only when that  *)
(* moves no buffer somebody else has a pointer to.                         *)
(*                                                                         *)
(* Critical sections under the locks of the cache, of a sleep lock and of  *)
(* the driver are one action each; queue is the list that starts at        *)
(* IDE.queue and runs through qnext.                                       *)
(***************************************************************************)
EXTENDS Naturals, Sequences, FiniteSetsExt

CONSTANTS
  Proc, Block, Val,
  InitVal,    \* content of the disk at first
  NBUF,       \* buffers in the cache
  MaxPinned,  \* blocks a log transaction may pin
  Careful,    \* see above
  None

ASSUME BufferAssumption ==
  /\ NBUF \in Nat \ {0} /\ MaxPinned \in Nat /\ Careful \in BOOLEAN
  /\ IsFiniteSet(Proc) /\ InitVal \in Val /\ None \notin Proc \cup Block

VARIABLES
  slot, len,             \* BufferCache.buffers
  queue,                 \* IDE.queue, as pointers
  disk, cmd, irq,        \* the disk, the command it works on, its interrupt line
  pc, blk, ptr,          \* a process: the block and the pointer to its buffer
  latest                 \* the content last given to a block by bwrite or log_write

dev == <<queue, disk, cmd, irq>>
vars == <<slot, len, dev, pc, blk, ptr, latest>>

Slots == 1..NBUF
Buffer == [blk : Block \cup {None}, valid : BOOLEAN, dirty : BOOLEAN, data : Val,
           owner : Proc \cup {None}, refcnt : Nat]
Command == [blk : Block, write : BOOLEAN, data : Val]

TypeOK ==
  /\ slot \in [Slots -> Buffer] /\ len \in 0..NBUF
  /\ queue \in Seq(Slots)
  /\ disk \in [Block -> Val] /\ cmd \in Command \cup {None} /\ irq \in BOOLEAN
  /\ pc \in [Proc -> {"idle", "get", "lock", "lsleep", "read", "rw", "io", "iowake", "held",
                      "brelse", "panic"}]
  /\ blk \in [Proc -> Block \cup {None}]
  /\ ptr \in [Proc -> Slots \cup {0}]
  /\ latest \in [Block -> Val]

(* Buffer::new, with the lock already held by p. *)
NewBuffer(b, p) ==
  [blk |-> b, valid |-> FALSE, dirty |-> FALSE, data |-> InitVal, owner |-> p, refcnt |-> 1]

Init ==
  /\ slot = [s \in Slots |-> [NewBuffer(None, None) EXCEPT !.refcnt = 0]] /\ len = 0
  /\ queue = <<>> /\ cmd = None /\ irq = FALSE
  /\ disk = [b \in Block |-> InitVal] /\ latest = disk
  /\ pc = [p \in Proc |-> "idle"]
  /\ blk = [p \in Proc |-> None] /\ ptr = [p \in Proc |-> 0]

-----------------------------------------------------------------------------
Goto(p, from, to) == pc[p] = from /\ pc' = [pc EXCEPT ![p] = to]
Buf(p) == slot[ptr[p]]
is_locked(p) == Buf(p).owner = p

(* bread is called. *)
Bread(p, b) ==
  /\ Goto(p, "idle", "get")
  /\ blk' = [blk EXCEPT ![p] = b]
  /\ UNCHANGED <<slot, len, dev, ptr, latest>>

(* retain: what is neither referenced nor dirty goes, the rest closes up. *)
Kept == {s \in 1..len : slot[s].refcnt # 0 \/ slot[s].dirty}
kept == Cardinality(Kept)
Retained ==
  [s \in Slots |-> IF s <= kept THEN slot[CHOOSE t \in Kept : Cardinality(Kept \cap 1..t) = s] ELSE slot[s]]

(* Mutant: refcnt is not incremented. *)
Get_NoCount(p) ==
  LET found == {s \in 1..kept : Retained[s].blk = blk[p]}
      at == Min(found)
      new == kept + 1
  IN
  /\ pc[p] = "get"
  /\ \/ /\ found # {}
        /\ slot' = Retained
        /\ len' = kept
        /\ ptr' = [ptr EXCEPT ![p] = at]
        /\ Goto(p, "get", "lock")
     \/ /\ found = {} /\ new <= NBUF
        /\ slot' = [Retained EXCEPT ![new] = NewBuffer(blk[p], p)]
        /\ len' = new
        /\ ptr' = [ptr EXCEPT ![p] = new]
        /\ Goto(p, "get", "read")
     \/ /\ found = {} /\ new > NBUF
        /\ Goto(p, "get", "panic")
        /\ UNCHANGED <<slot, len, ptr>>
  /\ UNCHANGED <<dev, blk, latest>>

(* get, up to the release of the lock of the cache. *)
Get(p) ==
  LET found == {s \in 1..kept : Retained[s].blk = blk[p]}
      at == Min(found)
      new == kept + 1
  IN
  /\ pc[p] = "get"
  /\ \/ /\ found # {}
        /\ slot' = [Retained EXCEPT ![at].refcnt = @ + 1]
        /\ len' = kept
        /\ ptr' = [ptr EXCEPT ![p] = at]
        /\ Goto(p, "get", "lock")
     \/ /\ found = {} /\ new <= NBUF
        /\ slot' = [Retained EXCEPT ![new] = NewBuffer(blk[p], p)]
        /\ len' = new
        /\ ptr' = [ptr EXCEPT ![p] = new]
        /\ Goto(p, "get", "read")
     \/ /\ found = {} /\ new > NBUF
        /\ Goto(p, "get", "panic")
        /\ UNCHANGED <<slot, len, ptr>>
  /\ UNCHANGED <<dev, blk, latest>>

(* get: buf.lock.acquire(), which sleeps on the address of the lock. *)
LockBuffer(p) ==
  /\ pc[p] = "lock"
  /\ IF Buf(p).owner = None
       THEN slot' = [slot EXCEPT ![ptr[p]].owner = p] /\ Goto(p, "lock", "read")
       ELSE UNCHANGED slot /\ Goto(p, "lock", "lsleep")
  /\ UNCHANGED <<len, dev, blk, ptr, latest>>

(* read: rw unless the buffer is valid. *)
Read(p) ==
  /\ Goto(p, "read", IF Buf(p).valid THEN "held" ELSE "rw")
  /\ UNCHANGED <<slot, len, dev, blk, ptr, latest>>

(* The holder changes the data and calls Buffer::write. *)
Bwrite(p, v) ==
  /\ Goto(p, "held", IF is_locked(p) THEN "rw" ELSE "panic")
  /\ slot' = [slot EXCEPT ![ptr[p]].data = v, ![ptr[p]].dirty = @ \/ is_locked(p)]
  /\ latest' = [latest EXCEPT ![blk[p]] = v]
  /\ UNCHANGED <<len, dev, blk, ptr>>

(* The holder changes the data and calls log_write, which pins it. *)
LogWrite(p, v) ==
  /\ pc[p] = "held"
  /\ Cardinality({s \in 1..len : slot[s].dirty} \cup {ptr[p]}) <= MaxPinned
  /\ slot' = [slot EXCEPT ![ptr[p]].data = v, ![ptr[p]].dirty = TRUE]
  /\ latest' = [latest EXCEPT ![blk[p]] = v]
  /\ UNCHANGED <<len, dev, pc, blk, ptr>>

-----------------------------------------------------------------------------
(* start: the command for the buffer at s; a write takes the data along. *)
Start(s) == [blk |-> slot[s].blk, write |-> slot[s].dirty, data |-> slot[s].data]

(* rw: its checks, the append to the queue, start if the queue was empty, *)
(* and the first sleep.                                                   *)
Rw(p) ==
  /\ pc[p] = "rw"
  /\ IF ~is_locked(p) \/ (Buf(p).valid /\ ~Buf(p).dirty)
       THEN Goto(p, "rw", "panic") /\ UNCHANGED <<queue, cmd>>
       ELSE /\ queue' = Append(queue, ptr[p])
            /\ cmd' = IF queue = <<>> THEN Start(ptr[p]) ELSE cmd
            /\ Goto(p, "rw", "io")
  /\ UNCHANGED <<slot, len, disk, irq, blk, ptr, latest>>

(* The disk finishes its command. *)
Device ==
  /\ cmd # None /\ ~irq
  /\ disk' = IF cmd.write THEN [disk EXCEPT ![cmd.blk] = cmd.data] ELSE disk
  /\ irq' = TRUE
  /\ UNCHANGED <<slot, len, queue, cmd, pc, blk, ptr, latest>>

(* Mutant: the data are not copied in. *)
InterruptHandler_NoData ==
  LET s == Head(queue) IN
  /\ irq /\ irq' = FALSE
  /\ queue # <<>> /\ queue' = Tail(queue)
  /\ slot' = [slot EXCEPT ![s].data = @,
                          ![s].valid = TRUE, ![s].dirty = FALSE]
  /\ pc' = [q \in Proc |-> IF pc[q] = "io" /\ ptr[q] = s THEN "iowake" ELSE pc[q]]
  /\ cmd' = IF queue' = <<>> THEN None ELSE Start(Head(queue'))
  /\ UNCHANGED <<len, disk, blk, ptr, latest>>

(* Mutant: nobody is woken. *)
InterruptHandler_NoWakeup ==
  LET s == Head(queue) IN
  /\ irq /\ irq' = FALSE
  /\ queue # <<>> /\ queue' = Tail(queue)
  /\ slot' = [slot EXCEPT ![s].data = IF slot[s].dirty THEN @ ELSE disk[cmd.blk],
                          ![s].valid = TRUE, ![s].dirty = FALSE]
  /\ UNCHANGED pc
  /\ cmd' = IF queue' = <<>> THEN None ELSE Start(Head(queue'))
  /\ UNCHANGED <<len, disk, blk, ptr, latest>>

(* interrupt_handler: the first request is done, the next one starts. *)
InterruptHandler ==
  LET s == Head(queue) IN
  /\ irq /\ irq' = FALSE
  /\ queue # <<>> /\ queue' = Tail(queue)
  /\ slot' = [slot EXCEPT ![s].data = IF slot[s].dirty THEN @ ELSE disk[cmd.blk],
                          ![s].valid = TRUE, ![s].dirty = FALSE]
  /\ pc' = [q \in Proc |-> IF pc[q] = "io" /\ ptr[q] = s THEN "iowake" ELSE pc[q]]
  /\ cmd' = IF queue' = <<>> THEN None ELSE Start(Head(queue'))
  /\ UNCHANGED <<len, disk, blk, ptr, latest>>

(* rw: the loop around sleep. *)
RwDone(p) ==
  /\ Goto(p, "iowake", IF Buf(p).valid /\ ~Buf(p).dirty THEN "held" ELSE "io")
  /\ UNCHANGED <<slot, len, dev, blk, ptr, latest>>

-----------------------------------------------------------------------------
(* Buffer::release: the sleep lock, and whoever sleeps on its address. *)
Brelse(p) ==
  /\ pc[p] = "held"
  /\ IF is_locked(p)
       THEN /\ slot' = [slot EXCEPT ![ptr[p]].owner = None]
            /\ pc' = [q \in Proc |-> CASE q = p -> "brelse"
                                       [] pc[q] = "lsleep" /\ ptr[q] = ptr[p] -> "lock"
                                       [] OTHER -> pc[q]]
       ELSE Goto(p, "held", "panic") /\ UNCHANGED slot
  /\ UNCHANGED <<len, dev, blk, ptr, latest>>

(* swap_remove: the removed buffer is left behind the end. *)
SwapRemove(sl, at) == [sl EXCEPT ![at] = sl[len], ![len] = sl[at]]

(* Processes with a pointer to slot s. *)
Users(s) == {q \in Proc : ptr[q] = s}

(* release_buffer. *)
ReleaseBuffer(p) ==
  LET s == ptr[p]
      sl == [slot EXCEPT ![s].refcnt = @ - 1]
      gone == sl[s].refcnt = 0 /\ ~sl[s].dirty
      found == {t \in 1..len : sl[t].blk = sl[s].blk}
      at == Min(found)
  IN
  /\ pc[p] = "brelse"
  /\ Careful /\ gone => at = len \/ Users(len) \subseteq {p}
  /\ IF gone /\ found = {} THEN Goto(p, "brelse", "panic") /\ UNCHANGED <<slot, len>>
     ELSE /\ Goto(p, "brelse", "idle")
          /\ slot' = IF gone THEN SwapRemove(sl, at) ELSE sl
          /\ len' = IF gone THEN len - 1 ELSE len
  /\ ptr' = [ptr EXCEPT ![p] = 0]
  /\ blk' = [blk EXCEPT ![p] = None]
  /\ UNCHANGED <<dev, latest>>

Step(p) ==
  Get(p) \/ LockBuffer(p) \/ Read(p) \/ Rw(p) \/ RwDone(p) \/ ReleaseBuffer(p)

Next ==
  \/ \E p \in Proc :
       \/ Step(p) \/ Brelse(p)
       \/ \E b \in Block : Bread(p, b)
       \/ \E v \in Val : Bwrite(p, v) \/ LogWrite(p, v)
  \/ Device \/ InterruptHandler

Spec == Init /\ [][Next]_vars

-----------------------------------------------------------------------------
(* "Return a locked buf with the contents of the indicated block": from   *)
(* the return of bread to brelse, the caller's pointer leads to the       *)
(* buffer of its block, locked by it, with what was last written to the   *)
(* block through the cache, whether it came from the disk, from another   *)
(* process's buffer or from a buffer log_write has pinned.                *)
BreadReturnsBlock ==
  \A p \in Proc : pc[p] = "held" =>
    Buf(p).blk = blk[p] /\ is_locked(p) /\ Buf(p).valid /\ Buf(p).data = latest[blk[p]]

(* No block is cached twice, refcnt counts the processes that have a      *)
(* pointer to the buffer, and get finds nothing to throw away:            *)
(* release_buffer has removed whatever is neither referenced nor dirty.   *)
(* None of the panics of buf.rs and ide.rs is reached when the cache has  *)
(* room for the pinned blocks and one more for every process.             *)
CacheExact ==
  /\ TypeOK
  /\ \A p \in Proc : pc[p] # "panic"
  /\ \A s, t \in 1..len : slot[s].blk = slot[t].blk => s = t
  /\ \A s \in 1..len :
       /\ slot[s].refcnt = Cardinality(Users(s))
       /\ slot[s].refcnt # 0 \/ slot[s].dirty

(* Nobody sleeps for nothing.  Whoever sleeps in rw has a request in the  *)
(* queue, and the disk works on the first request there with the block,   *)
(* the direction and the data its buffer has now, so that each interrupt  *)
(* shortens the queue; whoever sleeps on the lock of a buffer sleeps      *)
(* until the process that holds it now lets it go.                        *)
NoLostWakeup ==
  /\ \A p \in Proc : pc[p] = "io" => \E i \in DOMAIN queue : queue[i] = ptr[p]
  /\ IsInjective(queue)
  /\ cmd = IF queue = <<>> THEN None ELSE Start(Head(queue))
  /\ irq => cmd # None
  /\ \A p \in Proc : pc[p] = "lsleep" => Buf(p).owner \in Proc \ {p}
=============================================================================
