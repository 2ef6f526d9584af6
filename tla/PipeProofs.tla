----------------------------- MODULE PipeProofs -----------------------------
(***************************************************************************)
(* The pipe is a bounded FIFO stream that loses no wakeup and is freed     *)
(* once, for any number of processes, any size of the ring and any wrap of *)
(* its counters that is a multiple of it.                                  *)
(***************************************************************************)
EXTENDS Pipe, Integers, SequenceTheorems, TLAPS

(* The locations at which a process has the lock of the pipe. *)
Inside == {"readwait", "readsleep", "copy", "put", "writesleep"}

(* The bytes in the ring. *)
Used == (nwrite + Wrap - nread) % Wrap

(* A call never does more than it was asked for. *)
CallInv ==
  \A p \in Proc :
    /\ i[p] <= n[p]
    /\ pc[p] \in {"user"} \cup CloseLocations => i[p] = 0

LockInv == \A p \in Proc : lock = p <=> pc[p] \in Inside

(* An end is open as long as somebody has it or is about to close it; only *)
(* the process that closed the last one is on its way to kfree.            *)
EndsInv ==
  /\ readopen \/ writeopen => alloc
  /\ \A p \in Proc :
       /\ pc[p] \in ReadLocations => "r" \in fds[p]
       /\ pc[p] \in WriteLocations => "w" \in fds[p]
       /\ "r" \in fds[p] \/ pc[p] = "closer" => readopen
       /\ "w" \in fds[p] \/ pc[p] = "closew" => writeopen
       /\ pc[p] = "kfree" => alloc /\ ~readopen /\ ~writeopen
       /\ \A q \in Proc :
            /\ pc[p] = "closer" => "r" \notin fds[q]
            /\ pc[p] = "closew" => "w" \notin fds[q]
            /\ pc[p] = pc[q] /\ pc[p] \in CloseLocations => p = q

RingInv == Used <= PIPESIZE

(* A process about to sleep has the lock, so what it tested still holds; a *)
(* process asleep sleeps for a reason, or the process with the lock has    *)
(* changed the ring and owes it a wakeup.                                  *)
SleepInv ==
  \A p \in Proc :
    /\ pc[p] = "readsleep" => Empty /\ writeopen
    /\ pc[p] = "writesleep" => Full /\ readopen
    /\ pc[p] = "rasleep" => writeopen /\ (Empty \/ unwoken \/ \E q \in Proc : pc[q] = "put")
    /\ pc[p] = "wasleep" => readopen /\ (Full \/ \E q \in Proc : pc[q] = "copy")

(* A reader gets to its copying loop with nothing to copy only when there  *)
(* is no writer.                                                           *)
CopyInv == \A p \in Proc : pc[p] = "copy" /\ i[p] = 0 => ~Empty \/ ~writeopen

PipeInv == TypeOK /\ CallInv /\ LockInv /\ EndsInv /\ RingInv /\ SleepInv /\ CopyInv

-----------------------------------------------------------------------------
(* Division with a remainder. *)
LEMMA Gap == ASSUME NEW m \in Nat \ {0}, NEW k \in Int, k > 0 PROVE m * k >= m
OBVIOUS

LEMMA Quot == ASSUME NEW m \in Nat \ {0}, NEW a \in Int
  PROVE a \div m \in Int /\ a % m \in 0 .. m - 1 /\ a = m * (a \div m) + (a % m)
OBVIOUS

LEMMA Dist == ASSUME NEW m \in Nat \ {0}, NEW a \in Int, NEW b \in Int PROVE m * (a - b) = m * a - m * b
OBVIOUS

LEMMA Residue == ASSUME NEW m \in Nat \ {0}, NEW q \in Int, NEW r \in 0 .. m - 1, NEW a \in Int, a = m * q + r
  PROVE a % m = r
<1> DEFINE q1 == a \div m
           r1 == a % m
<1>1. q1 \in Int /\ r1 \in 0 .. m - 1 /\ a = m * q1 + r1
  BY Quot
<1>2. m * (q1 - q) = r - r1 /\ m * (q - q1) = r1 - r
  <2>1. m * (q1 - q) = m * q1 - m * q /\ m * (q - q1) = m * q - m * q1
    BY <1>1, Dist
  <2>2. m * q1 \in Int /\ m * q \in Int
    BY <1>1
  <2> HIDE DEF q1, r1
  <2> QED BY <1>1, <2>1, <2>2
<1> HIDE DEF q1, r1
<1>3. ~(q1 - q > 0)
  <2> SUFFICES ASSUME q1 - q > 0 PROVE FALSE OBVIOUS
  <2>1. m * (q1 - q) >= m BY <1>1, Gap
  <2> QED BY <1>1, <1>2, <2>1
<1>4. ~(q - q1 > 0)
  <2> SUFFICES ASSUME q - q1 > 0 PROVE FALSE OBVIOUS
  <2>1. m * (q - q1) >= m BY <1>1, Gap
  <2> QED BY <1>1, <1>2, <2>1
<1>5. q = q1
  BY <1>1, <1>3, <1>4
<1>6. r = r1
  <2>1. m * q \in Int BY <1>1
  <2> QED BY <1>1, <1>5, <2>1
<1> QED BY <1>6 DEF r1

(* A multiple of m changes no residue. *)
LEMMA Shift ==
  ASSUME NEW m \in Nat \ {0}, NEW a \in Int, NEW k \in Int
  PROVE  (m * k + a) % m = a % m
<1> DEFINE q == a \div m
           r == a % m
<1>1. q \in Int /\ r \in 0 .. m - 1 /\ a = m * q + r
  BY Quot
<1> HIDE DEF q, r
<1>2. m * (q + k) = m * q + m * k
  BY <1>1
<1>3. m * k + a = m * (q + k) + r /\ m * k + a \in Int /\ q + k \in Int
  BY <1>1, <1>2
<1>4. (m * k + a) % m = r
  BY <1>1, <1>3, Residue
<1> QED BY <1>4 DEF r

(* Numbers less than m apart have different residues. *)
LEMMA Apart ==
  ASSUME NEW m \in Nat \ {0}, NEW a \in Int, NEW d \in 1 .. m - 1
  PROVE  (a + d) % m # a % m
<1> SUFFICES ASSUME (a + d) % m = a % m PROVE FALSE
  OBVIOUS
<1> DEFINE q == a \div m
           s == (a + d) \div m
           r == a % m
<1>1. q \in Int /\ r \in 0 .. m - 1 /\ a = m * q + r /\ s \in Int /\ a + d = m * s + r
  BY Quot
<1> HIDE DEF q, s, r
<1>2. m * (s - q) = m * s - m * q /\ m * s \in Int /\ m * q \in Int
  BY <1>1, Dist
<1>3. m * (s - q) = d
  BY <1>1, <1>2
<1>4. CASE s - q > 0
  BY <1>1, <1>3, <1>4, Gap
<1>5. CASE s - q <= 0
  <2>1. q - s > 0 \/ s - q = 0
    BY <1>1, <1>5
  <2>2. CASE q - s > 0
    <3>1. m * (q - s) >= m /\ m * (q - s) = m * q - m * s
      BY <1>1, <2>2, Gap, Dist
    <3> QED BY <1>2, <1>3, <3>1
  <2>3. CASE s - q = 0
    BY <1>3, <2>3
  <2> QED BY <2>1, <2>2, <2>3
<1> QED BY <1>1, <1>4, <1>5

(* What a step of the invariant needs of the constants. *)
LEMMA Sizes ==
  /\ PIPESIZE \in Nat \ {0} /\ Wrap \in Nat \ {0} /\ PIPESIZE < Wrap
  /\ MaxN \in Nat /\ None \notin Proc \cup Val
BY PipeAssumption

(* The counters, without the modulus. *)
LEMMA Wraps ==
  ASSUME NEW a \in 0 .. 2 * Wrap - 1
  PROVE  a % Wrap = IF a < Wrap THEN a ELSE a - Wrap
<1>1. CASE a < Wrap
  BY <1>1, Sizes
<1>2. CASE a >= Wrap
  <2>1. a = Wrap * 1 + (a - Wrap) /\ a - Wrap \in 0 .. Wrap - 1
    BY <1>2, Sizes
  <2> QED BY <1>2, <2>1, Sizes, Residue
<1> QED BY <1>1, <1>2, Sizes

LEMMA IncIs ==
  ASSUME NEW a \in 0 .. Wrap - 1
  PROVE  Inc(a) \in 0 .. Wrap - 1 /\ Inc(a) = IF a + 1 < Wrap THEN a + 1 ELSE a + 1 - Wrap
<1> DEFINE b == a + 1
<1>1. b \in 0 .. 2 * Wrap - 1
  BY Sizes
<1>2. b % Wrap = IF b < Wrap THEN b ELSE b - Wrap
  <2> HIDE DEF b
  <2> QED BY <1>1, Wraps
<1> QED BY <1>2, Sizes DEF Inc

LEMMA Distance ==
  ASSUME NEW a \in 0 .. Wrap - 1, NEW b \in 0 .. Wrap - 1
  PROVE  (a + Wrap - b) % Wrap = IF a >= b THEN a - b ELSE a - b + Wrap
<1> DEFINE d == a + Wrap - b
<1>1. d \in 0 .. 2 * Wrap - 1
  BY Sizes
<1>2. d % Wrap = IF d < Wrap THEN d ELSE d - Wrap
  <2> HIDE DEF d
  <2> QED BY <1>1, Wraps
<1> QED BY <1>2, Sizes

LEMMA DistanceIn ==
  ASSUME NEW a \in 0 .. Wrap - 1, NEW b \in 0 .. Wrap - 1
  PROVE  (a + Wrap - b) % Wrap \in 0 .. Wrap
<1> DEFINE d == a + Wrap - b
<1>1. d \in Int
  BY Sizes
<1>2. d % Wrap \in 0 .. Wrap - 1
  <2> HIDE DEF d
  <2> QED BY <1>1, Quot, Sizes
<1>3. d % Wrap \in 0 .. Wrap
  <2> HIDE DEF d
  <2> QED BY <1>2, Sizes
<1> QED BY <1>3

LEMMA UsedIs ==
  ASSUME TypeOK
  PROVE  /\ Used = IF nwrite >= nread THEN nwrite - nread ELSE nwrite - nread + Wrap
         /\ Used \in 0 .. Wrap - 1
         /\ Empty <=> Used = 0
         /\ Full <=> Used = PIPESIZE
<1>1. nread \in 0 .. Wrap - 1 /\ nwrite \in 0 .. Wrap - 1 /\ PIPESIZE \in 0 .. Wrap /\ PIPESIZE < Wrap
  BY Sizes DEF TypeOK
<1>2. Used = IF nwrite >= nread THEN nwrite - nread ELSE nwrite - nread + Wrap
  BY <1>1, Distance DEF Used
<1>3. (nread + PIPESIZE) % Wrap = IF nread + PIPESIZE < Wrap THEN nread + PIPESIZE ELSE nread + PIPESIZE - Wrap
  <2> DEFINE d == nread + PIPESIZE
  <2>1. d \in 0 .. 2 * Wrap - 1
    BY <1>1, Sizes
  <2>2. d % Wrap = IF d < Wrap THEN d ELSE d - Wrap
    <3> HIDE DEF d
    <3> QED BY <2>1, Wraps
  <2> QED BY <1>1, <2>2, Sizes
<1> QED BY <1>1, <1>2, <1>3, Sizes DEF Empty, Full

(* A byte more, a byte less. *)
LEMMA UsedMoves ==
  ASSUME NEW a \in 0 .. Wrap - 1, NEW b \in 0 .. Wrap - 1
  PROVE  /\ (a + Wrap - b) % Wrap < PIPESIZE =>
              (Inc(a) + Wrap - b) % Wrap = ((a + Wrap - b) % Wrap) + 1
         /\ (a + Wrap - b) % Wrap # 0 =>
              (a + Wrap - Inc(b)) % Wrap = ((a + Wrap - b) % Wrap) - 1
         /\ Inc(a) \in 0 .. Wrap - 1
<1> DEFINE u == (a + Wrap - b) % Wrap
<1>1. /\ Inc(a) = IF a + 1 < Wrap THEN a + 1 ELSE a + 1 - Wrap
      /\ Inc(b) = IF b + 1 < Wrap THEN b + 1 ELSE b + 1 - Wrap
  BY IncIs
<1>2. Inc(a) \in 0 .. Wrap - 1 /\ Inc(b) \in 0 .. Wrap - 1
  BY IncIs
<1>3. u = IF a >= b THEN a - b ELSE a - b + Wrap
  BY Distance
<1>4. (Inc(a) + Wrap - b) % Wrap = IF Inc(a) >= b THEN Inc(a) - b ELSE Inc(a) - b + Wrap
  BY <1>2, Distance
<1>5. (a + Wrap - Inc(b)) % Wrap = IF a >= Inc(b) THEN a - Inc(b) ELSE a - Inc(b) + Wrap
  BY <1>2, Distance
<1> HIDE DEF u
<1>6. /\ u < PIPESIZE => (Inc(a) + Wrap - b) % Wrap = u + 1
      /\ u # 0 => (a + Wrap - Inc(b)) % Wrap = u - 1
  BY <1>1, <1>2, <1>3, <1>4, <1>5, Sizes
<1> QED BY <1>2, <1>6 DEF u

-----------------------------------------------------------------------------
Locs == {"user"} \cup ReadLocations \cup WriteLocations \cup CloseLocations

LEMMA PipeInitInv == Init => PipeInv
<1> SUFFICES ASSUME Init PROVE PipeInv
  OBVIOUS
<1>1. TypeOK
  <2>1. data \in [0..PIPESIZE - 1 -> Val]
    BY PipeAssumption DEF Init, Junk
  <2>2. nread \in 0..Wrap - 1 /\ nwrite \in 0..Wrap - 1 /\ n \in [Proc -> 0..MaxN] /\ i \in [Proc -> 0..MaxN]
    BY Sizes DEF Init
  <2>3. killed \in [Proc -> BOOLEAN]
    BY DEF Init
  <2> QED BY <2>1, <2>2, <2>3, Zenon DEF Init, TypeOK
<1>2. RingInv
  BY <1>1, UsedIs, Sizes DEF Init, RingInv, Empty
<1>3. \A p \in Proc : pc[p] = "user" /\ n[p] = 0 /\ i[p] = 0 /\ fds[p] = {}
  BY Zenon DEF Init
<1>4. CallInv
  <2>1. \A p \in Proc : i[p] <= n[p]
    <3>1. 0 <= 0
      OBVIOUS
    <3> QED BY <1>3, <3>1, Zenon
  <2> QED BY <1>3, <2>1, Zenon DEF CallInv
<1>5. LockInv
  <2>1. lock = None
    BY Zenon DEF Init
  <2> QED BY <1>3, <2>1, Sizes DEF LockInv, Inside
<1>6. EndsInv
  BY <1>3, Zenon DEF Init, EndsInv, ReadLocations, WriteLocations, CloseLocations
<1>7. SleepInv /\ CopyInv
  BY <1>3, Zenon DEF SleepInv, CopyInv
<1> QED BY <1>1, <1>2, <1>4, <1>5, <1>6, <1>7, Zenon DEF PipeInv

(* A step that leaves the ring alone leaves what is in it alone. *)
LEMMA RingKept ==
  ASSUME RingInv, UNCHANGED ring
  PROVE  RingInv' /\ Empty' = Empty /\ Full' = Full
BY Zenon DEF ring, RingInv, Used, Empty, Full

(* A step of p moves no other process, except that it may wake it. *)
Moved(p) ==
  \A q \in Proc : q # p =>
    \/ pc'[q] = pc[q]
    \/ pc[q] = "rasleep" /\ pc'[q] = "rrelock"
    \/ pc[q] = "wasleep" /\ pc'[q] = "wrelock"

LEMMA MovedAlone ==
  ASSUME TypeOK, NEW p \in Proc, NEW to \in Locs, pc' = [pc EXCEPT ![p] = to]
  PROVE  /\ pc' \in [Proc -> Locs] /\ pc'[p] = to /\ Moved(p)
         /\ \A q \in Proc : q # p => pc'[q] = pc[q]
BY Zenon DEF TypeOK, Locs, Moved

LEMMA MovedWaking ==
  ASSUME TypeOK, NEW p \in Proc, NEW to \in Locs, WakeReaders(p, to) \/ WakeWriters(p, to)
  PROVE  pc' \in [Proc -> Locs] /\ pc'[p] = to /\ Moved(p)
<1>0. /\ \A q \in Proc : pc[q] \in Locs
      /\ "rrelock" \in Locs /\ "wrelock" \in Locs
  BY Zenon DEF TypeOK, Locs, ReadLocations, WriteLocations
<1>1. CASE WakeReaders(p, to)
  <2>1. /\ pc' = [q \in Proc |-> pc'[q]]
        /\ \A q \in Proc : pc'[q] = IF q = p THEN to ELSE IF pc[q] = "rasleep" THEN "rrelock" ELSE pc[q]
    BY <1>1, Zenon DEF WakeReaders, Wake
  <2> QED BY <1>0, <2>1 DEF Moved
<1>2. CASE WakeWriters(p, to)
  <2>1. /\ pc' = [q \in Proc |-> pc'[q]]
        /\ \A q \in Proc : pc'[q] = IF q = p THEN to ELSE IF pc[q] = "wasleep" THEN "wrelock" ELSE pc[q]
    BY <1>2, Zenon DEF WakeWriters, Wake
  <2> QED BY <1>0, <2>1 DEF Moved
<1> QED BY <1>1, <1>2, Zenon

LEMMA Woken ==
  ASSUME NEW p \in Proc, NEW to, to \notin {"rasleep", "wasleep"}
  PROVE  /\ WakeReaders(p, to) => \A q \in Proc : pc'[q] # "rasleep"
         /\ WakeWriters(p, to) => \A q \in Proc : pc'[q] # "wasleep"
BY DEF WakeReaders, WakeWriters, Wake

LEMMA EndsKept ==
  ASSUME EndsInv, NEW p \in Proc, Moved(p), UNCHANGED <<alloc, readopen, writeopen, fds>>,
         pc'[p] \in ReadLocations => "r" \in fds[p],
         pc'[p] \in WriteLocations => "w" \in fds[p],
         pc'[p] \in CloseLocations => pc'[p] = pc[p]
  PROVE  EndsInv'
<1>1. \A q \in Proc : /\ pc'[q] \in ReadLocations => "r" \in fds[q]
                      /\ pc'[q] \in WriteLocations => "w" \in fds[q]
  BY DEF Moved, EndsInv, ReadLocations, WriteLocations
<1>2. \A q \in Proc : pc'[q] \in CloseLocations => pc'[q] = pc[q]
  BY DEF Moved, CloseLocations
<1>3. \A q \in Proc : /\ pc'[q] = "closer" => pc[q] = "closer"
                      /\ pc'[q] = "closew" => pc[q] = "closew"
                      /\ pc'[q] = "kfree" => pc[q] = "kfree"
  BY <1>2, Zenon DEF CloseLocations
<1>4. \A q, r \in Proc : pc'[q] = pc'[r] /\ pc'[q] \in CloseLocations => q = r
  <2> SUFFICES ASSUME NEW q \in Proc, NEW r \in Proc, pc'[q] = pc'[r], pc'[q] \in CloseLocations PROVE q = r
    OBVIOUS
  <2>1. pc[q] = pc[r] /\ pc[q] \in CloseLocations
    BY <1>2, Zenon
  <2> QED BY <2>1, Zenon DEF EndsInv
<1> QED BY <1>1, <1>3, <1>4 DEF EndsInv

LEMMA LockKept ==
  ASSUME LockInv, NEW p \in Proc, Moved(p), lock' = lock, pc'[p] \in Inside <=> pc[p] \in Inside
  PROVE  LockInv'
<1>1. \A q \in Proc : pc'[q] \in Inside <=> pc[q] \in Inside
  BY DEF Moved, Inside
<1> QED BY <1>1, Zenon DEF LockInv

LEMMA LockGiven ==
  ASSUME LockInv, NEW p \in Proc, Moved(p), lock' = None, lock = p, pc'[p] \notin Inside
  PROVE  LockInv'
<1>1. \A q \in Proc : q # p => pc[q] \notin Inside
  BY Zenon DEF LockInv
<1>2. \A q \in Proc : pc'[q] \notin Inside
  BY <1>1 DEF Moved, Inside
<1> QED BY <1>2, Sizes, Zenon DEF LockInv

LEMMA CallKept ==
  ASSUME CallInv, NEW p \in Proc, Moved(p), UNCHANGED <<n, i>>,
         pc'[p] \in {"user"} \cup CloseLocations => i[p] = 0
  PROVE  CallInv'
<1>1. \A q \in Proc : pc'[q] \in {"user"} \cup CloseLocations => i[q] = 0
  BY DEF Moved, CallInv, CloseLocations
<1> QED BY <1>1, Zenon DEF CallInv

LEMMA CallReturned ==
  ASSUME TypeOK, CallInv, NEW p \in Proc, Moved(p), Return(p)
  PROVE  /\ CallInv'
         /\ lock' \in Proc \cup {None} /\ n' \in [Proc -> 0..MaxN] /\ i' \in [Proc -> 0..MaxN]
<1>0. 0 \in 0..MaxN
  BY Sizes
<1>1. /\ n'[p] = 0 /\ i'[p] = 0 /\ \A q \in Proc : q # p => n'[q] = n[q] /\ i'[q] = i[q]
      /\ n' \in [Proc -> 0..MaxN] /\ i' \in [Proc -> 0..MaxN] /\ lock' \in Proc \cup {None}
  BY <1>0, Zenon DEF Return, TypeOK
<1>2. \A q \in Proc : pc'[q] \in {"user"} \cup CloseLocations => i'[q] = 0
  BY <1>1 DEF Moved, CallInv, CloseLocations
<1>3. \A q \in Proc : i'[q] <= n'[q]
  BY <1>1 DEF CallInv
<1> QED BY <1>1, <1>2, <1>3, Zenon DEF CallInv

LEMMA SleepKept ==
  ASSUME SleepInv, CopyInv, NEW p \in Proc, Moved(p),
         Empty' = Empty, Full' = Full, UNCHANGED <<readopen, writeopen, unwoken, i>>,
         \/ pc'[p] = pc[p]
         \/ /\ pc'[p] \notin {"readsleep", "writesleep", "rasleep", "wasleep", "copy"}
            /\ pc[p] \notin {"put", "copy"}
  PROVE  SleepInv' /\ CopyInv'
<1>1. \A q \in Proc : pc'[q] \in {"readsleep", "writesleep", "rasleep", "wasleep", "copy"} => pc'[q] = pc[q]
  BY DEF Moved
<1>2. \A q \in Proc : pc[q] \in {"put", "copy"} => pc'[q] = pc[q]
  BY DEF Moved
<1>3. /\ (\E q \in Proc : pc[q] = "put") => \E q \in Proc : pc'[q] = "put"
      /\ (\E q \in Proc : pc[q] = "copy") => \E q \in Proc : pc'[q] = "copy"
  BY <1>2, Zenon
<1>4. SleepInv'
  <2> SUFFICES ASSUME NEW q \in Proc
               PROVE  /\ pc'[q] = "readsleep" => Empty /\ writeopen
                      /\ pc'[q] = "writesleep" => Full /\ readopen
                      /\ pc'[q] = "rasleep" => writeopen /\ (Empty \/ unwoken \/ \E r \in Proc : pc'[r] = "put")
                      /\ pc'[q] = "wasleep" => readopen /\ (Full \/ \E r \in Proc : pc'[r] = "copy")
    BY Zenon DEF SleepInv
  <2> QED BY <1>1, <1>3, Zenon DEF SleepInv
<1>5. CopyInv'
  BY <1>1, Zenon DEF CopyInv
<1> QED BY <1>4, <1>5

(* The process that has the lock is alone in the pipe. *)
LEMMA Alone ==
  ASSUME PipeInv, NEW p \in Proc, pc[p] \in Inside
  PROVE  lock = p /\ \A q \in Proc : q # p => pc[q] \notin Inside
BY Zenon DEF PipeInv, LockInv

(* With nobody at work on the ring, sleepers sleep for a reason. *)
LEMMA Quiet ==
  ASSUME PipeInv, \A q \in Proc : pc[q] \notin {"put", "copy"}
  PROVE  \A q \in Proc : /\ pc[q] = "rasleep" => writeopen /\ (Empty \/ unwoken)
                         /\ pc[q] = "wasleep" => readopen /\ Full
BY Zenon DEF PipeInv, SleepInv

-----------------------------------------------------------------------------
(* What processes do outside of the pipe: pipe() itself, *)
LEMMA PipeallocInv ==
  ASSUME PipeInv, NEW p \in Proc, Pipealloc(p)
  PROVE  PipeInv'
<1>0. TypeOK /\ CallInv /\ EndsInv
  BY Zenon DEF PipeInv
<1>1. /\ ~alloc /\ alloc' = TRUE /\ readopen' = TRUE /\ writeopen' = TRUE
      /\ nread' = 0 /\ nwrite' = 0 /\ lock' = None
      /\ fds' = [fds EXCEPT ![p] = {"r", "w"}]
      /\ delivered' = None /\ unwoken' = FALSE
      /\ UNCHANGED <<data, pc, n, i, killed>>
  BY Zenon DEF Pipealloc
<1>2. 0 \in 0..Wrap - 1
  BY Sizes
<1>3. TypeOK'
  <2>1. fds' \in [Proc -> SUBSET {"r", "w"}]
    BY <1>0, <1>1, Zenon DEF TypeOK
  <2> QED BY <1>0, <1>1, <1>2, <2>1, Zenon DEF TypeOK
<1>4. \A q \in Proc : pc[q] = "user"
  <2>1. \A q \in Proc : pc[q] \notin ReadLocations \cup WriteLocations \cup CloseLocations
    BY <1>0, <1>1, Zenon DEF EndsInv, CloseLocations
  <2> QED BY <1>0, <2>1, Zenon DEF TypeOK
<1>5. RingInv'
  BY <1>1, <1>2, Distance, Sizes DEF RingInv, Used
<1>6. CallInv'
  BY <1>0, <1>1, Zenon DEF CallInv
<1>7. LockInv'
  BY <1>1, <1>4, Sizes DEF LockInv, Inside
<1>8. EndsInv'
  BY <1>1, <1>4, Zenon DEF EndsInv, ReadLocations, WriteLocations, CloseLocations
<1>9. SleepInv' /\ CopyInv'
  BY <1>1, <1>4, Zenon DEF SleepInv, CopyInv
<1> QED BY <1>3, <1>5, <1>6, <1>7, <1>8, <1>9, Zenon DEF PipeInv

(* kill, *)
LEMMA KillInv ==
  ASSUME PipeInv, NEW p \in Proc, Kill(p)
  PROVE  PipeInv'
<1>0. TypeOK /\ CallInv /\ LockInv /\ EndsInv /\ RingInv /\ SleepInv /\ CopyInv
  BY Zenon DEF PipeInv
<1> DEFINE to == CASE pc[p] = "rasleep" -> "rrelock" [] pc[p] = "wasleep" -> "wrelock" [] OTHER -> pc[p]
<1>1. /\ killed' = [killed EXCEPT ![p] = TRUE] /\ pc' = [pc EXCEPT ![p] = to] /\ delivered' = None
      /\ UNCHANGED <<alloc, lock, data, nread, nwrite, readopen, writeopen, fds, n, i, unwoken>>
      /\ UNCHANGED ring
  BY Zenon DEF Kill, ring, ends
<1>2. /\ pc[p] = "rasleep" => to = "rrelock"
      /\ pc[p] = "wasleep" => to = "wrelock"
      /\ pc[p] \notin {"rasleep", "wasleep"} => to = pc[p]
  OBVIOUS
<1> HIDE DEF to
<1>3. to \in Locs
  BY <1>0, <1>2, ZenonT(40) DEF TypeOK, Locs, ReadLocations, WriteLocations
<1>4. pc' \in [Proc -> Locs] /\ pc'[p] = to /\ Moved(p)
  BY <1>0, <1>1, <1>3, MovedAlone, Zenon
<1>5. TypeOK'
  BY <1>0, <1>1, <1>4, Zenon DEF TypeOK, Locs
<1>6. RingInv' /\ Empty' = Empty /\ Full' = Full
  BY <1>0, <1>1, RingKept, Zenon
<1>7. CallInv'
  <2>1. pc'[p] \in {"user"} \cup CloseLocations => i[p] = 0
    BY <1>0, <1>2, <1>4 DEF CallInv, CloseLocations
  <2> QED BY <1>0, <1>1, <1>4, <2>1, CallKept, Zenon
<1>8. LockInv'
  <2>1. pc'[p] \in Inside <=> pc[p] \in Inside
    BY <1>2, <1>4 DEF Inside
  <2> QED BY <1>0, <1>1, <1>4, <2>1, LockKept, Zenon
<1>9. EndsInv'
  <2>1. /\ pc'[p] \in ReadLocations => "r" \in fds[p]
        /\ pc'[p] \in WriteLocations => "w" \in fds[p]
    BY <1>0, <1>2, <1>4 DEF EndsInv, ReadLocations, WriteLocations
  <2>2. pc'[p] \in CloseLocations => pc'[p] = pc[p]
    BY <1>2, <1>4 DEF CloseLocations
  <2> QED BY <1>0, <1>1, <1>4, <2>1, <2>2, EndsKept, Zenon
<1>10. SleepInv' /\ CopyInv'
  <2>1. \/ pc'[p] = pc[p]
        \/ /\ pc'[p] \notin {"readsleep", "writesleep", "rasleep", "wasleep", "copy"}
           /\ pc[p] \notin {"put", "copy"}
    BY <1>2, <1>4
  <2> QED BY <1>0, <1>1, <1>4, <1>6, <2>1, SleepKept, Zenon
<1> QED BY <1>5, <1>6, <1>7, <1>8, <1>9, <1>10, Zenon DEF PipeInv

(* fork, *)
LEMMA ForkInv ==
  ASSUME PipeInv, NEW p \in Proc, NEW q \in Proc, Fork(p, q)
  PROVE  PipeInv'
<1>0. TypeOK /\ CallInv /\ LockInv /\ EndsInv /\ RingInv /\ SleepInv /\ CopyInv
  BY Zenon DEF PipeInv
<1>1. /\ fds[q] = {} /\ fds' = [fds EXCEPT ![q] = fds[p]] /\ delivered' = None
      /\ UNCHANGED <<alloc, lock, data, nread, nwrite, readopen, writeopen, pc, n, i, killed, unwoken>>
      /\ UNCHANGED ring
  BY Zenon DEF Fork, ring, ends
<1>2. TypeOK'
  BY <1>0, <1>1, Zenon DEF TypeOK
<1>3. RingInv' /\ Empty' = Empty /\ Full' = Full
  BY <1>0, <1>1, RingKept, Zenon
<1>4. CallInv' /\ LockInv' /\ SleepInv' /\ CopyInv'
  BY <1>0, <1>1, <1>3, Zenon DEF CallInv, LockInv, SleepInv, CopyInv
<1>5. EndsInv'
  <2>1. /\ fds'[q] = fds[p] /\ "r" \notin fds[q] /\ "w" \notin fds[q]
        /\ \A s \in Proc : s # q => fds'[s] = fds[s]
    BY <1>0, <1>1, Zenon DEF TypeOK
  <2>2. \A s \in Proc : /\ pc[s] \in ReadLocations => "r" \in fds'[s]
                        /\ pc[s] \in WriteLocations => "w" \in fds'[s]
    BY <1>0, <2>1 DEF EndsInv
  <2>3. \A s \in Proc : /\ "r" \in fds'[s] => readopen /\ \A t \in Proc : pc[t] # "closer"
                        /\ "w" \in fds'[s] => writeopen /\ \A t \in Proc : pc[t] # "closew"
    BY <1>0, <2>1 DEF EndsInv
  <2> QED BY <1>0, <1>1, <2>2, <2>3, Zenon DEF EndsInv
<1> QED BY <1>2, <1>3, <1>4, <1>5, Zenon DEF PipeInv

(* close, *)
LEMMA FilecloseInv ==
  ASSUME PipeInv, NEW p \in Proc, NEW e \in {"r", "w"}, Fileclose(p, e)
  PROVE  PipeInv'
<1>0. TypeOK /\ CallInv /\ LockInv /\ EndsInv /\ RingInv /\ SleepInv /\ CopyInv
  BY Zenon DEF PipeInv
<1> DEFINE last == ~ \E q \in Proc \ {p} : e \in fds[q]
           to == IF last THEN (IF e = "w" THEN "closew" ELSE "closer") ELSE "user"
<1>1. /\ pc[p] = "user" /\ e \in fds[p] /\ fds' = [fds EXCEPT ![p] = @ \ {e}] /\ delivered' = None
      /\ UNCHANGED <<alloc, lock, data, nread, nwrite, readopen, writeopen, n, i, killed, unwoken>>
      /\ UNCHANGED ring
  BY Zenon DEF Fileclose, ring, ends
<1>2. pc' = [pc EXCEPT ![p] = to]
  <2>1. CASE last
    BY <2>1, Zenon DEF Fileclose, Goto
  <2>2. CASE ~last
    <3>1. pc' = pc /\ to = "user"
      BY <2>2, Zenon DEF Fileclose
    <3> QED BY <1>0, <1>1, <3>1, Zenon DEF TypeOK
  <2> QED BY <2>1, <2>2, Zenon
<1>3. /\ to = "user" => \E q \in Proc : q # p /\ e \in fds[q]
      /\ to # "user" => \A q \in Proc : q # p => e \notin fds[q]
      /\ to # "user" /\ e = "w" => to = "closew"
      /\ to # "user" /\ e = "r" => to = "closer"
      /\ to \in {"user", "closew", "closer"}
  BY Zenon
<1> HIDE DEF to, last
<1>4. to \in Locs
  BY <1>3, Zenon DEF Locs, CloseLocations
<1>5. /\ pc' \in [Proc -> Locs] /\ pc'[p] = to /\ Moved(p)
      /\ \A q \in Proc : q # p => pc'[q] = pc[q]
  BY <1>0, <1>2, <1>4, MovedAlone, Zenon
<1>6. /\ fds'[p] = fds[p] \ {e} /\ \A q \in Proc : q # p => fds'[q] = fds[q]
      /\ fds' \in [Proc -> SUBSET {"r", "w"}]
  BY <1>0, <1>1, Zenon DEF TypeOK
<1>7. TypeOK'
  BY <1>0, <1>1, <1>5, <1>6, Zenon DEF TypeOK, Locs
<1>8. RingInv' /\ Empty' = Empty /\ Full' = Full
  BY <1>0, <1>1, RingKept, Zenon
<1>9. CallInv'
  <2>1. i[p] = 0
    BY <1>0, <1>1, Zenon DEF CallInv
  <2> QED BY <1>0, <1>1, <1>5, <2>1, CallKept, Zenon
<1>10. LockInv'
  <2>1. pc'[p] \notin Inside /\ pc[p] \notin Inside
    BY <1>1, <1>3, <1>5 DEF Inside
  <2> QED BY <1>0, <1>1, <1>5, <2>1, LockKept, Zenon
<1>11. SleepInv' /\ CopyInv'
  <2>1. /\ pc'[p] \notin {"readsleep", "writesleep", "rasleep", "wasleep", "copy"}
        /\ pc[p] \notin {"put", "copy"}
    BY <1>1, <1>3, <1>5
  <2> QED BY <1>0, <1>1, <1>5, <1>8, <2>1, SleepKept, Zenon
<1>12. EndsInv'
  <2>1. \A q \in Proc : fds'[q] \subseteq fds[q] /\ \A f \in fds[q] : f # e => f \in fds'[q]
    BY <1>6
  <2>2. \A q \in Proc : q # p =>
          /\ pc[q] \in ReadLocations => "r" \in fds'[q]
          /\ pc[q] \in WriteLocations => "w" \in fds'[q]
    BY <1>0, <1>6, Zenon DEF EndsInv
  <2>3. pc'[p] \notin ReadLocations \cup WriteLocations /\ pc'[p] # "kfree"
    BY <1>3, <1>5 DEF ReadLocations, WriteLocations
  <2>4. /\ e = "r" => readopen /\ \A q \in Proc : pc[q] # "closer"
        /\ e = "w" => writeopen /\ \A q \in Proc : pc[q] # "closew"
    BY <1>0, <1>1, ZenonT(40) DEF EndsInv
  <2>5. \A q \in Proc : to # "user" => e \notin fds'[q]
    BY <1>3, <1>6
  <2>6. /\ \A q \in Proc : /\ "r" \in fds'[q] => readopen
                           /\ "w" \in fds'[q] => writeopen
        /\ \A q, s \in Proc : /\ pc[q] = "closer" => "r" \notin fds'[s]
                              /\ pc[q] = "closew" => "w" \notin fds'[s]
    BY <1>0, <2>1, Zenon DEF EndsInv
  <2>7. CASE to = "user"
    <3>1. \A q \in Proc : pc'[q] = pc[q]
      BY <1>1, <1>5, <2>7, Zenon
    <3>2. pc[p] \notin ReadLocations \cup WriteLocations
      BY <2>3, <3>1, Zenon
    <3>3. \A q \in Proc : /\ pc'[q] \in ReadLocations => "r" \in fds'[q]
                          /\ pc'[q] \in WriteLocations => "w" \in fds'[q]
      BY <2>2, <3>1, <3>2, Zenon
    <3> QED BY <1>0, <1>1, <2>6, <3>1, <3>3 DEF EndsInv
  <2>8. CASE to = "closer"
    <3>1. e = "r"
      BY <1>3, <2>8
    <3>2. \A q \in Proc : q # p => pc'[q] # "closer"
      BY <1>5, <2>4, <3>1, Zenon
    <3>3. \A q \in Proc : "r" \notin fds'[q]
      BY <2>5, <2>8, <3>1
    <3> QED BY <1>0, <1>1, <1>5, <2>2, <2>3, <2>4, <2>6, <2>8, <3>1, <3>2, <3>3 DEF EndsInv, CloseLocations
  <2>9. CASE to = "closew"
    <3>1. e = "w"
      BY <1>3, <2>9
    <3>2. \A q \in Proc : q # p => pc'[q] # "closew"
      BY <1>5, <2>4, <3>1, Zenon
    <3>3. \A q \in Proc : "w" \notin fds'[q]
      BY <2>5, <2>9, <3>1
    <3> QED BY <1>0, <1>1, <1>5, <2>2, <2>3, <2>4, <2>6, <2>9, <3>1, <3>2, <3>3 DEF EndsInv, CloseLocations
  <2> QED BY <1>3, <2>7, <2>8, <2>9, Zenon
<1> QED BY <1>7, <1>8, <1>9, <1>10, <1>11, <1>12, Zenon DEF PipeInv

(* read and write. *)
LEMMA CallStepInv ==
  ASSUME PipeInv, NEW p \in Proc, NEW e \in {"r", "w"}, NEW k \in 0..MaxN, Call(p, e, k)
  PROVE  PipeInv'
<1>0. TypeOK /\ CallInv /\ LockInv /\ EndsInv /\ RingInv /\ SleepInv /\ CopyInv
  BY Zenon DEF PipeInv
<1> DEFINE to == IF e = "r" THEN "read" ELSE "write"
<1>1. /\ pc[p] = "user" /\ e \in fds[p] /\ pc' = [pc EXCEPT ![p] = to]
      /\ n' = [n EXCEPT ![p] = k] /\ delivered' = None
      /\ UNCHANGED <<alloc, lock, data, nread, nwrite, readopen, writeopen, fds, i, killed, unwoken>>
      /\ UNCHANGED ring
  BY Zenon DEF Call, ring, ends
<1>2. (to = "read" /\ "r" \in fds[p]) \/ (to = "write" /\ "w" \in fds[p])
  BY <1>1
<1> HIDE DEF to
<1>3. to \in Locs
  BY <1>2, Zenon DEF Locs, ReadLocations, WriteLocations
<1>4. pc' \in [Proc -> Locs] /\ pc'[p] = to /\ Moved(p)
  BY <1>0, <1>1, <1>3, MovedAlone, Zenon
<1>5. TypeOK'
  BY <1>0, <1>1, <1>4, Zenon DEF TypeOK, Locs
<1>6. RingInv' /\ Empty' = Empty /\ Full' = Full
  BY <1>0, <1>1, RingKept, Zenon
<1>7. CallInv'
  <2>1. n'[p] = k /\ \A q \in Proc : q # p => n'[q] = n[q]
    BY <1>0, <1>1, Zenon DEF TypeOK
  <2>2. i[p] = 0 /\ \A q \in Proc : i[q] <= n[q]
    BY <1>0, <1>1, Zenon DEF CallInv
  <2>3. \A q \in Proc : i[q] <= n'[q]
    BY <2>1, <2>2
  <2>4. \A q \in Proc : pc'[q] \in {"user"} \cup CloseLocations => i[q] = 0
    BY <1>0, <1>4, <2>2 DEF Moved, CallInv, CloseLocations
  <2> QED BY <1>1, <2>3, <2>4, Zenon DEF CallInv
<1>8. LockInv'
  <2>1. pc'[p] \notin Inside /\ pc[p] \notin Inside
    BY <1>1, <1>2, <1>4 DEF Inside
  <2> QED BY <1>0, <1>1, <1>4, <2>1, LockKept, Zenon
<1>9. EndsInv'
  <2>1. /\ pc'[p] \in ReadLocations => "r" \in fds[p]
        /\ pc'[p] \in WriteLocations => "w" \in fds[p]
        /\ pc'[p] \notin CloseLocations
    BY <1>2, <1>4 DEF ReadLocations, WriteLocations, CloseLocations
  <2> QED BY <1>0, <1>1, <1>4, <2>1, EndsKept, Zenon
<1>10. SleepInv' /\ CopyInv'
  <2>1. /\ pc'[p] \notin {"readsleep", "writesleep", "rasleep", "wasleep", "copy"}
        /\ pc[p] \notin {"put", "copy"}
    BY <1>1, <1>2, <1>4
  <2> QED BY <1>0, <1>1, <1>4, <1>6, <2>1, SleepKept, Zenon
<1> QED BY <1>5, <1>6, <1>7, <1>8, <1>9, <1>10, Zenon DEF PipeInv

-----------------------------------------------------------------------------
(* Calls that take the lock, *)
LEMMA LockCallInv ==
  ASSUME PipeInv, NEW p \in Proc, LockCall(p)
  PROVE  PipeInv'
<1>0. TypeOK /\ CallInv /\ LockInv /\ EndsInv /\ RingInv /\ SleepInv /\ CopyInv
  BY Zenon DEF PipeInv
<1>1. /\ lock = None /\ lock' = p /\ delivered' = None
      /\ UNCHANGED <<alloc, data, nread, nwrite, readopen, writeopen, fds, n, i, killed, unwoken>>
      /\ UNCHANGED ring
  BY Zenon DEF LockCall, Lock, ring, ends
<1>2. PICK to \in {"readwait", "put"} :
        /\ \/ pc[p] \in {"read", "rrelock"} /\ to = "readwait"
           \/ pc[p] \in {"write", "wrelock"} /\ to = "put"
        /\ pc' = [pc EXCEPT ![p] = to]
  BY Zenon DEF LockCall, Lock, Goto
<1>3. to \in Locs
  BY <1>2, Zenon DEF Locs, ReadLocations, WriteLocations
<1>4. /\ pc' \in [Proc -> Locs] /\ pc'[p] = to /\ Moved(p)
      /\ \A q \in Proc : q # p => pc'[q] = pc[q]
  BY <1>0, <1>2, <1>3, MovedAlone, Zenon
<1>5. TypeOK'
  BY <1>0, <1>1, <1>4, Zenon DEF TypeOK, Locs
<1>6. RingInv' /\ Empty' = Empty /\ Full' = Full
  BY <1>0, <1>1, RingKept, Zenon
<1>7. CallInv'
  <2>1. pc'[p] \notin {"user"} \cup CloseLocations
    BY <1>2, <1>4 DEF CloseLocations
  <2> QED BY <1>0, <1>1, <1>4, <2>1, CallKept, Zenon
<1>8. LockInv'
  <2>1. \A q \in Proc : pc[q] \notin Inside
    BY <1>0, <1>1, Sizes DEF LockInv
  <2>2. pc'[p] \in Inside
    BY <1>2, <1>4 DEF Inside
  <2> QED BY <1>1, <1>4, <2>1, <2>2, Zenon DEF LockInv
<1>9. EndsInv'
  <2>1. /\ pc'[p] \in ReadLocations => "r" \in fds[p]
        /\ pc'[p] \in WriteLocations => "w" \in fds[p]
        /\ pc'[p] \notin CloseLocations
    BY <1>0, <1>2, <1>4 DEF EndsInv, ReadLocations, WriteLocations, CloseLocations
  <2> QED BY <1>0, <1>1, <1>4, <2>1, EndsKept, Zenon
<1>10. SleepInv' /\ CopyInv'
  <2>1. /\ pc'[p] \notin {"readsleep", "writesleep", "rasleep", "wasleep", "copy"}
        /\ pc[p] \notin {"put", "copy"}
    BY <1>2, <1>4
  <2> QED BY <1>0, <1>1, <1>4, <1>6, <2>1, SleepKept, Zenon
<1> QED BY <1>5, <1>6, <1>7, <1>8, <1>9, <1>10, Zenon DEF PipeInv

(* piperead's wait for bytes, *)
LEMMA PipereadWaitInv ==
  ASSUME PipeInv, NEW p \in Proc, PipereadWait(p)
  PROVE  PipeInv'
<1>0. TypeOK /\ CallInv /\ LockInv /\ EndsInv /\ RingInv /\ SleepInv /\ CopyInv
  BY Zenon DEF PipeInv
<1>1. /\ pc[p] = "readwait" /\ delivered' = None
      /\ UNCHANGED <<alloc, data, nread, nwrite, readopen, writeopen, fds, killed, unwoken>>
      /\ UNCHANGED ring
  BY Zenon DEF PipereadWait, ring, ends
<1>2. PICK to \in {"user", "readsleep", "copy"} :
        /\ pc' = [pc EXCEPT ![p] = to]
        /\ to = "user" => Return(p)
        /\ to # "user" => UNCHANGED <<lock, n, i>>
        /\ to = "readsleep" => Empty /\ writeopen
        /\ to = "copy" => ~Empty \/ ~writeopen
  <2>1. CASE Empty /\ writeopen /\ killed[p]
    <3>1. pc' = [pc EXCEPT ![p] = "user"] /\ Return(p)
      BY <2>1, Zenon DEF PipereadWait, Goto
    <3> QED BY <3>1, Zenon
  <2>2. CASE Empty /\ writeopen /\ ~killed[p]
    <3>1. pc' = [pc EXCEPT ![p] = "readsleep"] /\ UNCHANGED <<lock, n, i>>
      BY <2>2, Zenon DEF PipereadWait, Goto
    <3> QED BY <2>2, <3>1, Zenon
  <2>3. CASE ~(Empty /\ writeopen)
    <3>1. pc' = [pc EXCEPT ![p] = "copy"] /\ UNCHANGED <<lock, n, i>>
      BY <2>3, Zenon DEF PipereadWait, Goto
    <3> QED BY <2>3, <3>1, Zenon
  <2> QED BY <2>1, <2>2, <2>3, Zenon
<1>3. to \in Locs
  BY <1>2, Zenon DEF Locs, ReadLocations
<1>4. /\ pc' \in [Proc -> Locs] /\ pc'[p] = to /\ Moved(p)
      /\ \A q \in Proc : q # p => pc'[q] = pc[q]
  BY <1>0, <1>2, <1>3, MovedAlone, Zenon
<1>5. lock = p /\ (\A q \in Proc : q # p => pc[q] \notin Inside) /\ "r" \in fds[p]
  BY <1>0, <1>1, Alone, Zenon DEF Inside, EndsInv, ReadLocations
<1>6. RingInv' /\ Empty' = Empty /\ Full' = Full
  BY <1>0, <1>1, RingKept, Zenon
<1>7. /\ CallInv' /\ LockInv'
      /\ lock' \in Proc \cup {None} /\ n' \in [Proc -> 0..MaxN] /\ i' \in [Proc -> 0..MaxN]
  <2>1. CASE to = "user"
    <3>1. Return(p) /\ lock' = None /\ pc'[p] \notin Inside
      BY <1>2, <1>4, <2>1, Zenon DEF Return, Inside
    <3> QED BY <1>0, <1>4, <1>5, <3>1, CallReturned, LockGiven, Zenon
  <2>2. CASE to # "user"
    <3>1. UNCHANGED <<lock, n, i>> /\ pc'[p] \notin {"user"} \cup CloseLocations
      BY <1>2, <1>4, <2>2 DEF CloseLocations
    <3>2. pc'[p] \in Inside /\ pc[p] \in Inside
      BY <1>1, <1>2, <1>4, <2>2 DEF Inside
    <3> QED BY <1>0, <1>4, <3>1, <3>2, CallKept, LockKept, Zenon DEF TypeOK
  <2> QED BY <2>1, <2>2, Zenon
<1>8. TypeOK'
  BY <1>0, <1>1, <1>4, <1>7, Zenon DEF TypeOK, Locs
<1>9. EndsInv'
  <2>1. pc'[p] \notin WriteLocations \cup CloseLocations
    BY <1>2, <1>4 DEF WriteLocations, CloseLocations
  <2> QED BY <1>0, <1>1, <1>4, <1>5, <2>1, EndsKept, Zenon
<1>10. SleepInv' /\ CopyInv'
  <2>1. \A q \in Proc : pc[q] \notin {"put", "copy"}
    BY <1>1, <1>5, Zenon DEF Inside
  <2>2. \A q \in Proc : /\ pc[q] = "rasleep" => writeopen /\ (Empty \/ unwoken)
                        /\ pc[q] = "wasleep" => readopen /\ Full
    BY <2>1, Quiet, Zenon
  <2>3. \A q \in Proc : q # p => pc'[q] \notin {"readsleep", "writesleep", "copy"}
    BY <1>4, <1>5, Zenon DEF Inside
  <2>4. /\ pc'[p] \notin {"rasleep", "wasleep", "writesleep"}
        /\ pc'[p] = "readsleep" => Empty /\ writeopen
        /\ pc'[p] = "copy" => ~Empty \/ ~writeopen
    BY <1>2, <1>4
  <2>5. SleepInv'
    BY <1>1, <1>4, <1>6, <2>2, <2>3, <2>4 DEF SleepInv
  <2>6. CopyInv'
    BY <1>1, <1>6, <2>3, <2>4 DEF CopyInv
  <2> QED BY <2>5, <2>6
<1> QED BY <1>6, <1>7, <1>8, <1>9, <1>10, Zenon DEF PipeInv

(* sleep, which gives the lock back, *)
LEMMA SleepStepInv ==
  ASSUME PipeInv, NEW p \in Proc, Sleep(p)
  PROVE  PipeInv'
<1>0. TypeOK /\ CallInv /\ LockInv /\ EndsInv /\ RingInv /\ SleepInv /\ CopyInv
  BY Zenon DEF PipeInv
<1>1. /\ lock' = None /\ delivered' = None
      /\ UNCHANGED <<alloc, data, nread, nwrite, readopen, writeopen, fds, n, i, killed, unwoken>>
      /\ UNCHANGED ring
  BY Zenon DEF Sleep, ring, ends
<1>2. PICK to \in {"rasleep", "wasleep"} :
        /\ \/ pc[p] = "readsleep" /\ to = "rasleep"
           \/ pc[p] = "writesleep" /\ to = "wasleep"
        /\ pc' = [pc EXCEPT ![p] = to]
  BY Zenon DEF Sleep, Goto
<1>3. to \in Locs
  BY <1>2, Zenon DEF Locs, ReadLocations, WriteLocations
<1>4. /\ pc' \in [Proc -> Locs] /\ pc'[p] = to /\ Moved(p)
      /\ \A q \in Proc : q # p => pc'[q] = pc[q]
  BY <1>0, <1>2, <1>3, MovedAlone, Zenon
<1>5. lock = p /\ \A q \in Proc : q # p => pc[q] \notin Inside
  BY <1>2, Alone, Zenon DEF Inside
<1>6. RingInv' /\ Empty' = Empty /\ Full' = Full
  BY <1>0, <1>1, RingKept, Zenon
<1>7. TypeOK'
  BY <1>0, <1>1, <1>4, Zenon DEF TypeOK, Locs
<1>8. CallInv' /\ LockInv'
  <2>1. pc'[p] \notin {"user"} \cup CloseLocations /\ pc'[p] \notin Inside
    BY <1>2, <1>4 DEF CloseLocations, Inside
  <2> QED BY <1>0, <1>1, <1>4, <1>5, <2>1, CallKept, LockGiven, Zenon
<1>9. EndsInv'
  <2>1. /\ pc'[p] \in ReadLocations => "r" \in fds[p]
        /\ pc'[p] \in WriteLocations => "w" \in fds[p]
        /\ pc'[p] \notin CloseLocations
    BY <1>0, <1>2, <1>4 DEF EndsInv, ReadLocations, WriteLocations, CloseLocations
  <2> QED BY <1>0, <1>1, <1>4, <2>1, EndsKept, Zenon
<1>10. SleepInv' /\ CopyInv'
  <2>1. \A q \in Proc : pc[q] \notin {"put", "copy"}
    BY <1>2, <1>5, Zenon DEF Inside
  <2>2. \A q \in Proc : /\ pc[q] = "rasleep" => writeopen /\ (Empty \/ unwoken)
                        /\ pc[q] = "wasleep" => readopen /\ Full
    BY <2>1, Quiet, Zenon
  <2>3. \A q \in Proc : pc'[q] \notin {"readsleep", "writesleep", "copy"}
    BY <1>2, <1>4, <1>5 DEF Inside
  <2>4. /\ pc'[p] = "rasleep" => Empty /\ writeopen
        /\ pc'[p] = "wasleep" => Full /\ readopen
    BY <1>0, <1>2, <1>4 DEF SleepInv
  <2>5. SleepInv'
    BY <1>1, <1>4, <1>6, <2>2, <2>3, <2>4 DEF SleepInv
  <2>6. CopyInv'
    BY <2>3, Zenon DEF CopyInv
  <2> QED BY <2>5, <2>6
<1> QED BY <1>6, <1>7, <1>8, <1>9, <1>10, Zenon DEF PipeInv

(* pipeclose, *)
LEMMA PipecloseInv ==
  ASSUME PipeInv, NEW p \in Proc, Pipeclose(p)
  PROVE  PipeInv'
<1>0. TypeOK /\ CallInv /\ LockInv /\ EndsInv /\ RingInv /\ SleepInv /\ CopyInv
  BY Zenon DEF PipeInv
<1>1. /\ lock = None /\ delivered' = None /\ pc[p] \in CloseLocations
      /\ UNCHANGED <<alloc, lock, data, nread, nwrite, fds, n, i, killed>>
      /\ UNCHANGED ring
  BY Zenon DEF Pipeclose, CloseLocations, ring
<1>2. \A q \in Proc : pc[q] \notin Inside
  BY <1>0, <1>1, Sizes DEF LockInv
<1>3. \A q \in Proc : /\ pc[q] = "rasleep" => writeopen /\ (Empty \/ unwoken)
                      /\ pc[q] = "wasleep" => readopen /\ Full
  BY <1>2, Quiet, Zenon DEF Inside
<1>4. RingInv' /\ Empty' = Empty /\ Full' = Full
  BY <1>0, <1>1, RingKept, Zenon
<1>5. ASSUME NEW to \in {"user", "kfree"}, WakeReaders(p, to) \/ WakeWriters(p, to)
      PROVE  /\ pc' \in [Proc -> Locs] /\ pc'[p] = to /\ Moved(p) /\ CallInv' /\ LockInv' /\ CopyInv'
             /\ \A q \in Proc : pc'[q] \notin {"readsleep", "writesleep"}
  <2>1. to \in Locs
    BY <1>5, Zenon DEF Locs, CloseLocations
  <2>2. pc' \in [Proc -> Locs] /\ pc'[p] = to /\ Moved(p)
    BY <1>0, <1>5, <2>1, MovedWaking, Zenon
  <2>3. CallInv'
    <3>1. i[p] = 0
      BY <1>0, <1>1, Zenon DEF CallInv
    <3> QED BY <1>0, <1>1, <2>2, <3>1, CallKept, Zenon
  <2>4. pc'[p] \notin Inside
    BY <2>2 DEF Inside
  <2>5. LockInv'
    BY <1>0, <1>1, <1>2, <2>2, <2>4, LockKept, Zenon
  <2>6. \A q \in Proc : pc'[q] \notin Inside
    BY <1>1, <1>2, <2>5, Sizes DEF LockInv
  <2> QED BY <2>2, <2>3, <2>5, <2>6, Zenon DEF CopyInv, Inside
<1>6. CASE pc[p] = "closew"
  <2> DEFINE to == IF readopen THEN "user" ELSE "kfree"
  <2>1. /\ writeopen' = FALSE /\ readopen' = readopen /\ WakeReaders(p, to) /\ unwoken' = FALSE
    BY <1>6, Zenon DEF Pipeclose
  <2>2. to \in {"user", "kfree"} /\ (to = "kfree" <=> ~readopen)
    OBVIOUS
  <2> HIDE DEF to
  <2>3. /\ pc' \in [Proc -> Locs] /\ pc'[p] = to /\ Moved(p) /\ CallInv' /\ LockInv' /\ CopyInv'
        /\ \A q \in Proc : pc'[q] \notin {"readsleep", "writesleep"}
    BY <1>5, <2>1, <2>2, Zenon
  <2>4. TypeOK'
    BY <1>0, <1>1, <2>1, <2>3, Zenon DEF TypeOK, Locs
  <2>5. /\ writeopen /\ alloc
        /\ \A q \in Proc : /\ "w" \notin fds[q] /\ pc[q] \notin WriteLocations /\ pc[q] # "kfree"
                           /\ q # p => pc[q] # "closew"
    BY <1>0, <1>6, Zenon DEF EndsInv, CloseLocations
  <2>6. \A q \in Proc : /\ pc'[q] \in ReadLocations => pc[q] \in ReadLocations
                        /\ pc'[q] \notin WriteLocations
                        /\ pc'[q] # "closew"
                        /\ pc'[q] = "closer" => pc[q] = "closer"
                        /\ pc'[q] = "kfree" => q = p /\ ~readopen
    BY <2>2, <2>3, <2>5 DEF Moved, ReadLocations, WriteLocations
  <2>7. EndsInv'
    <3>1. \A q, s \in Proc : pc'[q] = pc'[s] /\ pc'[q] \in CloseLocations => q = s
      BY <1>0, <2>6 DEF EndsInv, CloseLocations
    <3> QED BY <1>0, <1>1, <2>1, <2>5, <2>6, <3>1 DEF EndsInv
  <2>8. SleepInv'
    <3>1. \A q \in Proc : pc'[q] # "rasleep"
      BY <2>1, <2>2, Woken
    <3>2. \A q \in Proc : pc'[q] = "wasleep" => pc[q] = "wasleep"
      BY <2>2, <2>3 DEF Moved
    <3> QED BY <1>3, <1>4, <2>1, <2>3, <3>1, <3>2, Zenon DEF SleepInv
  <2> QED BY <1>4, <2>3, <2>4, <2>7, <2>8, Zenon DEF PipeInv
<1>7. CASE pc[p] = "closer"
  <2> DEFINE to == IF writeopen THEN "user" ELSE "kfree"
  <2>1. /\ readopen' = FALSE /\ writeopen' = writeopen /\ WakeWriters(p, to) /\ unwoken' = unwoken
    BY <1>7, Zenon DEF Pipeclose
  <2>2. to \in {"user", "kfree"} /\ (to = "kfree" <=> ~writeopen)
    OBVIOUS
  <2> HIDE DEF to
  <2>3. /\ pc' \in [Proc -> Locs] /\ pc'[p] = to /\ Moved(p) /\ CallInv' /\ LockInv' /\ CopyInv'
        /\ \A q \in Proc : pc'[q] \notin {"readsleep", "writesleep"}
    BY <1>5, <2>1, <2>2, Zenon
  <2>4. TypeOK'
    BY <1>0, <1>1, <2>1, <2>3, Zenon DEF TypeOK, Locs
  <2>5. /\ readopen /\ alloc
        /\ \A q \in Proc : /\ "r" \notin fds[q] /\ pc[q] \notin ReadLocations /\ pc[q] # "kfree"
                           /\ q # p => pc[q] # "closer"
    BY <1>0, <1>7, Zenon DEF EndsInv, CloseLocations
  <2>6. \A q \in Proc : /\ pc'[q] \in WriteLocations => pc[q] \in WriteLocations
                        /\ pc'[q] \notin ReadLocations
                        /\ pc'[q] # "closer"
                        /\ pc'[q] = "closew" => pc[q] = "closew"
                        /\ pc'[q] = "kfree" => q = p /\ ~writeopen
    BY <2>2, <2>3, <2>5 DEF Moved, ReadLocations, WriteLocations
  <2>7. EndsInv'
    <3>1. \A q, s \in Proc : pc'[q] = pc'[s] /\ pc'[q] \in CloseLocations => q = s
      BY <1>0, <2>6 DEF EndsInv, CloseLocations
    <3> QED BY <1>0, <1>1, <2>1, <2>5, <2>6, <3>1 DEF EndsInv
  <2>8. SleepInv'
    <3>1. \A q \in Proc : pc'[q] # "wasleep"
      BY <2>1, <2>2, Woken
    <3>2. \A q \in Proc : pc'[q] = "rasleep" => pc[q] = "rasleep"
      BY <2>2, <2>3 DEF Moved
    <3> QED BY <1>3, <1>4, <2>1, <2>3, <3>1, <3>2, Zenon DEF SleepInv
  <2> QED BY <1>4, <2>3, <2>4, <2>7, <2>8, Zenon DEF PipeInv
<1> QED BY <1>6, <1>7, Zenon DEF Pipeclose

(* and the kfree after it. *)
LEMMA KfreeInv ==
  ASSUME PipeInv, NEW p \in Proc, Kfree(p)
  PROVE  PipeInv'
<1>0. TypeOK /\ CallInv /\ LockInv /\ EndsInv
  BY Zenon DEF PipeInv
<1>1. /\ pc[p] = "kfree" /\ pc' = [pc EXCEPT ![p] = "user"]
      /\ alloc' = FALSE /\ data' = Junk /\ nread' = 0 /\ nwrite' = 0 /\ delivered' = None
      /\ UNCHANGED <<lock, readopen, writeopen, fds, n, i, killed, unwoken>>
  BY Zenon DEF Kfree, Goto, ends
<1>2. 0 \in 0..Wrap - 1 /\ data' \in [0..PIPESIZE - 1 -> Val]
  BY <1>1, PipeAssumption DEF Junk
<1>3. /\ pc' \in [Proc -> Locs] /\ pc'[p] = "user" /\ Moved(p)
      /\ \A q \in Proc : q # p => pc'[q] = pc[q]
  BY <1>0, <1>1, MovedAlone, Zenon DEF Locs
<1>4. TypeOK'
  BY <1>0, <1>1, <1>2, <1>3, Zenon DEF TypeOK, Locs
<1>5. RingInv'
  BY <1>1, <1>2, Distance, Sizes DEF RingInv, Used
<1>6. ~readopen /\ ~writeopen /\ \A q \in Proc : "r" \notin fds[q] /\ "w" \notin fds[q]
  BY <1>0, <1>1, Zenon DEF EndsInv
<1>7. \A q \in Proc : pc'[q] = "user"
  <2>1. \A q \in Proc : q # p => pc[q] \notin ReadLocations \cup WriteLocations \cup CloseLocations
    BY <1>0, <1>1, <1>6, Zenon DEF EndsInv, CloseLocations
  <2> QED BY <1>0, <1>3, <2>1, Zenon DEF TypeOK
<1>8. CallInv'
  <2>1. i[p] = 0
    BY <1>0, <1>1, Zenon DEF CallInv, CloseLocations
  <2> QED BY <1>0, <1>1, <1>3, <2>1, CallKept, Zenon
<1>9. LockInv'
  <2>1. pc[p] \notin Inside /\ pc'[p] \notin Inside
    BY <1>1, <1>3, Zenon DEF Inside
  <2> QED BY <1>0, <1>1, <1>3, <2>1, LockKept, Zenon
<1>10. EndsInv'
  BY <1>1, <1>6, <1>7, Zenon DEF EndsInv, ReadLocations, WriteLocations, CloseLocations
<1>11. SleepInv' /\ CopyInv'
  BY <1>7, Zenon DEF SleepInv, CopyInv
<1> QED BY <1>4, <1>5, <1>8, <1>9, <1>10, <1>11, Zenon DEF PipeInv

(* A process in pipewrite is the only one at work on the ring. *)
LEMMA PipewriteInv ==
  ASSUME PipeInv, NEW p \in Proc, NEW v \in Val, Pipewrite(p, v)
  PROVE  PipeInv'
<1>0. TypeOK /\ CallInv /\ LockInv /\ EndsInv /\ RingInv /\ SleepInv /\ CopyInv
  BY Zenon DEF PipeInv
<1>1. /\ pc[p] = "put" /\ delivered' = None
      /\ UNCHANGED <<alloc, readopen, writeopen, fds, killed>>
  BY Zenon DEF Pipewrite, ends
<1>2. /\ lock = p /\ "w" \in fds[p] /\ writeopen
      /\ \A q \in Proc : q # p => pc[q] \notin Inside
  BY <1>0, <1>1, Alone, Zenon DEF Inside, EndsInv, WriteLocations
<1>3. \A q \in Proc : /\ pc[q] \notin {"readsleep", "writesleep", "copy"}
                      /\ pc[q] = "wasleep" => readopen /\ Full
  <2>1. \A q \in Proc : pc[q] \notin {"readsleep", "writesleep", "copy"}
    BY <1>1, <1>2, Zenon DEF Inside
  <2> QED BY <1>0, <2>1, Zenon DEF SleepInv
<1>4. ASSUME NEW to \in {"user", "writesleep"}, UNCHANGED ring,
             \/ pc' = [pc EXCEPT ![p] = to] /\ unwoken' = TRUE
             \/ WakeReaders(p, to) /\ unwoken' = FALSE,
             to = "user" => Return(p),
             to = "writesleep" => UNCHANGED <<lock, n, i>> /\ Full /\ readopen
      PROVE  PipeInv'
  <2>1. to \in Locs
    BY <1>4, Zenon DEF Locs, WriteLocations
  <2>2. pc' \in [Proc -> Locs] /\ pc'[p] = to /\ Moved(p)
    BY <1>0, <1>4, <2>1, MovedAlone, MovedWaking, Zenon
  <2>3. RingInv' /\ Empty' = Empty /\ Full' = Full
    BY <1>0, <1>4, RingKept, Zenon
  <2>4. /\ CallInv' /\ LockInv'
        /\ lock' \in Proc \cup {None} /\ n' \in [Proc -> 0..MaxN] /\ i' \in [Proc -> 0..MaxN]
    <3>1. CASE to = "user"
      <4>1. Return(p) /\ lock' = None /\ pc'[p] \notin Inside
        BY <1>4, <2>2, <3>1, Zenon DEF Return, Inside
      <4> QED BY <1>0, <1>2, <2>2, <4>1, CallReturned, LockGiven, Zenon
    <3>2. CASE to = "writesleep"
      <4>1. UNCHANGED <<lock, n, i>> /\ pc'[p] \notin {"user"} \cup CloseLocations
        BY <1>4, <2>2, <3>2 DEF CloseLocations
      <4>2. pc'[p] \in Inside /\ pc[p] \in Inside
        BY <1>1, <2>2, <3>2, Zenon DEF Inside
      <4> QED BY <1>0, <2>2, <4>1, <4>2, CallKept, LockKept, Zenon DEF TypeOK
    <3> QED BY <1>4, <3>1, <3>2, Zenon
  <2>5. TypeOK'
    BY <1>0, <1>1, <1>4, <2>2, <2>4, Zenon DEF TypeOK, Locs, ring
  <2>6. EndsInv'
    <3>1. pc'[p] \notin ReadLocations \cup CloseLocations
      BY <2>2 DEF ReadLocations, CloseLocations
    <3> QED BY <1>0, <1>1, <1>2, <2>2, <3>1, EndsKept, Zenon
  <2>7. \A q \in Proc : /\ pc'[q] \notin {"readsleep", "copy"}
                        /\ pc'[q] = "wasleep" => readopen /\ Full
                        /\ pc'[q] = "writesleep" => readopen /\ Full
    BY <1>3, <1>4, <2>2 DEF Moved
  <2>8. (\A q \in Proc : pc'[q] # "rasleep") \/ unwoken' = TRUE
    BY <1>4, Woken
  <2>9. SleepInv' /\ CopyInv'
    BY <1>1, <1>2, <2>3, <2>7, <2>8, Zenon DEF SleepInv, CopyInv
  <2> QED BY <2>3, <2>4, <2>5, <2>6, <2>9, Zenon DEF PipeInv
<1>5. CASE i[p] < n[p] /\ Full /\ (~readopen \/ killed[p])
  <2>1. UNCHANGED ring /\ pc' = [pc EXCEPT ![p] = "user"] /\ Return(p) /\ unwoken' = TRUE
    BY <1>0, <1>5 DEF Pipewrite, Goto, TypeOK
  <2> QED BY <1>4, <2>1, Zenon
<1>6. CASE i[p] < n[p] /\ Full /\ ~(~readopen \/ killed[p])
  <2>1. UNCHANGED ring /\ WakeReaders(p, "writesleep") /\ unwoken' = FALSE /\ UNCHANGED <<lock, n, i>>
    BY <1>0, <1>6 DEF Pipewrite, TypeOK
  <2> QED BY <1>4, <1>6, <2>1, Zenon
<1>7. CASE i[p] = n[p]
  <2>0. ~(i[p] < n[p])
    BY <1>0, <1>7 DEF TypeOK
  <2>1. UNCHANGED ring /\ WakeReaders(p, "user") /\ unwoken' = FALSE /\ Return(p)
    BY <2>0, Zenon DEF Pipewrite
  <2> QED BY <1>4, <2>1, Zenon
<1>8. CASE i[p] < n[p] /\ ~Full
  <2>0. i[p] # n[p]
    BY <1>0, <1>8 DEF TypeOK
  <2>1. /\ data' = [data EXCEPT ![nwrite % PIPESIZE] = v] /\ i' = [i EXCEPT ![p] = @ + 1]
        /\ nwrite' = Inc(nwrite) /\ UNCHANGED <<lock, nread, pc, n, unwoken>>
    BY <1>8, <2>0, Zenon DEF Pipewrite
  <2>2. /\ nread \in 0 .. Wrap - 1 /\ nwrite \in 0 .. Wrap - 1
        /\ i[p] \in 0..MaxN /\ n[p] \in 0..MaxN
    BY <1>0, Zenon DEF TypeOK
  <2>3. i[p] + 1 \in 0..MaxN /\ i[p] + 1 <= n[p]
    BY <1>8, <2>2, Sizes
  <2>4. TypeOK'
    <3>1. nwrite' \in 0 .. Wrap - 1
      BY <2>1, <2>2, UsedMoves, Zenon
    <3>2. data' \in [0..PIPESIZE - 1 -> Val] /\ i' \in [Proc -> 0..MaxN]
      BY <1>0, <2>1, <2>3, Zenon DEF TypeOK
    <3> QED BY <1>0, <1>1, <2>1, <3>1, <3>2, Zenon DEF TypeOK
  <2>5. RingInv'
    <3>1. Used < PIPESIZE /\ Used \in 0 .. Wrap - 1
      BY <1>0, <1>8, UsedIs, Sizes DEF RingInv
    <3>2. Used' = Used + 1
      BY <2>1, <2>2, <3>1, UsedMoves, Zenon DEF Used
    <3> QED BY <3>1, <3>2, Sizes DEF RingInv
  <2>6. CallInv'
    <3>1. i'[p] = i[p] + 1 /\ \A q \in Proc : q # p => i'[q] = i[q]
      BY <1>0, <2>1, Zenon DEF TypeOK
    <3>2. pc[p] \notin {"user"} \cup CloseLocations
      BY <1>1 DEF CloseLocations
    <3>3. \A q \in Proc : i'[q] <= n[q]
      BY <1>0, <2>3, <3>1, Zenon DEF CallInv
    <3>4. \A q \in Proc : pc[q] \in {"user"} \cup CloseLocations => i'[q] = 0
      BY <1>0, <3>1, <3>2, Zenon DEF CallInv
    <3> QED BY <2>1, <3>3, <3>4, Zenon DEF CallInv
  <2>7. LockInv' /\ EndsInv'
    BY <1>0, <1>1, <2>1, Zenon DEF LockInv, EndsInv
  <2>8. SleepInv' /\ CopyInv'
    BY <1>0, <1>1, <1>2, <1>3, <1>8, <2>1, Zenon DEF SleepInv, CopyInv
  <2> QED BY <2>4, <2>5, <2>6, <2>7, <2>8, Zenon DEF PipeInv
<1> QED BY <1>5, <1>6, <1>7, <1>8, Zenon DEF Pipewrite

(* And so is one in piperead. *)
LEMMA PipereadInv ==
  ASSUME PipeInv, NEW p \in Proc, Piperead(p)
  PROVE  PipeInv'
<1>0. TypeOK /\ CallInv /\ LockInv /\ EndsInv /\ RingInv /\ SleepInv /\ CopyInv
  BY Zenon DEF PipeInv
<1>1. /\ pc[p] = "copy"
      /\ UNCHANGED <<alloc, readopen, writeopen, fds, killed, unwoken>>
  BY Zenon DEF Piperead, ends
<1>2. /\ lock = p /\ "r" \in fds[p] /\ readopen
      /\ \A q \in Proc : q # p => pc[q] \notin Inside
  BY <1>0, <1>1, Alone, Zenon DEF Inside, EndsInv, ReadLocations
<1>3. \A q \in Proc : /\ pc[q] \notin {"readsleep", "writesleep", "put"}
                      /\ q # p => pc[q] # "copy"
                      /\ pc[q] = "rasleep" => writeopen /\ (Empty \/ unwoken)
  <2>1. \A q \in Proc : pc[q] \notin {"readsleep", "writesleep", "put"} /\ (q # p => pc[q] # "copy")
    BY <1>1, <1>2, Zenon DEF Inside
  <2> QED BY <1>0, <2>1, Zenon DEF SleepInv
<1>4. CASE i[p] = n[p] \/ Empty
  <2>1. WakeWriters(p, "user") /\ Return(p) /\ UNCHANGED ring /\ delivered' = None /\ lock' = None
    BY <1>4, Zenon DEF Piperead, Return
  <2>2. pc' \in [Proc -> Locs] /\ pc'[p] = "user" /\ Moved(p)
    BY <1>0, <2>1, MovedWaking, Zenon DEF Locs
  <2>3. RingInv' /\ Empty' = Empty /\ Full' = Full
    BY <1>0, <2>1, RingKept, Zenon
  <2>4. /\ CallInv' /\ LockInv'
        /\ lock' \in Proc \cup {None} /\ n' \in [Proc -> 0..MaxN] /\ i' \in [Proc -> 0..MaxN]
    <3>1. pc'[p] \notin Inside
      BY <2>2, Zenon DEF Inside
    <3> QED BY <1>0, <1>2, <2>1, <2>2, <3>1, CallReturned, LockGiven, Zenon
  <2>5. TypeOK'
    BY <1>0, <1>1, <2>1, <2>2, <2>4, Zenon DEF TypeOK, Locs, ring
  <2>6. EndsInv'
    <3>1. pc'[p] \notin ReadLocations \cup WriteLocations \cup CloseLocations
      BY <2>2 DEF ReadLocations, WriteLocations, CloseLocations
    <3> QED BY <1>0, <1>1, <2>2, <3>1, EndsKept, Zenon
  <2>7. \A q \in Proc : /\ pc'[q] \notin {"readsleep", "writesleep", "copy"}
                        /\ pc'[q] = "rasleep" => pc[q] = "rasleep"
    BY <1>3, <2>2 DEF Moved
  <2>8. \A q \in Proc : pc'[q] # "wasleep"
    BY <2>1, Woken
  <2>9. SleepInv' /\ CopyInv'
    BY <1>1, <1>3, <2>3, <2>7, <2>8, Zenon DEF SleepInv, CopyInv
  <2> QED BY <2>3, <2>4, <2>5, <2>6, <2>9, Zenon DEF PipeInv
<1>5. CASE ~(i[p] = n[p] \/ Empty)
  <2>1. /\ delivered' = data[nread % PIPESIZE] /\ nread' = Inc(nread) /\ i' = [i EXCEPT ![p] = @ + 1]
        /\ UNCHANGED <<data, nwrite, lock, pc, n>>
    BY <1>5, Zenon DEF Piperead
  <2>2. /\ nread \in 0 .. Wrap - 1 /\ nwrite \in 0 .. Wrap - 1
        /\ i[p] \in 0..MaxN /\ n[p] \in 0..MaxN /\ i[p] <= n[p] /\ i[p] # n[p]
    BY <1>0, <1>5, Zenon DEF TypeOK, CallInv
  <2>3. i[p] + 1 \in 0..MaxN /\ i[p] + 1 <= n[p] /\ i[p] + 1 # 0
    BY <2>2, Sizes
  <2>4. TypeOK'
    <3>1. nread' \in 0 .. Wrap - 1
      BY <2>1, <2>2, UsedMoves, Zenon
    <3>2. nread % PIPESIZE \in 0 .. PIPESIZE - 1
      BY <2>2, Quot, Sizes
    <3>3. delivered' \in Val \cup {None} /\ i' \in [Proc -> 0..MaxN]
      BY <1>0, <2>1, <2>3, <3>2, Zenon DEF TypeOK
    <3> QED BY <1>0, <1>1, <2>1, <3>1, <3>3, Zenon DEF TypeOK
  <2>5. RingInv'
    <3>1. Used <= PIPESIZE /\ Used # 0 /\ Used \in 0 .. Wrap - 1
      BY <1>0, <1>5, UsedIs DEF RingInv
    <3>2. Used' = Used - 1
      BY <2>1, <2>2, <3>1, UsedMoves DEF Used
    <3> QED BY <3>1, <3>2, Sizes DEF RingInv
  <2>6. i'[p] = i[p] + 1 /\ \A q \in Proc : q # p => i'[q] = i[q]
    BY <1>0, <2>1, Zenon DEF TypeOK
  <2>7. CallInv'
    <3>1. pc[p] \notin {"user"} \cup CloseLocations
      BY <1>1 DEF CloseLocations
    <3>2. \A q \in Proc : i'[q] <= n[q]
      BY <1>0, <2>3, <2>6, Zenon DEF CallInv
    <3>3. \A q \in Proc : pc[q] \in {"user"} \cup CloseLocations => i'[q] = 0
      BY <1>0, <2>6, <3>1, Zenon DEF CallInv
    <3> QED BY <2>1, <3>2, <3>3, Zenon DEF CallInv
  <2>8. LockInv' /\ EndsInv'
    BY <1>0, <1>1, <2>1, Zenon DEF LockInv, EndsInv
  <2>9. SleepInv'
    BY <1>0, <1>1, <1>3, <1>5, <2>1, Zenon DEF SleepInv
  <2>10. CopyInv'
    BY <1>3, <2>1, <2>3, <2>6, Zenon DEF CopyInv
  <2> QED BY <2>4, <2>5, <2>7, <2>8, <2>9, <2>10, Zenon DEF PipeInv
<1> QED BY <1>4, <1>5, Zenon

LEMMA PipeStepInv == PipeInv /\ [Next]_vars => PipeInv'
<1> SUFFICES ASSUME PipeInv, [Next]_vars PROVE PipeInv'
  OBVIOUS
<1>1. CASE UNCHANGED vars
  <2>1. UNCHANGED <<alloc, lock, data, nread, nwrite, readopen, writeopen, fds, pc, n, i, killed, delivered, unwoken>>
    BY <1>1, Zenon DEF vars, ring, ends
  <2>2. TypeOK' /\ CallInv' /\ LockInv' /\ EndsInv'
    BY <2>1, Zenon DEF PipeInv, TypeOK, CallInv, LockInv, EndsInv
  <2>3. RingInv' /\ SleepInv' /\ CopyInv'
    BY <2>1, Zenon DEF PipeInv, RingInv, Used, SleepInv, CopyInv, Empty, Full
  <2> QED BY <2>2, <2>3, Zenon DEF PipeInv
<1>2. ASSUME NEW p \in Proc, Step(p) PROVE PipeInv'
  BY <1>2, LockCallInv, PipereadWaitInv, SleepStepInv, PipecloseInv, KfreeInv, PipewriteInv, PipereadInv, Zenon DEF Step
<1>3. ASSUME NEW p \in Proc, User(p) PROVE PipeInv'
  BY <1>3, PipeallocInv, KillInv, ForkInv, FilecloseInv, CallStepInv, Zenon DEF User
<1> QED BY <1>1, <1>2, <1>3, Zenon DEF Next

LEMMA PipeSpecInv == Spec => []PipeInv
BY PipeInitInv, PipeStepInv, PTL DEF Spec

-----------------------------------------------------------------------------
(* The page of a pipe is freed once, by the process that closes the last   *)
(* end, when nobody is in the pipe or can get at it any more (pipeclose,   *)
(* src/kernel/src/pipe.rs), for any number of processes.                   *)
THEOREM PipeFreedOnce == Spec => []NoUseAfterFree
<1>1. PipeInv => NoUseAfterFree
  <2> SUFFICES ASSUME PipeInv, NEW p \in Proc, ~(pc[p] = "user" /\ fds[p] = {})
               PROVE  alloc /\ (pc[p] = "kfree" => \A q \in Proc \ {p} : pc[q] = "user" /\ fds[q] = {})
    BY DEF PipeInv, NoUseAfterFree
  <2> USE DEF PipeInv, TypeOK, EndsInv, ReadLocations, WriteLocations, CloseLocations
  <2>0. \A q \in Proc : fds[q] # {} => "r" \in fds[q] \/ "w" \in fds[q]
    <3>1. \A q \in Proc : \A e \in fds[q] : e = "r" \/ e = "w"
      BY Zenon
    <3> QED BY <3>1
  <2>1. alloc
    BY <2>0
  <2>2. ASSUME pc[p] = "kfree", NEW q \in Proc \ {p} PROVE pc[q] = "user" /\ fds[q] = {}
    BY <2>0, <2>2
  <2> QED BY <2>1, <2>2
<1> QED BY <1>1, PipeSpecInv, PTL

(* With the lock of the pipe free, nobody sleeps in pipewrite or piperead  *)
(* (src/kernel/src/pipe.rs) for something that is already there, except    *)
(* behind a writer that was killed, for any number of processes.           *)
THEOREM PipeWakes == Spec => []NoLostWakeup
<1>1. PipeInv => NoLostWakeup
  <2> SUFFICES ASSUME PipeInv, lock = None, NEW p \in Proc
               PROVE  /\ pc[p] = "wasleep" => Full /\ readopen
                      /\ pc[p] = "rasleep" => writeopen /\ (Empty \/ unwoken)
    BY Zenon DEF NoLostWakeup
  <2>1. \A q \in Proc : pc[q] \notin Inside
    BY Sizes DEF PipeInv, LockInv
  <2> QED BY <2>1 DEF PipeInv, SleepInv, Inside
<1> QED BY <1>1, PipeSpecInv, PTL

(* Only piperead itself ends its copy loop. *)
LEMMA CopyLeft ==
  ASSUME PipeInv, Next, NEW p \in Proc, pc[p] = "copy", pc'[p] = "user"
  PROVE  Piperead(p)
<1>0. pc \in [Proc -> Locs] /\ lock = p
  BY Zenon DEF PipeInv, TypeOK, Locs, LockInv, Inside
<1>1. PICK q \in Proc : Step(q) \/ User(q)
  BY Zenon DEF Next
<1>2. pc' # pc
  OBVIOUS
<1>3. ASSUME NEW to, pc' = [pc EXCEPT ![q] = to] PROVE q = p
  BY <1>0, <1>3, Zenon
<1>4. ASSUME NEW to, WakeReaders(q, to) \/ WakeWriters(q, to) PROVE q = p
  BY <1>4, Zenon DEF WakeReaders, WakeWriters, Wake
<1>5. ASSUME NEW to, pc[q] # "copy", pc' = [pc EXCEPT ![q] = to] PROVE FALSE
  BY <1>3, <1>5, Zenon
<1>6. ASSUME NEW to, pc[q] # "copy", WakeReaders(q, to) \/ WakeWriters(q, to) PROVE FALSE
  BY <1>4, <1>6, Zenon
<1>7. ASSUME NEW from, NEW to, from # "copy", Goto(q, from, to) PROVE FALSE
  BY <1>5, <1>7, Zenon DEF Goto
<1>8. ~User(q)
  <2>2. ~Pipealloc(q) /\ \A r \in Proc : ~Fork(q, r)
    BY <1>2, Zenon DEF Pipealloc, Fork
  <2>3. ~Kill(q)
    <3>1. SUFFICES ASSUME Kill(q) PROVE FALSE
      BY Zenon
    <3>2. q = p
      BY <1>3, <3>1, Zenon DEF Kill
    <3>3. pc' = [pc EXCEPT ![p] = CASE pc[p] = "rasleep" -> "rrelock"
                                    [] pc[p] = "wasleep" -> "wrelock" [] OTHER -> pc[p]]
      BY <3>1, <3>2, Zenon DEF Kill
    <3>4. pc'[p] = pc[p]
      BY <1>0, <3>3
    <3> QED BY <3>4
  <2>4. ASSUME NEW e \in {"r", "w"}, Fileclose(q, e) PROVE FALSE
    BY <1>2, <1>7, <2>4, Zenon DEF Fileclose
  <2>5. ASSUME NEW e \in {"r", "w"}, NEW k \in 0..MaxN, Call(q, e, k) PROVE FALSE
    BY <1>5, <2>5, Zenon DEF Call
  <2> QED BY <2>2, <2>3, <2>4, <2>5, Zenon DEF User
<1>9. ~LockCall(q) /\ ~Sleep(q) /\ ~Kfree(q)
  BY <1>7, Zenon DEF LockCall, Lock, Sleep, Kfree
<1>10. ~PipereadWait(q) /\ ~Pipeclose(q)
  BY <1>6, <1>7, Zenon DEF PipereadWait, Pipeclose
<1>11. ASSUME NEW v \in Val, Pipewrite(q, v) PROVE FALSE
  BY <1>2, <1>6, <1>7, <1>11, Zenon DEF Pipewrite
<1>12. Piperead(q)
  BY <1>1, <1>8, <1>9, <1>10, <1>11, Zenon DEF Step
<1> QED BY <1>2, <1>4, <1>12, Zenon DEF Piperead

(* piperead (src/kernel/src/pipe.rs) returns 0 to a caller that asked for  *)
(* bytes only when nothing is left and there is no writer, for any number  *)
(* of processes.                                                           *)
THEOREM PipeEndOfFile == Spec => EndOfFile
<1> DEFINE A == \A p \in Proc :
                  pc[p] = "copy" /\ pc'[p] = "user" /\ i[p] = 0 /\ n[p] > 0 => Empty /\ ~writeopen
<1>1. PipeInv /\ [Next]_vars => [A]_vars
  <2> SUFFICES ASSUME PipeInv, Next, NEW p \in Proc,
                      pc[p] = "copy", pc'[p] = "user", i[p] = 0, n[p] > 0
               PROVE  Empty /\ ~writeopen
    OBVIOUS
  <2>1. lock = p /\ (~Empty \/ ~writeopen)
    BY DEF PipeInv, LockInv, Inside, CopyInv
  <2>2. Piperead(p)
    BY CopyLeft, Zenon
  <2>3. Empty
    <3>1. i[p] # n[p]
      BY DEF PipeInv, TypeOK
    <3>2. CASE ~Empty
      BY <2>2, <3>1, <3>2 DEF Piperead
    <3> QED BY <3>2
  <2> QED BY <2>1, <2>3
<1> QED BY <1>1, PipeSpecInv, PTL DEF Spec, EndOfFile

-----------------------------------------------------------------------------
(* u bytes from counter r on.  A counter that has wrapped is at the slot it  *)
(* would be at without the wrap.                                             *)
Bytes(d, r, u) == [k \in 1..u |-> d[(r + k - 1) % PIPESIZE]]

LEMMA Unwrapped ==
  ASSUME NEW a \in Int
  PROVE  (a - Wrap) % PIPESIZE = a % PIPESIZE
<1> DEFINE w == Wrap \div PIPESIZE
<1>1. w \in Int /\ Wrap = PIPESIZE * w
  BY PipeAssumption, Quot
<1> HIDE DEF w
<1> DEFINE k == -w
<1>2. k \in Int /\ PIPESIZE * k = - Wrap
  BY <1>1, Sizes
<1> HIDE DEF k
<1>3. a - Wrap = PIPESIZE * k + a
  BY <1>2, Sizes
<1> QED BY <1>2, <1>3, Sizes, Shift, Zenon

LEMMA ContentsIs ==
  ASSUME NEW d, NEW r \in 0 .. Wrap - 1, NEW u \in 0 .. Wrap
  PROVE  [k \in 1..u |-> d[((r + k - 1) % Wrap) % PIPESIZE]] = Bytes(d, r, u)
<1> SUFFICES ASSUME NEW k \in 1..u PROVE ((r + k - 1) % Wrap) % PIPESIZE = (r + k - 1) % PIPESIZE
  BY Zenon DEF Bytes
<1> DEFINE a == r + k - 1
<1>1. a \in 0 .. 2 * Wrap - 1
  BY Sizes
<1>2. (a % Wrap) % PIPESIZE = a % PIPESIZE
  <2> HIDE DEF a
  <2>1. a % Wrap = a \/ a % Wrap = a - Wrap
    BY <1>1, Wraps
  <2>2. a \in Int
    BY <1>1, Sizes
  <2>3. (a - Wrap) % PIPESIZE = a % PIPESIZE
    BY <2>2, Unwrapped
  <2> QED BY <2>1, <2>3
<1> QED BY <1>2

LEMMA BytesSeq ==
  ASSUME NEW d \in [0..PIPESIZE - 1 -> Val], NEW r \in Int, NEW u \in Nat
  PROVE  /\ Bytes(d, r, u) \in Seq(Val) /\ Len(Bytes(d, r, u)) = u
         /\ \A k \in 1..u : Bytes(d, r, u)[k] = d[(r + k - 1) % PIPESIZE]
<1>1. \A k \in 1..u : (r + k - 1) % PIPESIZE \in 0..PIPESIZE - 1
  BY Quot, Sizes
<1>2. Bytes(d, r, u) \in [1..u -> Val]
  BY <1>1, Zenon DEF Bytes
<1>3. Bytes(d, r, u) \in Seq(Val)
  BY <1>2, SeqDef
<1>4. Len(Bytes(d, r, u)) = u
  BY <1>2, <1>3, LenProperties
<1> QED BY <1>3, <1>4 DEF Bytes

(* A byte put behind the last one overwrites none of the others. *)
LEMMA BytesPut ==
  ASSUME NEW d \in [0..PIPESIZE - 1 -> Val], NEW r \in 0 .. Wrap - 1, NEW u \in 0 .. PIPESIZE - 1, NEW v \in Val
  PROVE  Bytes([d EXCEPT ![(r + u) % PIPESIZE] = v], r, u + 1) = Append(Bytes(d, r, u), v)
<1> DEFINE e == [d EXCEPT ![(r + u) % PIPESIZE] = v]
           s == Bytes(d, r, u)
           t == Bytes(e, r, u + 1)
<1>1. u \in Nat /\ u + 1 \in Nat /\ r \in Int
  BY Sizes
<1>2. e \in [0..PIPESIZE - 1 -> Val]
  BY Zenon
<1>3. s \in Seq(Val) /\ Len(s) = u /\ \A k \in 1..u : s[k] = d[(r + k - 1) % PIPESIZE]
  BY <1>1, BytesSeq, Zenon
<1>4. t \in Seq(Val) /\ Len(t) = u + 1 /\ \A k \in 1..u + 1 : t[k] = e[(r + k - 1) % PIPESIZE]
  <2> HIDE DEF e
  <2> QED BY <1>1, <1>2, BytesSeq, Zenon
<1>5. ASSUME NEW k \in 1..u PROVE t[k] = s[k]
  <2> DEFINE a == r + k - 1
             g == u - k + 1
  <2>1. a \in Int /\ g \in 1 .. PIPESIZE - 1 /\ a + g = r + u
    BY Sizes
  <2>2. (a + g) % PIPESIZE # a % PIPESIZE
    <3> HIDE DEF a, g
    <3> QED BY <2>1, Apart, Sizes, Zenon
  <2>3. (r + u) % PIPESIZE # (r + k - 1) % PIPESIZE
    BY <2>1, <2>2
  <2>4. (r + k - 1) % PIPESIZE \in 0..PIPESIZE - 1
    <3> HIDE DEF a
    <3>1. a % PIPESIZE \in 0..PIPESIZE - 1
      BY <2>1, Quot, Sizes, Zenon
    <3> QED BY <3>1 DEF a
  <2>5. e[(r + k - 1) % PIPESIZE] = d[(r + k - 1) % PIPESIZE]
    BY <2>3, <2>4
  <2> HIDE DEF s, t, e
  <2> QED BY <1>1, <1>3, <1>4, <2>5
<1>6. t[u + 1] = v
  <2>1. (r + u) % PIPESIZE \in 0..PIPESIZE - 1 /\ r + (u + 1) - 1 = r + u
    <3>1. r + u \in Int /\ r + (u + 1) - 1 = r + u
      BY <1>1
    <3> QED BY <3>1, Quot, Sizes, Zenon
  <2>2. t[u + 1] = e[(r + (u + 1) - 1) % PIPESIZE]
    <3> HIDE DEF s, t, e
    <3> QED BY <1>1, <1>4
  <2> QED BY <2>1, <2>2
<1> HIDE DEF s, t, e
<1>7. /\ Append(s, v) \in Seq(Val) /\ Len(Append(s, v)) = u + 1
      /\ \A k \in 1..u : Append(s, v)[k] = s[k] /\ Append(s, v)[u + 1] = v
  BY <1>3, AppendProperties
<1>8. \A k \in 1..u + 1 : t[k] = Append(s, v)[k]
  <2> SUFFICES ASSUME NEW k \in 1..u + 1 PROVE t[k] = Append(s, v)[k]
    BY Zenon
  <2>1. CASE k \in 1..u
    BY <1>5, <1>7, <2>1
  <2>2. CASE k = u + 1
    BY <1>3, <1>6, <2>2, AppendProperties
  <2>3. k \in 1..u \/ k = u + 1
    OBVIOUS
  <2> QED BY <2>1, <2>2, <2>3, Zenon
<1>9. t = Append(s, v)
  BY <1>4, <1>7, <1>8, SeqEqual
<1> QED BY <1>9, Zenon DEF s, t, e

(* The byte that is taken is the first one. *)
LEMMA BytesGet ==
  ASSUME NEW d \in [0..PIPESIZE - 1 -> Val], NEW r \in 0 .. Wrap - 1, NEW u \in 1 .. PIPESIZE
  PROVE  /\ Bytes(d, r, u) # <<>>
         /\ Head(Bytes(d, r, u)) = d[r % PIPESIZE]
         /\ Tail(Bytes(d, r, u)) = Bytes(d, Inc(r), u - 1)
<1> DEFINE s == Bytes(d, r, u)
           t == Bytes(d, Inc(r), u - 1)
<1>1. /\ u \in Nat /\ u - 1 \in Nat /\ r \in Int /\ Inc(r) \in Int
      /\ Inc(r) = IF r + 1 < Wrap THEN r + 1 ELSE r + 1 - Wrap
  BY Sizes, IncIs
<1>2. s \in Seq(Val) /\ Len(s) = u /\ \A k \in 1..u : s[k] = d[(r + k - 1) % PIPESIZE]
  BY <1>1, BytesSeq, Zenon
<1>3. t \in Seq(Val) /\ Len(t) = u - 1 /\ \A k \in 1..u - 1 : t[k] = d[(Inc(r) + k - 1) % PIPESIZE]
  BY <1>1, BytesSeq, Zenon
<1> HIDE DEF s, t
<1>4. s # <<>>
  BY <1>1, <1>2
<1>5. Head(s) = d[r % PIPESIZE]
  <2>1. Head(s) = s[1] /\ 1 \in 1..u /\ r + 1 - 1 = r
    BY <1>1, <1>2, <1>4
  <2> QED BY <1>2, <2>1
<1>6. /\ Tail(s) \in Seq(Val) /\ Len(Tail(s)) = u - 1
      /\ \A k \in 1..u - 1 : Tail(s)[k] = s[k + 1]
  BY <1>2, <1>4, HeadTailProperties
<1>7. ASSUME NEW k \in 1..u - 1 PROVE t[k] = Tail(s)[k]
  <2>1. k + 1 \in 1..u /\ r + (k + 1) - 1 = r + k
    BY <1>1
  <2>2. (Inc(r) + k - 1) % PIPESIZE = (r + k) % PIPESIZE
    <3>1. CASE r + 1 < Wrap
      <4>1. Inc(r) + k - 1 = r + k
        BY <1>1, <3>1
      <4> QED BY <4>1
    <3>2. CASE ~(r + 1 < Wrap)
      <4>1. Inc(r) + k - 1 = (r + k) - Wrap /\ r + k \in Int
        BY <1>1, <3>2, Sizes
      <4> QED BY <4>1, Unwrapped
    <3> QED BY <3>1, <3>2
  <2> QED BY <1>2, <1>3, <1>6, <2>1, <2>2
<1>8. Tail(s) = t
  BY <1>3, <1>6, <1>7, SeqEqual, Zenon
<1> QED BY <1>4, <1>5, <1>8 DEF s, t

-----------------------------------------------------------------------------
(* What the pipe is as a stream. *)
Stream == IF alloc THEN Contents ELSE <<>>
Opened == IF alloc THEN {e \in {"r", "w"} : IF e = "r" THEN readopen ELSE writeopen} ELSE {}

(* The contents, by the number of bytes used. *)
LEMMA ContentsBytes ==
  ASSUME TypeOK
  PROVE  Contents = Bytes(data, nread, Used)
<1>1. nread \in 0 .. Wrap - 1 /\ Used \in 0 .. Wrap
  BY UsedIs, Sizes DEF TypeOK
<1>2. Contents = [k \in 1..Used |-> data[((nread + k - 1) % Wrap) % PIPESIZE]]
  BY DEF Contents, Used
<1> QED BY <1>1, <1>2, ContentsIs

LEMMA ContentsBytesNext ==
  ASSUME TypeOK'
  PROVE  Contents' = Bytes(data', nread', Used')
<1>1. nread' \in 0 .. Wrap - 1 /\ nwrite' \in 0 .. Wrap - 1
  BY DEF TypeOK
<1>2. Used' \in 0 .. Wrap
  BY <1>1, DistanceIn DEF Used
<1>3. Contents' = [k \in 1..Used' |-> data'[((nread' + k - 1) % Wrap) % PIPESIZE]]
  BY DEF Contents, Used
<1> QED BY <1>1, <1>2, <1>3, ContentsIs, Zenon

(* A step that leaves the ring and the ends alone is none of the stream's. *)
LEMMA StreamKept ==
  ASSUME UNCHANGED <<alloc, ring, ends>>
  PROVE  UNCHANGED <<Stream, Opened>>
BY DEF Stream, Opened, Contents, ring, ends

LEMMA StreamInit == Init => F!Init
BY DEF Init, F!Init

LEMMA StreamStep == PipeInv /\ PipeInv' /\ [Next]_vars => [F!Next]_<<Stream, Opened, delivered>>
<1> SUFFICES ASSUME PipeInv, PipeInv', [Next]_vars PROVE [F!Next]_<<Stream, Opened, delivered>>
  OBVIOUS
<1>1. CASE UNCHANGED vars
  BY <1>1, StreamKept DEF vars
<1>2. ASSUME delivered' = None, UNCHANGED <<Stream, Opened>> PROVE F!Next
  BY <1>2 DEF F!Next, F!Pass, Stream, Opened
<1>3. ASSUME delivered' = None, UNCHANGED <<alloc, ring, ends>> PROVE F!Next
  BY <1>2, <1>3, StreamKept
<1>4. ASSUME NEW p \in Proc, User(p) PROVE F!Next
  <2>1. CASE Pipealloc(p)
    <3>1. ~alloc /\ alloc' /\ readopen' /\ writeopen' /\ delivered' = None /\ nread' = 0 /\ nwrite' = 0
      BY <2>1 DEF Pipealloc
    <3>2. Stream = <<>> /\ Opened = {} /\ Opened' = {"r", "w"}
      BY <3>1 DEF Stream, Opened
    <3>3. TypeOK' /\ Used' = 0
      BY <3>1, Distance, Sizes DEF PipeInv, TypeOK, Used
    <3>4. Stream' = <<>>
      BY <3>1, <3>3, ContentsBytesNext DEF Stream, Bytes
    <3> QED BY <3>1, <3>2, <3>4 DEF F!Next, F!Open, Stream, Opened
  <2>2. CASE Kill(p)
    BY <1>3, <2>2, Zenon DEF Kill
  <2>3. ASSUME NEW q \in Proc, Fork(p, q) PROVE F!Next
    BY <1>3, <2>3, Zenon DEF Fork
  <2>4. ASSUME NEW e \in {"r", "w"}, Fileclose(p, e) PROVE F!Next
    BY <1>3, <2>4, Zenon DEF Fileclose
  <2>5. ASSUME NEW e \in {"r", "w"}, NEW k \in 0..MaxN, Call(p, e, k) PROVE F!Next
    BY <1>3, <2>5, Zenon DEF Call
  <2> QED BY <1>4, <2>1, <2>2, <2>3, <2>4, <2>5, Zenon DEF User
<1>5. ASSUME NEW p \in Proc, Pipeclose(p) PROVE F!Next
  <2>1. alloc /\ UNCHANGED <<alloc, ring>> /\ delivered' = None /\ UNCHANGED Stream
    BY <1>5, Zenon DEF Pipeclose, PipeInv, EndsInv, Stream, Contents, ring
  <2>2. \/ writeopen /\ ~writeopen' /\ UNCHANGED readopen
        \/ readopen /\ ~readopen' /\ UNCHANGED writeopen
    BY <1>5, Zenon DEF Pipeclose, PipeInv, EndsInv
  <2>3. \E e \in {"r", "w"} : e \in Opened /\ Opened' = Opened \ {e}
    BY <2>1, <2>2 DEF Opened
  <2> QED BY <2>1, <2>3 DEF F!Next, F!Close, Stream, Opened
<1>6. ASSUME NEW p \in Proc, Kfree(p) PROVE F!Next
  <2>1. ~readopen /\ ~writeopen /\ ~alloc' /\ delivered' = None /\ UNCHANGED ends
    BY <1>6 DEF Kfree, Goto, PipeInv, EndsInv
  <2>2. Opened = {} /\ Opened' = {} /\ Stream' = <<>>
    BY <2>1 DEF Opened, Stream
  <2> QED BY <2>1, <2>2 DEF F!Next, F!Drop, Stream, Opened
<1>7. ASSUME NEW p \in Proc, NEW v \in Val, Pipewrite(p, v) PROVE F!Next
  <2>1. UNCHANGED <<alloc, ends>> /\ delivered' = None /\ alloc /\ writeopen
    BY <1>7, Zenon DEF Pipewrite, PipeInv, EndsInv, WriteLocations
  <2>2. CASE UNCHANGED ring
    BY <1>3, <2>1, <2>2
  <2>3. CASE ~UNCHANGED ring
    <3>1. /\ ~Full /\ data' = [data EXCEPT ![nwrite % PIPESIZE] = v]
          /\ nwrite' = Inc(nwrite) /\ UNCHANGED nread
      BY <1>7, <2>3 DEF Pipewrite
    <3>2. TypeOK /\ TypeOK' /\ nread \in 0 .. Wrap - 1 /\ nwrite \in 0 .. Wrap - 1
          /\ data \in [0..PIPESIZE - 1 -> Val]
      BY Zenon DEF PipeInv, TypeOK
    <3>3. Used \in 0 .. PIPESIZE - 1 /\ Used < PIPESIZE
      BY <3>1, <3>2, UsedIs, Sizes DEF PipeInv, RingInv
    <3>4. Used' = Used + 1
      BY <3>1, <3>2, <3>3, UsedMoves DEF Used
    <3>5. nwrite % PIPESIZE = (nread + Used) % PIPESIZE
      <4> DEFINE a == nread + Used
      <4>1. a \in Int /\ (nwrite = a \/ nwrite = a - Wrap)
        BY <3>2, <3>3, UsedIs, Sizes
      <4>2. (a - Wrap) % PIPESIZE = a % PIPESIZE
        <5> HIDE DEF a
        <5> QED BY <4>1, Unwrapped
      <4> HIDE DEF a
      <4>3. nwrite % PIPESIZE = a % PIPESIZE
        BY <4>1, <4>2
      <4> QED BY <4>3 DEF a
    <3>6. Contents' = Append(Contents, v)
      BY <3>1, <3>2, <3>3, <3>4, <3>5, BytesPut, ContentsBytes, ContentsBytesNext, ZenonT(40)
    <3>7. Len(Contents) < PIPESIZE
      BY <3>2, <3>3, BytesSeq, ContentsBytes, Sizes
    <3>8. Stream' = Append(Stream, v) /\ Len(Stream) < PIPESIZE /\ "w" \in Opened /\ UNCHANGED Opened
      BY <2>1, <3>6, <3>7 DEF Stream, Opened, ends
    <3> QED BY <2>1, <3>8 DEF F!Next, F!Put, Stream, Opened
  <2> QED BY <2>2, <2>3
<1>8. ASSUME NEW p \in Proc, Piperead(p) PROVE F!Next
  <2>1. UNCHANGED <<alloc, ends>> /\ alloc /\ readopen
    BY <1>8, Zenon DEF Piperead, PipeInv, EndsInv, ReadLocations
  <2>2. CASE i[p] = n[p] \/ Empty
    BY <1>3, <1>8, <2>1, <2>2, Zenon DEF Piperead
  <2>3. CASE ~(i[p] = n[p] \/ Empty)
    <3>1. delivered' = data[nread % PIPESIZE] /\ nread' = Inc(nread) /\ UNCHANGED <<data, nwrite>>
      BY <1>8, <2>3 DEF Piperead
    <3>2. TypeOK /\ TypeOK' /\ nread \in 0 .. Wrap - 1 /\ nwrite \in 0 .. Wrap - 1
          /\ data \in [0..PIPESIZE - 1 -> Val]
      BY Zenon DEF PipeInv, TypeOK
    <3>3. Used \in 1 .. PIPESIZE /\ Used # 0
      BY <2>3, <3>2, UsedIs, Sizes DEF PipeInv, RingInv
    <3>4. Used' = Used - 1
      BY <3>1, <3>2, <3>3, UsedMoves DEF Used
    <3>5. Contents # <<>> /\ Head(Contents) = delivered' /\ Contents' = Tail(Contents)
      BY <3>1, <3>2, <3>3, <3>4, BytesGet, ContentsBytes, ContentsBytesNext, ZenonT(40)
    <3>6. Stream # <<>> /\ Head(Stream) = delivered' /\ Stream' = Tail(Stream)
          /\ "r" \in Opened /\ UNCHANGED Opened
      BY <2>1, <3>5 DEF Stream, Opened, ends
    <3> QED BY <3>6 DEF F!Next, F!Get, Stream, Opened
  <2> QED BY <2>2, <2>3
<1>9. ASSUME NEW p \in Proc, LockCall(p) \/ PipereadWait(p) \/ Sleep(p) PROVE F!Next
  BY <1>3, <1>9, Zenon DEF LockCall, PipereadWait, Sleep
<1> QED BY <1>1, <1>4, <1>5, <1>6, <1>7, <1>8, <1>9 DEF Next, Step

(* A pipe (src/kernel/src/pipe.rs) is a bounded first-in first-out stream: *)
(* whatever readers, writers, closes and kills do, and wherever the        *)
(* counters wrap, no byte is lost, repeated or reordered.                  *)
THEOREM PipeIsStream == Spec => RefinesStream
<1>1. Spec => F!Init
  BY StreamInit DEF Spec
<1>2. PipeInv /\ PipeInv' /\ [Next]_vars => [F!Next]_<<Stream, Opened, delivered>>
  BY StreamStep
<1> QED BY <1>1, <1>2, PipeSpecInv, PTL DEF Spec, RefinesStream, F!Spec, Stream, Opened
=============================================================================
