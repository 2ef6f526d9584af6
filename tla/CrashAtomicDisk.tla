--------------------------- MODULE CrashAtomicDisk ---------------------------
(***************************************************************************)
(* What the log promises to the file system: system calls in progress      *)
(* update the blocks in memory; now and then, when no system call is in    *)
(* progress, everything so far becomes durable at once; a crash goes back  *)
(* to the last such moment.  A durable state therefore contains all or     *)
(* nothing of every system call.                                           *)
(***************************************************************************)
CONSTANTS Proc, Block, Val, InitVal

VARIABLES
  mem,        \* the blocks as system calls see them
  durable,    \* the blocks as they are after a crash
  active      \* the system calls in progress

Init ==
  /\ mem = [b \in Block |-> InitVal]
  /\ durable = mem
  /\ active = {}

Begin(p) == p \notin active /\ active' = active \cup {p} /\ UNCHANGED <<mem, durable>>
End(p) == p \in active /\ active' = active \ {p} /\ UNCHANGED <<mem, durable>>

Write(p, b, v) ==
  /\ p \in active
  /\ mem' = [mem EXCEPT ![b] = v]
  /\ UNCHANGED <<durable, active>>

Commit == active = {} /\ durable' = mem /\ UNCHANGED <<mem, active>>

Crash == mem' = durable /\ active' = {} /\ UNCHANGED durable

Next ==
  \/ \E p \in Proc : Begin(p) \/ End(p) \/ \E b \in Block, v \in Val : Write(p, b, v)
  \/ Commit
  \/ Crash

Spec == Init /\ [][Next]_<<mem, durable, active>>
=============================================================================
