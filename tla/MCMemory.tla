------------------------------ MODULE MCMemory ------------------------------
(***************************************************************************)
(* Address spaces of up to five pages and sizes that are parts of a page.  *)
(* One program fits, the other one has a second segment that is unaligned  *)
(* and too large.                                                          *)
(*                                                                         *)
(* The allocator that user programs put on top of sbrk has its own state,  *)
(* so a behaviour is one of the kernel or one of the allocator.            *)
(***************************************************************************)
EXTENDS Memory, Umalloc

VARIABLE part

TheSbrkArgs == {-3, -1, 3}
Seg(v, m) == [vaddr |-> v, memsz |-> m]
ThePrograms == {<<Seg(0, 1)>>, <<Seg(0, 2), Seg(3, 9)>>}

MCInit == Init /\ UmallocInit /\ part \in {"kernel", "malloc"}

MCNext ==
  /\ UNCHANGED part
  /\ \/ part = "kernel" /\ Next /\ UNCHANGED heapVars
     \/ part = "malloc" /\ UmallocNext /\ UNCHANGED vars

MCSpec == MCInit /\ [][MCNext]_<<part, vars, heapVars>>
=============================================================================
