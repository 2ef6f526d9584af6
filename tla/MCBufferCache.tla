--------------------------- MODULE MCBufferCache ---------------------------
(* Processes and blocks are interchangeable. *)
EXTENDS BufferCache, TLC

Symmetry == Permutations(Proc) \cup Permutations(Block)
=============================================================================
