-------------------------------- MODULE Mutex --------------------------------
(***************************************************************************)
(* What a long-term lock promises its users: at most one process holds it, *)
(* and only the holder gives it back.                                      *)
(***************************************************************************)
CONSTANTS Proc, None

VARIABLE holder

Init == holder = None

Acquire(p) == holder = None /\ holder' = p
Release(p) == holder = p /\ holder' = None

Next == \E p \in Proc : Acquire(p) \/ Release(p)

Spec == Init /\ [][Next]_holder
=============================================================================
