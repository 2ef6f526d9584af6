----------------------------- MODULE MCFileData -----------------------------
EXTENDS FileData, TLC

\* Two opens of one inode, one of another.
MCProc == {"p1", "p2"}
MCFile == {"a", "b", "c"}
MCInode == {"x", "y"}
MCip == [a |-> "x", b |-> "x", c |-> "y"]
\* Patterns of three bytes, which two bytes of a block do not divide.
MCbytes == [p1 |-> (0 :> 1 @@ 1 :> 2 @@ 2 :> 3), p2 |-> (0 :> 4 @@ 1 :> 5 @@ 2 :> 6)]
MCuses == [p1 |-> {<<"write", "a", 7>>, <<"read", "a", 3>>},
           p2 |-> {<<"write", "b", 3>>, <<"write", "c", 5>>}]
=============================================================================
