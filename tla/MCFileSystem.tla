---------------------------- MODULE MCFileSystem ----------------------------
EXTENDS FileSystem

TwoProcs == {"p1", "p2"}

Call(op, pth) == [op |-> op, abs |-> TRUE, path |-> pth, new |-> <<>>, write |-> FALSE]

\* One process builds a tree, the other one walks through it and takes it down.
TreeCalls ==
  [p1 |-> { Call("mkdir", <<"a">>), Call("creat", <<"a", "f">>),
            Call("unlink", <<"a", "f">>),
            [Call("link", <<"a", "f">>) EXCEPT !.new = <<"a", "g">>] },
   p2 |-> { Call("unlink", <<"a">>), Call("unlink", <<"a", "f">>), Call("unlink", <<"a", "g">>),
            Call("chdir", <<"a">>), [Call("chdir", <<"..">>) EXCEPT !.abs = FALSE],
            Call("open", <<"a", "..", "a">>) }]

\* The calls of linkunlink() in usertests.c.
LinkUnlink == [p \in Proc |-> { Call("creat", <<"x">>), Call("unlink", <<"x">>) }]

\* A file is created in a directory that is removed at the same time.
CreateRemove ==
  [p1 |-> { Call("mkdir", <<"a">>), Call("creat", <<"a", "f">>) },
   p2 |-> { Call("unlink", <<"a">>) }]
=============================================================================
