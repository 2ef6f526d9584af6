------------------------------- MODULE MCPipe -------------------------------
(***************************************************************************)
(* Pipes and the programs that work with them: a pipe with two processes,  *)
(* the parser of the shell, the shell at work, grep; and mkfs, which makes *)
(* the disk they are on.  They share no state here, so a behaviour is one  *)
(* of one of them: which, is chosen at the start.                          *)
(***************************************************************************)
EXTENDS Pipe, Shell, Grep, Mkfs

CONSTANTS p1, p2, v1, v2

VARIABLES
  part,
  line,    \* a line that is typed for the parser,
  keys     \* with these characters and up to this length

rest == <<part, line, keys>>

TwoProcs == {p1, p2}
TwoBytes == {v1, v2}

Strings(S, len) == UNION {[1 .. k -> S] : k \in 0 .. len}

\* What is typed for the parser: all characters, or those of one construct.
MCKeys == {<<{"a", " ", "|", ";", "&", "(", ")", "<", ">"}, 4>>, <<{"a", "(", ")", "|"}, 6>>,
           <<{"a", ">", "<", " "}, 6>>, <<{"a", "&", ";", "|"}, 6>>}

\* e is echo, c is cat: a pipe, a list in a pipe, a file, a job that is left running,
\* programs that do not read what they are sent, an error.
MCLines ==
  {<<"e", " ", "x", "|", "c">>,
   <<"(", "e", " ", "x", ";", "e", " ", "y", ")", "|", "c">>,
   <<"e", " ", "x", ">", "f", ";", "c", " ", "f">>,
   <<"e", " ", "x", "&">>,
   <<"c", "<", "f">>,
   <<"e", " ", "x", "|", "e", " ", "y">>,
   <<"x", "|", "(">>}
MCNames == {<<"f">>}

\* All short patterns on all short lines, and one on texts that the reads cut.
MCJobs ==
  {[pattern |-> re, pipe |-> FALSE, texts |-> <<Append(l, "\n")>>] :
     re \in Strings({"a", ".", "*", "^", "$"}, 4), l \in Strings({"a", "b"}, 3)} \cup
  {[pattern |-> <<"b", "$">>, pipe |-> b, texts |-> <<t, <<"b", "\n">>>>] :
     b \in BOOLEAN, t \in Strings({"a", "b", "\n"}, 6)}

\* Files that end within a block, with a block, with the direct and with the indirect
\* ones, and one that is too long.
MCFile(k, size) ==
  [name |-> IF k = 2 THEN <<10 + k>> ELSE <<Underscore, 10 + k, 11, 12>>,
   bytes |-> [j \in 1 .. size |-> 1 + ((j + k) % 3)]]
MCSizes == {0, 1, 5, 6, 7, 12, 13, 18, 19}
MCArguments ==
  {<<>>} \cup {<<MCFile(1, a)>> : a \in MCSizes} \cup
  {<<MCFile(1, a), MCFile(2, b)>> : a \in MCSizes, b \in MCSizes} \cup
  {<<MCFile(1, a), MCFile(2, b), MCFile(3, c)>> : a \in MCSizes, b \in {0, 1, 13}, c \in {6, 13}}

-----------------------------------------------------------------------------
MCInit ==
  /\ Init /\ ShellInit
  /\ part \in {"pipe", "parser", "shell", "grep", "mkfs"}
  /\ line = <<>>
  /\ IF part = "parser" THEN keys \in MCKeys ELSE keys = <<{}, 0>>
  /\ IF part = "grep" THEN GrepInit
     ELSE job = [pattern |-> <<>>, pipe |-> FALSE, texts |-> <<>>] /\ arg = 1 /\ off = 0 /\ buf = <<>> /\ found = <<>> /\ lost = FALSE
  /\ IF part = "mkfs" THEN MkfsInit
     ELSE argv = <<>> /\ next = 1 /\ unread = <<>> /\ at = "root" /\ img = <<>>

Type(c) == Len(line) < keys[2] /\ line' = Append(line, c) /\ UNCHANGED <<part, keys>>

MCNext ==
  \/ part = "pipe" /\ Next /\ UNCHANGED <<rest, shVars, grepVars, mkVars>>
  \/ part = "parser" /\ (\E c \in keys[1] : Type(c)) /\ UNCHANGED <<vars, shVars, grepVars, mkVars>>
  \/ part = "shell" /\ ShellNext /\ UNCHANGED <<rest, vars, grepVars, mkVars>>
  \/ part = "grep" /\ GrepNext /\ UNCHANGED <<rest, vars, shVars, mkVars>>
  \/ part = "mkfs" /\ MkfsNext /\ UNCHANGED <<rest, vars, shVars, grepVars>>

MCSpec == MCInit /\ [][MCNext]_<<rest, vars, shVars, grepVars, mkVars>>

-----------------------------------------------------------------------------
(* Every line has the tree that its tokens mean, or is rejected when they  *)
(* mean none: the recursive descent with its two pointers into the line,   *)
(* the zeros that nulterminate writes between words only at the end, and   *)
(* the limit on the arguments agree with a definition on the tokens.       *)
ParserRight == part = "parser" => parsecmd(line) = Reference(line)
=============================================================================
