------------------------------ MODULE Terminal ------------------------------
(***************************************************************************)
(* What the console promises its readers: a line being edited and a queue  *)
(* of characters that were entered.  A line is entered by its newline, by  *)
(* end of file, or because there is room for no further character.         *)
(***************************************************************************)
EXTENDS Naturals, Sequences

CONSTANTS Character, LineEnd, Capacity

VARIABLES line, queue

Enter(l) ==
  IF l[Len(l)] \in LineEnd \/ Len(queue) + Len(l) = Capacity
    THEN queue' = queue \o l /\ line' = <<>>
    ELSE line' = l /\ UNCHANGED queue

Type(c) == Len(queue) + Len(line) < Capacity /\ Enter(Append(line, c))

Erase == line # <<>> /\ line' = SubSeq(line, 1, Len(line) - 1) /\ UNCHANGED queue

Kill == line' = <<>> /\ UNCHANGED queue

Take == queue # <<>> /\ queue' = Tail(queue) /\ UNCHANGED line

Init == line = <<>> /\ queue = <<>>
Next == (\E c \in Character : Type(c)) \/ Erase \/ Kill \/ Take
Spec == Init /\ [][Next]_<<line, queue>>
=============================================================================
