-------------------------------- MODULE Grep --------------------------------
(***************************************************************************)
(* The user program grep (src/xv6/grep.c): its matcher, and the loop that  *)
(* cuts lines out of a buffer that is filled by reads of any length.       *)
(*                                                                         *)
(* A read of a file fills the buffer as far as the file goes; a read of a  *)
(* pipe (module Pipe) returns what is there, one byte at least.  A string  *)
(* is a sequence of characters, and its end is the terminating zero.       *)
(***************************************************************************)
EXTENDS Integers, Sequences, SequencesExt, FiniteSets, FiniteSetsExt

CONSTANTS
  Jobs,     \* what is asked for: pattern, pipe, and the texts to read
  BufLen    \* sizeof(buf)

ASSUME GrepAssumption == BufLen \in Nat /\ BufLen > 1

VARIABLES
  job,     \* the arguments
  arg,     \* the text that is open
  off,     \* bytes read of it
  buf,     \* buf[0 .. m-1]
  found,   \* what has been written
  lost     \* some bytes of a line have been given up

grepVars == <<job, arg, off, buf, found, lost>>

GrepInit == job \in Jobs /\ arg = 1 /\ off = 0 /\ buf = <<>> /\ found = <<>> /\ lost = FALSE

-----------------------------------------------------------------------------
RECURSIVE matchhere(_, _), matchstar(_, _, _)

matchhere(re, text) ==
  CASE re = <<>> -> TRUE
    [] Len(re) > 1 /\ re[2] = "*" -> matchstar(re[1], SubSeq(re, 3, Len(re)), text)
    [] re = <<"$">> -> text = <<>>
    [] OTHER -> /\ text # <<>> /\ re[1] \in {".", text[1]}
                /\ matchhere(Tail(re), Tail(text))

matchstar(c, re, text) ==
  \/ matchhere(re, text)
  \/ text # <<>> /\ c \in {".", text[1]} /\ matchstar(c, re, Tail(text))

match(re, text) ==
  IF re # <<>> /\ re[1] = "^" THEN matchhere(Tail(re), text)
  ELSE \E k \in 1 .. Len(text) + 1 : matchhere(re, SubSeq(text, k, Len(text)))

-----------------------------------------------------------------------------
Newlines(s) == {k \in 1 .. Len(s) : s[k] = "\n"}

(* The lines of s, each without its newline; what follows the last newline *)
(* is no line.                                                             *)
LinesOf(s) ==
  FoldLeft(LAMBDA ls, k :
             IF s[k] # "\n" THEN ls
             ELSE Append(ls, SubSeq(s, Max({0} \cup {j \in Newlines(s) : j < k}) + 1, k - 1)),
           <<>>, [k \in 1 .. Len(s) |-> k])

(* What the lines ls are in the output. *)
Written(ls) == FoldLeft(LAMBDA out, l : out \o Append(l, "\n"), <<>>, ls)

(* Mutation: the rest of the last line stays where it was. *)
grep_NoMove(s) == IF Newlines(s) = {} THEN <<>> ELSE SubSeq(s, 1, Len(s) - Max(Newlines(s)))

(* What stays in the buffer: nothing, when no line has been found in it. *)
grep(s) == IF Newlines(s) = {} THEN <<>> ELSE SubSeq(s, Max(Newlines(s)) + 1, Len(s))

(* One read, and the lines that are complete with it. *)
GrepRead(n) ==
  /\ arg <= Len(job.texts)
  /\ LET text == job.texts[arg]
         room == Min({BufLen - Len(buf) - 1, Len(text) - off})
         s == buf \o SubSeq(text, off + 1, off + n)
     IN  /\ n \in 1 .. room /\ (~job.pipe => n = room)
         /\ off' = off + n
         /\ found' = found \o Written(SelectSeq(LinesOf(s), LAMBDA l : match(job.pattern, l)))
         /\ buf' = grep(s)
         /\ lost' = (lost \/ Newlines(s) = {})
  /\ UNCHANGED <<job, arg>>

(* main: the next file, after end of file. *)
GrepNextFile ==
  /\ arg <= Len(job.texts) /\ off = Len(job.texts[arg])
  /\ arg' = arg + 1
  /\ off' = 0 /\ buf' = <<>> /\ UNCHANGED <<job, found, lost>>

GrepNext == GrepNextFile \/ \E n \in 1 .. BufLen : GrepRead(n)

GrepSpec == GrepInit /\ [][GrepNext]_grepVars

-----------------------------------------------------------------------------
(* A pattern read as a whole: characters, each of which may carry a star, *)
(* and two anchors.                                                       *)
Items(re) ==
  FoldLeft(LAMBDA is, c :
             IF c = "*" /\ is # <<>> /\ ~is[Len(is)].star
             THEN [is EXCEPT ![Len(is)].star = TRUE]
             ELSE Append(is, [c |-> c, star |-> FALSE]), <<>>, re)

(* Some part of the line is made of the pattern's characters, a starred   *)
(* one any number of times and the others once.                           *)
Accepts(re, line) ==
  LET left == re # <<>> /\ re[1] = "^"
      all == Items(IF left THEN Tail(re) ELSE re)
      right == all # <<>> /\ all[Len(all)] = [c |-> "$", star |-> FALSE]
      is == IF right THEN SubSeq(all, 1, Len(all) - 1) ELSE all
      times == {t \in [1 .. Len(is) -> 0 .. Len(line)] : \A i \in DOMAIN t : is[i].star \/ t[i] = 1}
  IN  \E t \in times, b \in 0 .. Len(line) :
        LET upto(i) == b + FoldLeft(LAMBDA n, j : n + t[j], 0, [j \in 1 .. i |-> j])
        IN  /\ upto(Len(is)) <= Len(line)
            /\ \A i \in DOMAIN is :
                 \A k \in upto(i - 1) + 1 .. upto(i) : is[i].c \in {".", line[k]}
            /\ left => b = 0
            /\ right => upto(Len(is)) = Len(line)

(* The selected lines of what has been read up to here. *)
Consumed ==
  FoldLeft(LAMBDA out, k :
             LET read == SubSeq(job.texts[k], 1, IF k < arg THEN Len(job.texts[k]) ELSE off)
             IN  out \o Written(SelectSeq(LinesOf(read), LAMBDA l : Accepts(job.pattern, l))),
           <<>>, [k \in 1 .. Min({arg, Len(job.texts)}) |-> k])

IsSuffixOf(s, t) == Len(s) <= Len(t) /\ s = SubSeq(t, Len(t) - Len(s) + 1, Len(t))

(* grep writes the lines that the pattern describes, all of them, once and *)
(* in order, wherever the reads cut them: always, when it reads files of    *)
(* lines that fit its buffer, and from a pipe as long as every read has    *)
(* brought the end of a line; after a read that has not, what it writes    *)
(* is still the end of a line of the text.                                 *)
GrepLines ==
  /\ ~lost => found = Consumed
  /\ lost => \/ job.pipe
             \/ \E k \in DOMAIN job.texts : \E i \in 0 .. Len(job.texts[k]) - (BufLen - 1) :
                  \A j \in 1 .. BufLen - 1 : job.texts[k][i + j] # "\n"
             \/ \E k \in DOMAIN job.texts : ~IsSuffixOf(<<"\n">>, job.texts[k])
  /\ \A l \in ToSet(LinesOf(found)) :
       \E k \in DOMAIN job.texts : \E whole \in ToSet(LinesOf(job.texts[k])) : IsSuffixOf(l, whole)
=============================================================================
