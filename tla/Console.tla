------------------------------ MODULE Console -------------------------------
(***************************************************************************)
(* The console (src/kernel/c/console.c): the line buffer between the       *)
(* keyboard interrupt and the processes that read, and the screen.         *)
(*                                                                         *)
(* cons.lock is held throughout an interrupt, a write and a message of the *)
(* kernel, so each is one step; a reader copies a character per step.  The *)
(* indices of the line buffer are 32-bit counters that wrap at IndexWrap.  *)
(* A call gives the sleep lock of the console's inode back before it takes *)
(* cons.lock and takes it again when it has given that back, so no step    *)
(* here holds it.                                                          *)
(***************************************************************************)
EXTENDS Integers, Sequences, FiniteSetsExt

CONSTANTS
  Reader,          \* processes that read the console
  Killable,        \* those that may be killed
  Letter,          \* ordinary characters
  Text,            \* texts that processes and the kernel write
  INPUT_BUF,       \* size of the line buffer
  IndexWrap,       \* 2^32: a multiple of INPUT_BUF
  COLS, ROWS,      \* 80, 25: the screen; its last row is never used
  StartIndex,      \* input.r at the start: the console may have been used
  StartPos,        \* where the cursor may be by then
  MaxRead,         \* bound: largest byte count of a read
  MaxKeys,         \* bound: keys pressed
  MaxTexts,        \* bound: texts written
  Noone

ASSUME ConsoleAssumption ==
  /\ INPUT_BUF \in Nat \ {0} /\ IndexWrap \in Nat /\ IndexWrap % INPUT_BUF = 0
  /\ IndexWrap > INPUT_BUF /\ INPUT_BUF <= (ROWS - 2) * COLS
  /\ MaxRead \in Nat /\ MaxKeys \in Nat /\ MaxTexts \in Nat /\ Noone \notin Reader
  /\ Killable \subseteq Reader
  /\ StartIndex \in 0 .. IndexWrap - 1
  /\ StartPos \subseteq 0 .. (ROWS - 1) * COLS - 1

VARIABLES
  buf, r, w, e,       \* input
  screen,             \* the memory and the cursor of the display
  consLock,           \* holder of cons.lock
  loc, left, target,  \* a reader; its call: n, and what it was
  marked,             \* p->killed
  keys, texts,        \* keys pressed and texts written so far
  mixed               \* something was written in the middle of the line

input == <<buf, r, w, e>>
consVars == <<input, screen, consLock, loc, left, target, marked, keys, texts, mixed>>

\* ^P, which lists the processes, and a key of value 0 leave the line alone.
Keys == Letter \cup {"\r", "\n", "^D", "^U", "^H", "^P"}
Stored == Letter \cup {"\n", "^D"}
ReaderAt == {"user", "loop", "sleep", "asleep", "woken"}

ConsoleTypeOK ==
  /\ buf \in [0 .. INPUT_BUF - 1 -> Stored \cup {"old"}]
  /\ {r, w, e} \subseteq 0 .. IndexWrap - 1
  /\ consLock \in Reader \cup {Noone}
  /\ loc \in [Reader -> ReaderAt]
  /\ left \in [Reader -> 0 .. MaxRead] /\ target \in [Reader -> 0 .. MaxRead]
  /\ marked \in [Reader -> BOOLEAN] /\ keys \in 0 .. MaxKeys
  /\ texts \in 0 .. MaxTexts /\ mixed \in BOOLEAN

(* All that was entered has been read. *)
ConsoleInit ==
  /\ buf = [k \in 0 .. INPUT_BUF - 1 |-> "old"]
  /\ r = StartIndex /\ w = StartIndex /\ e = StartIndex
  /\ \E q \in StartPos : screen = [crt |-> [k \in 0 .. ROWS * COLS - 1 |-> ""], pos |-> q]
  /\ consLock = Noone
  /\ loc = [p \in Reader |-> "user"]
  /\ left = [p \in Reader |-> 0] /\ target = [p \in Reader |-> 0]
  /\ marked = [p \in Reader |-> FALSE]
  /\ keys = 0 /\ texts = 0 /\ mixed = FALSE

-----------------------------------------------------------------------------
(* cgaputc *)

(* Writes the character and moves the cursor, *)
Advance(s, c) ==
  CASE c = "\n" -> [s EXCEPT !.pos = @ + COLS - (@ % COLS)]
    [] c = "BACKSPACE" -> [s EXCEPT !.pos = IF @ > 0 THEN @ - 1 ELSE @]
    [] OTHER -> [s EXCEPT !.crt[s.pos] = c, !.pos = @ + 1]

(* Mutation: it scrolls when the cursor is already below the last row. *)
Scroll_Late(s) ==
  IF s.pos \div COLS < ROWS THEN s
  ELSE LET q == s.pos - COLS IN
       [pos |-> q,
        crt |-> [k \in DOMAIN s.crt |->
                   IF q <= k /\ k < (ROWS - 1) * COLS THEN ""
                   ELSE IF k < (ROWS - 2) * COLS THEN s.crt[k + COLS] ELSE s.crt[k]]]

(* scrolls up by a row when it gets to the last one: memmove, memset, *)
Scroll(s) ==
  IF s.pos \div COLS < ROWS - 1 THEN s
  ELSE LET q == s.pos - COLS IN
       [pos |-> q,
        crt |-> [k \in DOMAIN s.crt |->
                   IF q <= k /\ k < (ROWS - 1) * COLS THEN ""
                   ELSE IF k < (ROWS - 2) * COLS THEN s.crt[k + COLS] ELSE s.crt[k]]]

(* and blanks what the cursor is on. *)
cgaputc(s, c) == LET t == Scroll(Advance(s, c)) IN [t EXCEPT !.crt[t.pos] = " "]

(* consputc, for all characters of a text. *)
consputs(s, text) ==
  LET after[k \in 0 .. Len(text)] == IF k = 0 THEN s ELSE cgaputc(after[k - 1], text[k])
  IN  after[Len(text)]

-----------------------------------------------------------------------------
(* consoleintr: what a key does.  It takes cons.lock, and nobody can see  *)
(* the line buffer before it is done with all keys that are waiting.      *)

Plus(i, k) == (i + k) % IndexWrap
Minus(i, k) == (i + IndexWrap - k) % IndexWrap
At(i) == buf[i % INPUT_BUF]

(* The number of characters that ^U erases. *)
Killed ==
  LET n == Minus(e, w)
      Erased == {k \in 0 .. n : \A j \in 1 .. k : At(Minus(e, j)) # "\n"}
  IN  Max(Erased)

(* Mutation: a character too many for the ring. *)
Room_OffByOne == Minus(e, r) <= INPUT_BUF

Room == Minus(e, r) < INPUT_BUF

(* Mutation: the readers are woken at the end of a line, not when the     *)
(* line buffer is full.                                                   *)
Wakes_NotFull(c, e1) == c \in {"\n", "^D"}

(* The line is handed over, and wakeup(&input.r) called. *)
Wakes(c, e1) == c \in {"\n", "^D"} \/ e1 = Plus(r, INPUT_BUF)

Erase(k) ==
  /\ e' = Minus(e, k)
  /\ screen' = consputs(screen, [j \in 1 .. k |-> "BACKSPACE"])
  /\ UNCHANGED <<buf, r, w, loc>>

Insert(c) ==
  /\ buf' = [buf EXCEPT ![e % INPUT_BUF] = c]
  /\ e' = Plus(e, 1)
  /\ screen' = cgaputc(screen, c)
  /\ w' = IF c \in {"\n", "^D"} \/ e' = Plus(r, INPUT_BUF) THEN e' ELSE w
  /\ loc' = [p \in Reader |-> IF Wakes(c, e') /\ loc[p] = "asleep" THEN "woken" ELSE loc[p]]
  /\ UNCHANGED r

consoleintr(c) ==
  /\ consLock = Noone /\ keys < MaxKeys
  /\ \/ c = "^U" /\ Erase(Killed)
     \/ c = "^H" /\ e # w /\ Erase(1)
     \/ c \notin {"^P", "^U", "^H"} /\ Room /\ Insert(IF c = "\r" THEN "\n" ELSE c)
     \/ /\ c = "^P" \/ (c = "^H" /\ e = w) \/ (c \notin {"^P", "^U", "^H"} /\ ~Room)
        /\ UNCHANGED <<input, screen, loc>>
  /\ keys' = keys + 1
  /\ mixed' = (mixed /\ e' # w')
  /\ UNCHANGED <<consLock, left, target, marked, texts>>

-----------------------------------------------------------------------------
Move(p, to) == loc' = [loc EXCEPT ![p] = to]

(* consoleread: iunlock(ip), acquire(&cons.lock), *)
CallConsole(p, k) ==
  /\ loc[p] = "user" /\ ~marked[p] /\ consLock = Noone
  /\ consLock' = p /\ Move(p, "loop")
  /\ left' = [left EXCEPT ![p] = k] /\ target' = [target EXCEPT ![p] = k]
  /\ UNCHANGED <<input, screen, marked, keys, texts, mixed>>

(* acquire(&cons.lock) at the end of sleep, *)
WakeConsole(p) ==
  /\ loc[p] = "woken" /\ consLock = Noone
  /\ consLock' = p /\ Move(p, "loop")
  /\ UNCHANGED <<input, screen, left, target, marked, keys, texts, mixed>>

(* release(&cons.lock), ilock(ip) *)
Leave(p) ==
  /\ consLock' = Noone /\ Move(p, "user")
  /\ left' = [left EXCEPT ![p] = 0] /\ target' = [target EXCEPT ![p] = 0]

(* and a turn of its loop. *)
consoleread(p) ==
  /\ loc[p] = "loop"
  /\ \/ /\ left[p] = 0 \/ (r = w /\ marked[p])
        /\ Leave(p) /\ UNCHANGED r
     \/ /\ left[p] > 0 /\ r = w /\ ~marked[p]
        /\ Move(p, "sleep") /\ UNCHANGED <<r, left, target, consLock>>
     \/ /\ left[p] > 0 /\ r # w /\ At(r) = "^D"
        /\ r' = IF left[p] < target[p] THEN r ELSE Plus(r, 1)
        /\ Leave(p)
     \/ /\ left[p] > 0 /\ r # w /\ At(r) = "\n"
        /\ r' = Plus(r, 1)
        /\ Leave(p)
     \/ /\ left[p] > 0 /\ r # w /\ At(r) \notin {"^D", "\n"}
        /\ r' = Plus(r, 1)
        /\ left' = [left EXCEPT ![p] = @ - 1]
        /\ UNCHANGED <<consLock, loc, target>>
  /\ UNCHANGED <<buf, w, e, screen, marked, keys, texts, mixed>>

(* sleep(&input.r, &cons.lock) *)
SleepConsole(p) ==
  /\ loc[p] = "sleep"
  /\ consLock' = Noone /\ Move(p, "asleep")
  /\ UNCHANGED <<input, screen, left, target, marked, keys, texts, mixed>>

(* kill *)
KillReader(p) ==
  /\ p \in Killable /\ ~marked[p]
  /\ marked' = [marked EXCEPT ![p] = TRUE]
  /\ loc' = [loc EXCEPT ![p] = IF @ = "asleep" THEN "woken" ELSE @]
  /\ UNCHANGED <<input, screen, consLock, left, target, keys, texts, mixed>>

(* consolewrite by a process, or cprintf by the kernel. *)
consolewrite(text) ==
  /\ consLock = Noone /\ texts < MaxTexts
  /\ texts' = texts + 1
  /\ screen' = consputs(screen, text)
  /\ mixed' = (mixed \/ e # w)
  /\ UNCHANGED <<input, consLock, loc, left, target, marked, keys>>

ConsoleNext ==
  \/ \E c \in Keys : consoleintr(c)
  \/ \E p \in Reader :
       \/ WakeConsole(p) \/ consoleread(p) \/ SleepConsole(p) \/ KillReader(p)
       \/ \E k \in 0 .. MaxRead : CallConsole(p, k)
  \/ \E text \in Text : consolewrite(text)

ConsoleSpec == ConsoleInit /\ [][ConsoleNext]_consVars

-----------------------------------------------------------------------------
(* The characters from index i to index j. *)
Between(i, j) == [k \in 1 .. Minus(j, i) |-> At(Plus(i, k - 1))]

T == INSTANCE Terminal WITH
       Character <- Stored, LineEnd <- {"\n", "^D"}, Capacity <- INPUT_BUF,
       line <- Between(w, e), queue <- Between(r, w)

(* Whatever keys come in the middle of which reads, and across the wrap   *)
(* of the indices, the line buffer is an edited line and a queue: readers *)
(* together get every line once, in order, as it was when it was entered; *)
(* nothing that was entered is edited, and a full buffer loses the new    *)
(* character, never an old one.                                           *)
RefinesTerminal == T!Spec

(* No reader sleeps while there is something to read, although two of     *)
(* them may wait, one takes what the other was woken for, and the line    *)
(* buffer may fill up without a newline.                                  *)
ReadersWoken ==
  \A p \in Reader : loc[p] \in {"sleep", "asleep"} => r = w

(* The screen shows the line being edited right before the cursor, as     *)
(* reads will get it, across the ends of rows, scrolling, backspaces and  *)
(* ^U, unless something else was written since the line began; and the    *)
(* cursor is on the screen, so that cgaputc does not panic.               *)
EchoShown ==
  /\ ConsoleTypeOK
  /\ screen.pos \in 0 .. (ROWS - 1) * COLS - 1
  /\ ~mixed => \A k \in 1 .. Minus(e, w) : screen.pos >= k /\ screen.crt[screen.pos - k] = At(Minus(e, k))
=============================================================================
