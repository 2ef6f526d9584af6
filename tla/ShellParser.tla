---------------------------- MODULE ShellParser -----------------------------
(***************************************************************************)
(* The parser of the shell (src/xv6/sh.c, parsecmd and what it calls).     *)
(*                                                                         *)
(* A line is a sequence of characters.  A pointer into it is an index, a   *)
(* word is where it starts, q, and where it ends, eq; the character behind *)
(* the last one is the NUL.  What the C functions pass back through ps is  *)
(* the second component of their result; one that panics returns Panic,    *)
(* and its callers with it.                                                *)
(***************************************************************************)
EXTENDS Integers, Sequences, SequencesExt

CONSTANT MAXARGS

whitespace == {" ", "\t", "\r", "\n", "VT"}
symbols == {"<", "|", ">", "&", ";", "(", ")"}
NUL == ""

CharAt(s, i) == IF i \in DOMAIN s THEN s[i] ELSE NUL

(* while(s < es && strchr(...)) s++, *)
Skip(s, i, set) == Min({j \in i .. Len(s) + 1 : CharAt(s, j) \notin set})

(* and the same over the characters of a word. *)
SkipWord(s, i) == Min({j \in i .. Len(s) + 1 : CharAt(s, j) \in whitespace \cup symbols \cup {NUL}})

(* The kind of the token at q, and where it ends. *)
tokAt(s, q) ==
  CASE CharAt(s, q) = ">" /\ CharAt(s, q + 1) = ">" -> "+"
    [] CharAt(s, q) \in symbols \cup {NUL} -> CharAt(s, q)
    [] OTHER -> "a"
endAt(s, q, tok) ==
  CASE tok = NUL -> q [] tok = "+" -> q + 2 [] tok \in symbols -> q + 1 [] OTHER -> SkipWord(s, q)

(* Mutation: the word ends behind the blanks that follow it. *)
token_LateEnd(s, q, eq) ==
  [tok |-> tokAt(s, q), q |-> q, eq |-> Skip(s, eq, whitespace), i |-> Skip(s, eq, whitespace)]

token(s, q, eq) == [tok |-> tokAt(s, q), q |-> q, eq |-> eq, i |-> Skip(s, eq, whitespace)]

TokenAt(s, q) == token(s, q, endAt(s, q, tokAt(s, q)))
gettoken(s, i) == TokenAt(s, Skip(s, i, whitespace))

peek(s, i, toks) == CharAt(s, Skip(s, i, whitespace)) \in toks

-----------------------------------------------------------------------------
(* The constructors; the words of a command keep both ends. *)
Word(t) == [q |-> t.q, eq |-> t.eq]
execcmd(argv) == [type |-> "EXEC", argv |-> argv]
redircmd(cmd, file, fd) == [type |-> "REDIR", cmd |-> cmd, file |-> file, fd |-> fd]
pipecmd(left, right) == [type |-> "PIPE", left |-> left, right |-> right]
listcmd(left, right) == [type |-> "LIST", left |-> left, right |-> right]
backcmd(cmd) == [type |-> "BACK", cmd |-> cmd]

Panic == <<[type |-> "panic"], 0>>

RECURSIVE parseline(_, _), parsepipe(_, _), parseredirs(_, _, _), parseargs(_, _, _), backs(_, _)

(* The redirections that follow, each around what came before it. *)
Redirect(cmd, s, fd, f) ==
  IF f.tok # "a" THEN Panic ELSE parseredirs(redircmd(cmd, Word(f), fd), s, f.i)
parseredir(cmd, s, t) == Redirect(cmd, s, IF t.tok = "<" THEN 0 ELSE 1, gettoken(s, t.i))
parseredirs(cmd, s, i) ==
  IF peek(s, i, {"<", ">"}) THEN parseredir(cmd, s, gettoken(s, i)) ELSE <<cmd, i>>

(* The loop of parseexec; r is the command and the pointer behind it.  The *)
(* redirections are collected around the placeholder "argv": the command   *)
(* they enclose still gets arguments.                                      *)
parsearg(argv, r, s, t) ==
  IF t.tok # "a" \/ Len(argv) + 1 >= MAXARGS THEN Panic
  ELSE parseargs(Append(argv, Word(t)), parseredirs(r[1], s, t.i), s)
parseargs(argv, r, s) ==
  CASE r = Panic -> Panic
    [] r # Panic /\ (peek(s, r[2], {"|", ")", "&", ";"}) \/ Skip(s, r[2], whitespace) > Len(s)) ->
         <<argv, r[1], r[2]>>
    [] OTHER -> parsearg(argv, r, s, gettoken(s, r[2]))

(* cmd->argv is filled in. *)
RECURSIVE Fill(_, _)
Fill(ret, argv) ==
  IF ret.type = "argv" THEN execcmd(argv) ELSE [ret EXCEPT !.cmd = Fill(@, argv)]
Filled(args) == IF args = Panic THEN Panic ELSE <<Fill(args[2], args[1]), args[3]>>

(* A block, when its body has been read. *)
CloseBlock(s, body) ==
  IF body = Panic \/ ~peek(s, body[2], {")"}) THEN Panic
  ELSE parseredirs(body[1], s, gettoken(s, body[2]).i)
parseblock(s, i) == CloseBlock(s, parseline(s, gettoken(s, i).i))

parseexec(s, i) ==
  IF peek(s, i, {"("}) THEN parseblock(s, i)
  ELSE Filled(parseargs(<<>>, parseredirs([type |-> "argv"], s, i), s))

(* Two commands, when the second has been read. *)
pipeWith(left, right) ==
  IF right = Panic THEN Panic ELSE <<pipecmd(left[1], right[1]), right[2]>>
listWith(left, right) ==
  IF right = Panic THEN Panic ELSE <<listcmd(left[1], right[1]), right[2]>>

(* What parsepipe does behind the first command. *)
pipeRest(s, left) ==
  IF left = Panic \/ ~peek(s, left[2], {"|"}) THEN left
  ELSE pipeWith(left, parsepipe(s, gettoken(s, left[2]).i))
parsepipe(s, i) == pipeRest(s, parseexec(s, i))

backs(s, r) ==
  IF r = Panic \/ ~peek(s, r[2], {"&"}) THEN r
  ELSE backs(s, <<backcmd(r[1]), gettoken(s, r[2]).i>>)

(* What parseline does behind the first pipeline. *)
lineRest(s, left) ==
  IF left = Panic \/ ~peek(s, left[2], {";"}) THEN left
  ELSE listWith(left, parseline(s, gettoken(s, left[2]).i))
parseline(s, i) == lineRest(s, backs(s, parsepipe(s, i)))

(* The characters that nulterminate overwrites with NUL. *)
RECURSIVE nulterminate(_)
nulterminate(cmd) ==
  CASE cmd.type = "EXEC" -> {cmd.argv[k].eq : k \in DOMAIN cmd.argv}
    [] cmd.type = "REDIR" -> nulterminate(cmd.cmd) \cup {cmd.file.eq}
    [] cmd.type \in {"PIPE", "LIST"} -> nulterminate(cmd.left) \cup nulterminate(cmd.right)
    [] cmd.type = "BACK" -> nulterminate(cmd.cmd)

(* The string at q in the line that nulterminate leaves. *)
StringAt(s, zeros, q) ==
  SubSeq(s, q, Min({j \in q .. Len(s) + 1 : j \in zeros \cup {Len(s) + 1}}) - 1)

(* The command with its words as the strings that exec and open will see. *)
RECURSIVE Resolve(_, _, _)
Resolve(cmd, s, zeros) ==
  CASE cmd.type = "EXEC" ->
         [cmd EXCEPT !.argv = [k \in DOMAIN @ |-> StringAt(s, zeros, @[k].q)]]
    [] cmd.type = "REDIR" ->
         [cmd EXCEPT !.file = StringAt(s, zeros, @.q), !.cmd = Resolve(@, s, zeros)]
    [] cmd.type \in {"PIPE", "LIST"} ->
         [cmd EXCEPT !.left = Resolve(@, s, zeros), !.right = Resolve(@, s, zeros)]
    [] cmd.type = "BACK" -> [cmd EXCEPT !.cmd = Resolve(@, s, zeros)]

(* The command of a line, or Panic[1] if it has none. *)
Whole(s, r) ==
  IF r = Panic \/ Skip(s, r[2], whitespace) # Len(s) + 1 THEN Panic[1]
  ELSE Resolve(r[1], s, nulterminate(r[1]))
parsecmd(s) == Whole(s, parseline(s, 1))

-----------------------------------------------------------------------------
(* The language of the shell, stated on its tokens instead: a line is cut *)
(* at its first ";", a part of it ends in any number of "&", what is left *)
(* is cut at its first "|", and a piece is a block or words with          *)
(* redirections, all outside of parentheses.                              *)

Symbols == symbols \cup {">>"}

(* Value(i) for the indices of s for which Test(i), in order. *)
Chosen(s, Test(_), Value(_)) ==
  FoldLeft(LAMBDA t, i : IF Test(i) THEN Append(t, Value(i)) ELSE t, <<>>, [i \in DOMAIN s |-> i])

(* Two ">" with nothing in between are one. *)
Doubled(s, k) ==
  /\ CharAt(s, k) = ">" /\ CharAt(s, k + 1) = ">"
  /\ (k - Max({j \in 0 .. k : CharAt(s, j) # ">"})) % 2 = 1
Joined(s) ==
  Chosen(s, LAMBDA k : ~Doubled(s, k - 1), LAMBDA k : IF Doubled(s, k) THEN ">>" ELSE s[k])

(* The tokens, as sequences of characters. *)
Starts(s, i) ==
  /\ s[i] \notin whitespace
  /\ s[i] \in Symbols \/ i = 1 \/ s[i - 1] \in whitespace \cup Symbols
Token(s, i) ==
  IF s[i] \in Symbols THEN <<s[i]>>
  ELSE SubSeq(s, i, Min({j \in i .. Len(s) + 1 : CharAt(s, j) \in whitespace \cup Symbols \cup {NUL}}) - 1)
Tokens(s) == Chosen(s, LAMBDA i : Starts(s, i), LAMBDA i : Token(s, i))

IsWord(t) == t[1] \notin Symbols
IsRedirection(t) == t \in {<<"<">>, <<">">>, <<">>">>}
Count(toks, k, t) == Cardinality({j \in 1 .. k : toks[j] = <<t>>})
Depth(toks, k) == Count(toks, k, "(") - Count(toks, k, ")")
Balanced(toks) ==
  Depth(toks, Len(toks)) = 0 /\ \A k \in DOMAIN toks : Depth(toks, k) >= 0
Outer(toks, t) == {k \in DOMAIN toks : toks[k] = <<t>> /\ Depth(toks, k) = 0}
Before(toks, k) == SubSeq(toks, 1, k - 1)
After(toks, k) == SubSeq(toks, k + 1, Len(toks))

Wrong == [type |-> "panic"]
Pair(type, l, r) ==
  IF Wrong \in {l, r} THEN Wrong ELSE [type |-> type, left |-> l, right |-> r]

(* Redirections around a command, the last one outermost. *)
RECURSIVE Redirected(_, _), Line(_), Part(_), Pipeline(_)
Redirected(cmd, toks) ==
  IF toks = <<>> \/ cmd = Wrong THEN cmd
  ELSE IF Len(toks) >= 2 /\ IsRedirection(toks[1]) /\ IsWord(toks[2])
    THEN Redirected(redircmd(cmd, toks[2], IF toks[1] = <<"<">> THEN 0 ELSE 1), After(toks, 2))
  ELSE Wrong

(* Which tokens of a piece name files. *)
Files(toks) == {k \in DOMAIN toks : k > 1 /\ IsRedirection(toks[k - 1])}
Piece(toks) ==
  LET close == Outer(toks, ")")
      redirs == {k \in DOMAIN toks : k \in Files(toks) \/ IsRedirection(toks[k])}
      Pick(set) == Chosen(toks, LAMBDA k : k \in set, LAMBDA k : toks[k])
      words == Pick(DOMAIN toks \ redirs)
  IN  IF toks # <<>> /\ toks[1] = <<"(">>
        THEN LET k == Min(close) IN Redirected(Line(SubSeq(toks, 2, k - 1)), After(toks, k))
      ELSE IF (\E k \in DOMAIN words : ~IsWord(words[k])) \/ Len(words) >= MAXARGS THEN Wrong
      ELSE Redirected([type |-> "EXEC", argv |-> words], Pick(redirs))

Pipeline(toks) ==
  LET bars == Outer(toks, "|")
  IN  IF bars = {} THEN Piece(toks)
      ELSE Pair("PIPE", Piece(Before(toks, Min(bars))), Pipeline(After(toks, Min(bars))))

Part(toks) ==
  IF toks # <<>> /\ Last(toks) = <<"&">>
    THEN LET cmd == Part(Front(toks)) IN IF cmd = Wrong THEN Wrong ELSE backcmd(cmd)
    ELSE Pipeline(toks)

Line(toks) ==
  LET ends == Outer(toks, ";")
  IN  IF ends = {} THEN Part(toks)
      ELSE Pair("LIST", Part(Before(toks, Min(ends))), Line(After(toks, Min(ends))))

Reference(s) ==
  LET toks == Tokens(Joined(s)) IN IF Balanced(toks) THEN Line(toks) ELSE Wrong
=============================================================================
