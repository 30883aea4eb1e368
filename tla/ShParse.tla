------------------------------ MODULE ShParse -------------------------------
(***************************************************************************)
(* The parser of user/sh.c.  The line s is a sequence of characters; all   *)
(* white space is " " and every other character that is no symbol is a     *)
(* letter.  The C parsers move *ps over the line: here each one takes the  *)
(* position i and returns the command, the new position, and whether it    *)
(* has not called panic().  A word is kept as the parsers keep it, by its  *)
(* first position q and the position eq after its end.                     *)
(***************************************************************************)
EXTENDS Naturals, Sequences, SequencesExt

CONSTANTS Letters, MAXARGS

Symbols == {"<", "|", ">", "&", ";", "(", ")"}
Chars == Letters \cup Symbols \cup {" "}
NUL == "0"

EXEC(argv) == [type |-> "EXEC", argv |-> argv]
REDIR(c, f, m, d) == [type |-> "REDIR", cmd |-> c, file |-> f, mode |-> m, fd |-> d]
PIPE(l, r) == [type |-> "PIPE", left |-> l, right |-> r]
LIST(l, r) == [type |-> "LIST", left |-> l, right |-> r]
BACK(c) == [type |-> "BACK", cmd |-> c]

Got(c, i) == [ok |-> TRUE, cmd |-> c, at |-> i]
Panicked == [ok |-> FALSE]

\* panic() ends the parser; otherwise it goes on with the result r.
Bind(r, Rest(_)) == IF r.ok THEN Rest(r) ELSE Panicked

\* The first position from i on whose character is not in C; es is Len(s) + 1.
Skip(s, i, C) ==
  CHOOSE j \in i..(Len(s) + 1) :
    /\ j = Len(s) + 1 \/ s[j] \notin C
    /\ \A k \in i..(j - 1) : s[k] \in C

CharAt(s, i) == IF i <= Len(s) THEN s[i] ELSE NUL

\* The token at q, and the position after it.
Tok(s, q) == CASE CharAt(s, q) = ">" /\ CharAt(s, q + 1) = ">" -> "+"
               [] CharAt(s, q) \in Letters -> "a"
               [] OTHER -> CharAt(s, q)
TokEnd(s, q, tok) == CASE tok = NUL -> q
                       [] tok = "+" -> q + 2
                       [] tok = "a" -> Skip(s, q, Letters)
                       [] OTHER -> q + 1

\* gettoken(): what it returns, *q and *eq, and *ps after it.
Token(tok, q, eq, at) == [tok |-> tok, word |-> [q |-> q, eq |-> eq], at |-> at]
TokenOf(s, q, tok, eq) == Token(tok, q, eq, Skip(s, eq, {" "}))
TokenAt(s, q, tok) == TokenOf(s, q, tok, TokEnd(s, q, tok))
TokenFrom(s, q) == TokenAt(s, q, Tok(s, q))
GetToken(s, i) == TokenFrom(s, Skip(s, i, {" "}))
AfterToken(s, i) == GetToken(s, i).at

Peek(s, i, toks) == CharAt(s, Skip(s, i, {" "})) \in toks

\* The switch of parseredirs().
Redir(c, tok, f) ==
  CASE tok = "<" -> REDIR(c, f, "read", 0)
    [] tok = ">" -> REDIR(c, f, "trunc", 1)
    [] tok = "+" -> REDIR(c, f, "keep", 1)

RECURSIVE ParseLine(_, _), ParsePipe(_, _), ParseRedirs(_, _, _), ParseArgs(_, _, _, _)

\* Each redirection encloses the command so far; f is the token after the operator.
ParseRedir(c, s, tok, f) ==
  IF f.tok # "a" THEN Panicked ELSE ParseRedirs(Redir(c, tok, f.word), s, f.at)
ParseRedirs(c, s, i) ==
  IF ~Peek(s, i, {"<", ">"}) THEN Got(c, i)
  ELSE ParseRedir(c, s, GetToken(s, i).tok, GetToken(s, AfterToken(s, i)))

\* parseexec() keeps a pointer to the execcmd inside the redirections.
RECURSIVE AddArg(_, _)
AddArg(c, w) == IF c.type = "REDIR" THEN [c EXCEPT !.cmd = AddArg(@, w)]
                ELSE [c EXCEPT !.argv = Append(@, w)]

\* The loop of parseexec(); t is the next token.
ParseArg(c, argc, s, t) ==
  IF t.tok # "a" \/ argc + 1 >= MAXARGS THEN Panicked
  ELSE Bind(ParseRedirs(AddArg(c, t.word), s, t.at),
            LAMBDA r : ParseArgs(r.cmd, argc + 1, s, r.at))
ParseArgs(c, argc, s, i) ==
  IF Peek(s, i, {"|", ")", "&", ";", NUL}) THEN Got(c, i)
  ELSE ParseArg(c, argc, s, GetToken(s, i))

\* Mutant: redirections after the block are left over.
ParseBlockAlone(s, i) ==
  Bind(ParseLine(s, AfterToken(s, i)),
       LAMBDA r : IF Peek(s, r.at, {")"}) THEN Got(r.cmd, AfterToken(s, r.at)) ELSE Panicked)

ParseBlock(s, i) ==
  Bind(ParseLine(s, AfterToken(s, i)),
       LAMBDA r : IF Peek(s, r.at, {")"})
                  THEN ParseRedirs(r.cmd, s, AfterToken(s, r.at)) ELSE Panicked)

ParseExec(s, i) ==
  IF Peek(s, i, {"("}) THEN ParseBlock(s, i)
  ELSE Bind(ParseRedirs(EXEC(<<>>), s, i), LAMBDA r : ParseArgs(r.cmd, 0, s, r.at))

ParsePipe(s, i) ==
  Bind(ParseExec(s, i),
       LAMBDA l : IF ~Peek(s, l.at, {"|"}) THEN l
                  ELSE Bind(ParsePipe(s, AfterToken(s, l.at)),
                            LAMBDA r : Got(PIPE(l.cmd, r.cmd), r.at)))

RECURSIVE Backs(_, _, _)
Backs(c, s, i) == IF Peek(s, i, {"&"}) THEN Backs(BACK(c), s, AfterToken(s, i)) ELSE Got(c, i)

ParseList(l, s) ==
  IF ~Peek(s, l.at, {";"}) THEN l
  ELSE Bind(ParseLine(s, AfterToken(s, l.at)), LAMBDA r : Got(LIST(l.cmd, r.cmd), r.at))
ParseLine(s, i) == Bind(ParsePipe(s, i), LAMBDA p : ParseList(Backs(p.cmd, s, p.at), s))

\* The positions that nulterminate() overwrites.
RECURSIVE NulTerminate(_)
NulTerminate(c) ==
  CASE c.type = "EXEC" -> {c.argv[k].eq : k \in DOMAIN c.argv}
    [] c.type = "REDIR" -> NulTerminate(c.cmd) \cup {c.file.eq}
    [] c.type \in {"PIPE", "LIST"} -> NulTerminate(c.left) \cup NulTerminate(c.right)
    [] c.type = "BACK" -> NulTerminate(c.cmd)

\* The string that starts at w.q in the buffer b.
String(b, w) == SubSeq(b, w.q, Skip(b, w.q, Chars) - 1)

\* The command with its words as runcmd() reads them.
RECURSIVE Strings(_, _)
Strings(b, c) ==
  CASE c.type = "EXEC" -> EXEC([k \in DOMAIN c.argv |-> String(b, c.argv[k])])
    [] c.type = "REDIR" -> [c EXCEPT !.cmd = Strings(b, @), !.file = String(b, @)]
    [] c.type = "BACK" -> [c EXCEPT !.cmd = Strings(b, @)]
    [] OTHER -> [c EXCEPT !.left = Strings(b, @), !.right = Strings(b, @)]

\* parsecmd(); what is left over is an error.
Cut(s, ends) == [i \in 1..Len(s) |-> IF i \in ends THEN NUL ELSE s[i]]
ParseCmd(s) ==
  Bind(ParseLine(s, 1),
       LAMBDA r : IF Skip(s, r.at, {" "}) # Len(s) + 1 THEN Panicked
                  ELSE [ok |-> TRUE, cmd |-> Strings(Cut(s, NulTerminate(r.cmd)), r.cmd)])
-----------------------------------------------------------------------------
(* The grammar, by cutting the tokens of a line at its operators: ; binds    *)
(* weakest, then &, then |, and what is in parentheses is a unit.  A token   *)
(* is a sequence of characters.                                              *)

\* The places where a token of s starts: > > without white space is one.
Starts(s) ==
  {i \in 1..Len(s) :
     CASE s[i] = " " -> FALSE
       [] s[i] = ">" -> LET k == CHOOSE k \in 0..(i - 1) :
                                   /\ \A j \in (i - k)..(i - 1) : s[j] = ">"
                                   /\ k = i - 1 \/ s[i - k - 1] # ">"
                        IN k % 2 = 0
       [] s[i] \in Letters -> i = 1 \/ s[i - 1] \notin Letters
       [] OTHER -> TRUE}
Lexeme(s, i) ==
  CASE s[i] \in Letters -> SubSeq(s, i, Skip(s, i, Letters) - 1)
    [] s[i] = ">" /\ i < Len(s) /\ s[i + 1] = ">" -> <<">", ">">>
    [] OTHER -> <<s[i]>>
Lex(s) == FoldLeft(LAMBDA ts, i : IF i \in Starts(s) THEN Append(ts, Lexeme(s, i)) ELSE ts,
                   <<>>, [i \in 1..Len(s) |-> i])

Count(t, c, i) == Len(SelectSeq(SubSeq(t, 1, i), LAMBDA x : x = <<c>>))
Depth(t, i) == Count(t, "(", i) - Count(t, ")", i)
Balanced(t) == Depth(t, Len(t)) = 0 /\ \A i \in 1..Len(t) : Depth(t, i) >= 0

\* The places of operator c outside parentheses.
Cuts(t, c) == {i \in 1..Len(t) : t[i] = <<c>> /\ Depth(t, i) = 0}
Least(S) == CHOOSE i \in S : \A j \in S : i <= j
Before(t, i) == SubSeq(t, 1, i - 1)
After(t, i) == SubSeq(t, i + 1, Len(t))

IsWord(t, i) == i <= Len(t) /\ Head(t[i]) \in Letters
Redirs(t) == {i \in 1..Len(t) : Head(t[i]) \in {"<", ">"}}
Mode(t, i) == IF t[i] = <<">", ">">> THEN "+" ELSE Head(t[i])
Wrap(c, t) ==
  FoldLeft(LAMBDA x, i : IF i \in Redirs(t) THEN Redir(x, Mode(t, i), t[i + 1]) ELSE x,
           c, [i \in 1..Len(t) |-> i])

Ok(c) == [ok |-> TRUE, cmd |-> c]
Both(l, r, Op(_, _)) == Bind(l, LAMBDA x : Bind(r, LAMBDA y : Ok(Op(x.cmd, y.cmd))))

\* The words of t that are not files of redirections, if t has nothing else.
Files(t) == {i + 1 : i \in Redirs(t)}
Args(t) == FoldLeft(LAMBDA a, i : IF i \in Redirs(t) \cup Files(t) THEN a ELSE Append(a, t[i]),
                    <<>>, [i \in 1..Len(t) |-> i])
Flat(t) == /\ \A i \in 1..Len(t) : i \in Redirs(t) \/ IsWord(t, i)
           /\ \A i \in Files(t) : IsWord(t, i)

Simple(t) == IF Flat(t) /\ Len(Args(t)) < MAXARGS THEN Ok(Wrap(EXEC(Args(t)), t)) ELSE Panicked

RECURSIVE Command(_), Stage(_), Job(_)

\* A block whose parenthesis closes at i, and redirections.
Block(t, i) ==
  IF Flat(After(t, i)) /\ Args(After(t, i)) = <<>>
  THEN Bind(Command(SubSeq(t, 2, i - 1)), LAMBDA c : Ok(Wrap(c.cmd, After(t, i))))
  ELSE Panicked
Piece(t) == IF t # <<>> /\ Head(t) = <<"(">>
            THEN Block(t, Least({i \in 1..Len(t) : Depth(t, i) = 0})) ELSE Simple(t)

PipeAt(t, i) == Both(Piece(Before(t, i)), Stage(After(t, i)), PIPE)
Stage(t) == IF Cuts(t, "|") = {} THEN Piece(t) ELSE PipeAt(t, Least(Cuts(t, "|")))

Job(t) == IF t # <<>> /\ Last(t) = <<"&">>
          THEN Bind(Job(Front(t)), LAMBDA j : Ok(BACK(j.cmd))) ELSE Stage(t)

ListAt(t, i) == Both(Job(Before(t, i)), Command(After(t, i)), LIST)
Command(t) ==
  CASE ~Balanced(t) -> Panicked
    [] Balanced(t) /\ Cuts(t, ";") = {} -> Job(t)
    [] OTHER -> ListAt(t, Least(Cuts(t, ";")))
=============================================================================
