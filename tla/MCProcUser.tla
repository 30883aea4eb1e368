----------------------------- MODULE MCProcUser -----------------------------
(* Proc, the shell and its parser, and the heap of user programs, for TLC. *)
(* They share no state: `part' says which of them moves.                   *)
EXTENDS Proc, Sh, Umalloc, TLC

CONSTANT MAXLINE    \* bound: characters of a line that is parsed

VARIABLES part,
          line      \* the line in the buffer of getcmd()

mcVars == <<vars, shVars, heapVars, line, part>>

\* s writes, c copies, and there is no x.  After a line that may leave something
\* running in the background comes another one.
MCLines ==
  << { <<"s", "|", "c">>, <<"s", "|", "c", "|", "c">>, <<"(", "s", ";", "s", ")", "|", "c">>,
       <<"s", ">", "f", ";", "c", "<", "f">>, <<"s", ">", "f", "|", "c">>, <<"x", "|", "c">>,
       <<"s", "|", "c", ">", "f", "&">>, <<"s", "&", ";", "c">>, <<"s", ">">>, <<"c", "d", " ", "f">> },
     { <<"s">> } >>

\* Another character is typed.
Type(c) == Len(line) < MAXLINE /\ line' = Append(line, c)
Typed == {"c", " "} \cup Symbols

MCInit ==
  /\ part \in {"proc", "sh", "parse", "heap"}
  /\ Init /\ ShInit /\ HeapInit
  /\ part # "sh" => proc[Sh0].fd[0] = Console /\ proc[Sh0].fd[1] = Console /\ proc[Sh0].fd[2] = Console
  /\ line = <<>>

MCNext ==
  /\ part' = part
  /\ \/ part = "proc" /\ Next /\ UNCHANGED <<shVars, heapVars, line>>
     \/ part = "sh" /\ ShNext /\ UNCHANGED <<vars, heapVars, line>>
     \/ part = "parse" /\ (\E c \in Typed : Type(c)) /\ UNCHANGED <<vars, shVars, heapVars>>
     \/ part = "heap" /\ HeapNext /\ UNCHANGED <<vars, shVars, line>>
     \/ part \in {"sh", "parse", "heap"} /\ UNCHANGED <<vars, shVars, heapVars, line>>

MCSpec == MCInit /\ [][MCNext]_mcVars

\* parsecmd(): every line either parses to the command that the grammar gives it,
\* with each word read back whole after nulterminate() has cut the buffer up, or is
\* rejected by both.
ParsesAsGrammar == ParseCmd(line) = Command(Lex(line))

Symmetry == Permutations(CPUs)
=============================================================================
