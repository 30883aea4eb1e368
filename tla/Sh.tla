--------------------------------- MODULE Sh ---------------------------------
(***************************************************************************)
(* The shell, user/sh.c: main() and runcmd() as processes that make system *)
(* calls.  The kernel is what sh.c expects of it: descriptor tables in     *)
(* which open(), dup() and pipe() take the lowest free entry, pipes that   *)
(* end when the last write end is closed, and fork(), exit() and wait()    *)
(* with orphans going to init.  Each system call is one step.              *)
(*                                                                         *)
(* A process is the list `todo' of the calls it has still to make; it      *)
(* exits at the end of the list.  The programs it can exec() write twice   *)
(* to descriptor 1, or copy descriptor 0 to descriptor 1 until the end of  *)
(* the input.                                                              *)
(***************************************************************************)
EXTENDS ShParse, FiniteSets

CONSTANTS ShProcs,      \* process table entries, the shell included
          Sh0,          \* the entry of the shell itself
          Lines,        \* bound: for each line read, the set it comes from
          NOFILE,       \* descriptors of a process
          SHPIPE,       \* units a pipe holds
          MAXFAULT      \* bound: calls of fork(), pipe() and open() that fail

ASSUME ShConstants == /\ ShProcs \subseteq Nat \ {0} /\ Sh0 \in ShProcs
                      /\ NOFILE \in Nat /\ NOFILE > 4
                      /\ SHPIPE \in Nat /\ SHPIPE > 0 /\ MAXFAULT \in Nat

VARIABLES
  proc,    \* per entry: state, parent, todo, descriptors and pipe p[2]; and,
           \* for the properties, the wiring the command asks for, whether a
           \* program runs, and whether it was started with &
  sent,    \* units in each pipe
  lines,   \* lines read
  faults   \* calls that failed

shVars == <<proc, sent, lines, faults>>

Fds == 0..(NOFILE - 1)
None == [kind |-> "none"]
Console == [kind |-> "console"]
Init1 == 0
NPIPES == Cardinality(ShProcs)
REnd(i) == [kind |-> "r", pipe |-> i]
WEnd(i) == [kind |-> "w", pipe |-> i]

Free == [st |-> "unused", parent |-> Init1, todo |-> <<>>, fd |-> [d \in Fds |-> None],
         p |-> <<0, 0>>, io |-> <<Console, Console>>, prog |-> FALSE, bg |-> FALSE, cwd |-> <<>>]

Call(op) == [op |-> op]
CloseFd(d) == [op |-> "close", fd |-> d]
CloseP(k) == [op |-> "closep", end |-> k]
DupP(k) == [op |-> "dup", end |-> k]
Open(f, d) == [op |-> "open", file |-> f, fd |-> d]
Fork(side, todo) == [op |-> "fork", side |-> side, todo |-> todo]

\* Mutant: dup() before the standard descriptor is free.
ChildDupFirst(k, std) == <<DupP(k), CloseFd(std), CloseP(1), CloseP(2)>>

\* The children of a pipe close a standard descriptor and copy an end to it.
Child(k, std) == <<CloseFd(std), DupP(k), CloseP(1), CloseP(2)>>

\* Mutant: the parent of a pipe waits for one child.
AfterForksOneWait == <<CloseP(1), CloseP(2), Call("wait")>>

\* Mutant: it keeps its write end.
AfterForksKeepEnd == <<CloseP(1), Call("wait"), Call("wait")>>

\* What the parent of a pipe does after its two forks.
AfterForks == <<CloseP(1), CloseP(2), Call("wait"), Call("wait")>>

\* runcmd()
RECURSIVE RunCmd(_)
RunCmd(c) ==
  CASE c.type = "EXEC" -> IF c.argv = <<>> THEN <<>> ELSE <<[op |-> "exec", argv |-> c.argv]>>
    [] c.type = "REDIR" -> <<CloseFd(c.fd), Open(c.file, c.fd)>> \o RunCmd(c.cmd)
    [] c.type = "LIST" -> <<Fork("", RunCmd(c.left)), Call("wait")>> \o RunCmd(c.right)
    [] c.type = "PIPE" ->
         <<Call("pipe"), Fork("left", Child(2, 1) \o RunCmd(c.left)),
           Fork("right", Child(1, 0) \o RunCmd(c.right))>> \o AfterForks
    [] c.type = "BACK" -> <<Fork("back", RunCmd(c.cmd))>>

\* The child of main(); a line that does not parse exits.
RunLine(l) == LET r == ParseCmd(l) IN IF r.ok THEN RunCmd(r.cmd) ELSE <<>>

\* The programs, by the first letter of their names.
Program(argv) == CASE argv[1][1] = "s" -> <<Call("write"), Call("write")>>
                   [] argv[1][1] = "c" -> <<Call("copy")>>
Exists(argv) == argv[1][1] \in {"s", "c"}

ShInit ==
  /\ \E closed \in SUBSET (0..2) :
       proc = [x \in ShProcs |->
                 IF x = Sh0
                 THEN [Free EXCEPT !.st = "run", !.todo = <<Call("console")>>,
                         !.fd = [d \in Fds |-> IF d \in (0..2) \ closed THEN Console ELSE None]]
                 ELSE Free]
  /\ sent = [i \in 1..NPIPES |-> 0]
  /\ lines = 0 /\ faults = 0

Live(x) == proc[x].st = "run"
Op(x) == Head(proc[x].todo)
Calling(x, op) == Live(x) /\ proc[x].todo # <<>> /\ Op(x).op = op
Kids(x) == {y \in ShProcs : proc[y].st # "unused" /\ proc[y].parent = x}
Holders(e) == {x \in ShProcs : Live(x) /\ \E d \in Fds : proc[x].fd[d] = e}
LowFd(x) == CHOOSE d \in Fds : proc[x].fd[d] = None /\ \A e \in Fds : e < d => proc[x].fd[e] # None

Next1(x) == Tail(proc[x].todo)

\* exit(): the descriptors close, the children go to init, which reaps.
Exited(x) ==
  [y \in ShProcs |->
     CASE y = x -> IF proc[x].parent = Init1 THEN Free
                   ELSE [Free EXCEPT !.st = "zombie", !.parent = proc[x].parent]
       [] y # x /\ y \in Kids(x) ->
            IF Live(y) THEN [proc[y] EXCEPT !.parent = Init1] ELSE Free
       [] OTHER -> proc[y]]
-----------------------------------------------------------------------------
\* main(): open the console until three descriptors are in use.
OpenConsole(x) ==
  /\ Calling(x, "console")
  /\ LET d == LowFd(x) IN
     proc' = IF d >= 3 THEN [proc EXCEPT ![x].todo = <<Call("getcmd")>>]
             ELSE [proc EXCEPT ![x].fd[d] = Console]
  /\ UNCHANGED <<sent, lines, faults>>

IsCd(l) == Len(l) > 2 /\ SubSeq(l, 1, 3) = <<"c", "d", " ">>

\* getcmd() and the body of the loop: cd is done here, the rest in a child.
GetCmd(x, l) ==
  /\ Calling(x, "getcmd")
  /\ lines < Len(Lines) /\ l \in Lines[lines + 1]
  /\ lines' = lines + 1
  /\ proc' = IF IsCd(l) THEN [proc EXCEPT ![x].cwd = SubSeq(l, 4, Len(l))]
             ELSE [proc EXCEPT ![x].todo =
                     <<Fork("", RunLine(l)), Call("wait"), Call("getcmd")>>]
  /\ UNCHANGED <<sent, faults>>

\* getcmd() at the end of the input.
GetEof(x) ==
  /\ Calling(x, "getcmd")
  /\ proc' = Exited(x)
  /\ UNCHANGED <<sent, lines, faults>>

\* What the command asks for of a child forked for one side of a pipe.
Wired(io, side, i) ==
  CASE side = "left" -> [io EXCEPT ![2] = WEnd(i)]
    [] side = "right" -> [io EXCEPT ![1] = REnd(i)]
    [] OTHER -> io

\* fork(); the table entry taken makes no difference.
DoFork(x) ==
  /\ Calling(x, "fork")
  /\ \E y \in ShProcs \ {Sh0} : proc[y].st = "unused"
  /\ LET y == CHOOSE z \in ShProcs \ {Sh0} : proc[z].st = "unused" IN
     proc' = [proc EXCEPT
       ![x].todo = Next1(x),
       ![y] = [proc[x] EXCEPT !.parent = x, !.todo = Op(x).todo,
                 !.bg = @ \/ Op(x).side = "back",
                 !.io = IF Op(x).side \in {"left", "right"}
                        THEN Wired(@, Op(x).side, proc[x].fd[proc[x].p[1]].pipe) ELSE @]]
  /\ UNCHANGED <<sent, lines, faults>>

DoPipe(x) ==
  /\ Calling(x, "pipe")
  /\ LET i == CHOOSE i \in 1..NPIPES : Holders(REnd(i)) \cup Holders(WEnd(i)) = {}
         r == LowFd(x)
         w == CHOOSE d \in Fds : /\ d > r /\ proc[x].fd[d] = None
                                 /\ \A e \in (r + 1)..(d - 1) : proc[x].fd[e] # None
     IN  /\ proc' = [proc EXCEPT ![x].todo = Next1(x), ![x].p = <<r, w>>,
                                 ![x].fd[r] = REnd(i), ![x].fd[w] = WEnd(i)]
         /\ sent' = [sent EXCEPT ![i] = 0]
  /\ UNCHANGED <<lines, faults>>

DoOpen(x) ==
  /\ Calling(x, "open")
  /\ LET f == [kind |-> "file", file |-> Op(x).file] IN
     proc' = [proc EXCEPT ![x].todo = Next1(x), ![x].fd[LowFd(x)] = f,
                          ![x].io[Op(x).fd + 1] = f]
  /\ UNCHANGED <<sent, lines, faults>>

\* fork1() and pipe() failing are a panic(), and open() failing exits as well.
Fails(x) ==
  /\ Calling(x, "fork") \/ Calling(x, "pipe") \/ Calling(x, "open")
  /\ faults < MAXFAULT /\ faults' = faults + 1
  /\ proc' = Exited(x)
  /\ UNCHANGED <<sent, lines>>

DoClose(x) ==
  /\ Calling(x, "close") \/ Calling(x, "closep")
  /\ LET d == IF Op(x).op = "close" THEN Op(x).fd ELSE proc[x].p[Op(x).end] IN
     proc' = [proc EXCEPT ![x].todo = Next1(x), ![x].fd[d] = None]
  /\ UNCHANGED <<sent, lines, faults>>

DoDup(x) ==
  /\ Calling(x, "dup")
  /\ proc' = [proc EXCEPT ![x].todo = Next1(x),
                          ![x].fd[LowFd(x)] = proc[x].fd[proc[x].p[Op(x).end]]]
  /\ UNCHANGED <<sent, lines, faults>>

\* wait(0) reaps one child, or returns at once without children.
DoWait(x) ==
  /\ Calling(x, "wait")
  /\ \E y \in IF Kids(x) = {} THEN {x} ELSE {z \in Kids(x) : proc[z].st = "zombie"} :
       proc' = [proc EXCEPT ![y] = IF y = x THEN @ ELSE Free, ![x].todo = Next1(x)]
  /\ UNCHANGED <<sent, lines, faults>>

\* exec() returns only when it fails.
DoExec(x) ==
  /\ Calling(x, "exec")
  /\ proc' = IF Exists(Op(x).argv)
             THEN [proc EXCEPT ![x].todo = Program(Op(x).argv), ![x].prog = TRUE]
             ELSE Exited(x)
  /\ UNCHANGED <<sent, lines, faults>>

DoExit(x) ==
  /\ Live(x) /\ proc[x].todo = <<>>
  /\ proc' = Exited(x)
  /\ UNCHANGED <<sent, lines, faults>>

\* init starts another shell when its shell has exited.
InitFork ==
  /\ proc[Sh0].st = "unused"
  /\ lines < Len(Lines)
  /\ proc' = [proc EXCEPT ![Sh0] = [Free EXCEPT !.st = "run", !.todo = <<Call("console")>>,
                                      !.fd = [d \in Fds |-> IF d < 3 THEN Console ELSE None]]]
  /\ UNCHANGED <<sent, lines, faults>>
-----------------------------------------------------------------------------
(* Programs. *)

Blocked(x) ==
  LET in == proc[x].fd[0]
      out == proc[x].fd[1]
  IN  \/ Calling(x, "wait") /\ Kids(x) # {} /\ \A y \in Kids(x) : Live(y)
      \/ Calling(x, "fork") /\ faults = MAXFAULT /\ \A y \in ShProcs \ {Sh0} : proc[y].st # "unused"
      \/ Calling(x, "copy") /\ in.kind = "r" /\ sent[in.pipe] = 0 /\ Holders(WEnd(in.pipe)) # {}
      \/ Calling(x, "write") /\ out.kind = "w" /\ sent[out.pipe] = SHPIPE /\ Holders(REnd(out.pipe)) # {}

\* A write to a pipe that nobody reads fails, and the program exits.
Write(x) ==
  /\ Calling(x, "write") /\ ~Blocked(x)
  /\ LET out == proc[x].fd[1] IN
     IF out.kind = "w" /\ Holders(REnd(out.pipe)) = {}
     THEN proc' = Exited(x) /\ UNCHANGED sent
     ELSE /\ proc' = [proc EXCEPT ![x].todo = Next1(x)]
          /\ sent' = IF out.kind = "w" THEN [sent EXCEPT ![out.pipe] = @ + 1] ELSE sent
  /\ UNCHANGED <<lines, faults>>

\* Copy one unit, or exit at the end of the input.
Copy(x) ==
  /\ Calling(x, "copy") /\ ~Blocked(x)
  /\ LET in == proc[x].fd[0] IN
     IF in.kind = "r" /\ sent[in.pipe] > 0
     THEN /\ sent' = [sent EXCEPT ![in.pipe] = @ - 1]
          /\ proc' = [proc EXCEPT ![x].todo = <<Call("write")>> \o @]
     ELSE proc' = Exited(x) /\ UNCHANGED sent
  /\ UNCHANGED <<lines, faults>>

ShStep(x) ==
  \/ OpenConsole(x)
  \/ \E l \in UNION {Lines[i] : i \in DOMAIN Lines} : GetCmd(x, l)
  \/ GetEof(x) \/ DoFork(x) \/ DoPipe(x) \/ DoOpen(x) \/ Fails(x) \/ DoClose(x)
  \/ DoDup(x) \/ DoWait(x) \/ DoExec(x) \/ DoExit(x) \/ Write(x) \/ Copy(x)

ShNext == InitFork \/ \E x \in ShProcs : ShStep(x)
-----------------------------------------------------------------------------
\* A program starts with the descriptors its command asks for and no others:
\* 0 and 1 are the pipe end or the file of the innermost redirection around it,
\* 2 is the console, and no end of any pipe is open besides (runcmd()'s
\* sequences of close(), dup() and open()).
WiredAsWritten ==
  \A x \in ShProcs :
    Live(x) /\ proc[x].prog =>
      proc[x].fd = [d \in Fds |-> CASE d < 2 -> proc[x].io[d + 1]
                                     [] d = 2 -> Console
                                     [] OTHER -> None]

\* When the shell prompts, everything it has started in the foreground has
\* exited, unless a call failed on the way (the wait() calls of main() and of
\* runcmd(), two for a pipe).
PromptAfterForeground ==
  faults = 0 /\ Calling(Sh0, "getcmd") =>
    \A x \in ShProcs \ {Sh0} : Live(x) => proc[x].bg

\* Commands never wait for each other in a circle: as long as a process other
\* than a prompting shell exists, one of them can go on.  A reader that waits
\* for the end of its input does so only while a writer still runs (the close()
\* of both ends in the parent and in both children).
NoCommandStuck ==
  LET busy == {x \in ShProcs : Live(x) /\ ~Calling(x, "getcmd")} IN
  busy # {} => \E x \in busy : ~Blocked(x)
=============================================================================
