-------------------------------- MODULE Shell --------------------------------
(***************************************************************************)
(* The shell, sh.c: its parser, and the processes and descriptors of       *)
(* runcmd().  A line is a sequence of tokens, "w" for any word; a word is  *)
(* named by its place in the line.  The kernel's part (fork(), wait(),     *)
(* pipe(), dup(), ...) is what the shell relies on: Proc and Pipe have the *)
(* details.  Not modelled: cd, which changes only the shell's directory.   *)
(***************************************************************************)
EXTENDS Naturals, Sequences, FiniteSets, SequencesExt

CONSTANTS
  MAXARGS,
  NOFILE,     \* descriptors of a process
  MaxProcs,   \* processes that fork() has room for
  Lines,      \* bound: the lines that are run
  MaxLine,    \* bound: tokens of the lines that are parsed
  None

\* ">>" is read as another token, and does what ">" does.
Token == {"w", "|", "&", ";", "<", ">", "(", ")"}
Pid == 1 .. MaxProcs
sh == 1
Fd == 0 .. NOFILE - 1

VARIABLES
  line,
  procs       \* of each process: cmd, where it is, fds, p[2], its parent,
              \* and what its standard input and output should be

vars == <<line, procs>>

-----------------------------------------------------------------------------
(* The parser.  A result has the command and the place of the next token,   *)
(* which is 0 after panic().                                                *)

execcmd(argv) == <<"EXEC", argv>>
redircmd(cmd, file, fd) == <<"REDIR", cmd, file, fd>>
pipecmd(left, right) == <<"PIPE", left, right>>
listcmd(left, right) == <<"LIST", left, right>>
backcmd(cmd) == <<"BACK", cmd>>

Panic == [cmd |-> None, ps |-> 0]
peek(ps) == IF ps <= Len(line) THEN line[ps] ELSE "end"

\* The redirections from ps on, as files and descriptors; the last is outermost.
RECURSIVE parseredirs(_, _)
parseredirs(ps, rs) ==
  IF peek(ps) \notin {"<", ">"} THEN [rs |-> rs, ps |-> ps]
  ELSE IF peek(ps + 1) # "w" THEN [rs |-> rs, ps |-> 0]
  ELSE parseredirs(ps + 2, Append(rs, <<ps + 1, IF peek(ps) = "<" THEN 0 ELSE 1>>))
Redirected(cmd, x) ==
  IF x.ps = 0 THEN Panic
  ELSE [cmd |-> FoldLeft(LAMBDA c, r : redircmd(c, r[1], r[2]), cmd, x.rs), ps |-> x.ps]

RECURSIVE ArgLoop(_, _)
ArgLoop(x, argv) ==
  IF x.ps = 0 THEN Panic
  ELSE IF peek(x.ps) \in {"|", ")", "&", ";", "end"} THEN Redirected(execcmd(argv), x)
  ELSE IF peek(x.ps) # "w" \/ Len(argv) + 1 >= MAXARGS THEN Panic
  ELSE ArgLoop(parseredirs(x.ps + 1, x.rs), Append(argv, x.ps))

RECURSIVE parseline(_)

BlockClosed(r) ==
  IF r.ps = 0 \/ peek(r.ps) # ")" THEN Panic
  ELSE Redirected(r.cmd, parseredirs(r.ps + 1, <<>>))
parseblock(ps) == BlockClosed(parseline(ps + 1))

parseexec(ps) ==
  IF peek(ps) = "(" THEN parseblock(ps) ELSE ArgLoop(parseredirs(ps, <<>>), <<>>)

RECURSIVE parsepipe(_)
PipedTo(left, r) == IF r.ps = 0 THEN Panic ELSE [r EXCEPT !.cmd = pipecmd(left, @)]
Piped(r) ==
  IF r.ps # 0 /\ peek(r.ps) = "|" THEN PipedTo(r.cmd, parsepipe(r.ps + 1)) ELSE r
parsepipe(ps) == Piped(parseexec(ps))

RECURSIVE Backed(_)
Backed(r) ==
  IF r.ps # 0 /\ peek(r.ps) = "&" THEN Backed([cmd |-> backcmd(r.cmd), ps |-> r.ps + 1]) ELSE r
ListedWith(left, r) == IF r.ps = 0 THEN Panic ELSE [r EXCEPT !.cmd = listcmd(left, @)]
Listed(r) ==
  IF r.ps # 0 /\ peek(r.ps) = ";" THEN ListedWith(r.cmd, parseline(r.ps + 1)) ELSE r
parseline(ps) == Listed(Backed(parsepipe(ps)))

\* None: panic(), here also for what is left over.
parsecmd ==
  LET All(r) == IF r.ps = Len(line) + 1 THEN r.cmd ELSE None IN All(parseline(1))

-----------------------------------------------------------------------------
(* Descriptors *)

Console == <<"console">>
Closed == <<>>
Lowest(fds) == CHOOSE d \in Fd : fds[d] = Closed /\ \A e \in Fd : e < d => fds[e] # Closed
Full(fds) == \A d \in Fd : fds[d] # Closed
close(fds, d) == [fds EXCEPT ![d] = Closed]
open(fds, f) == [fds EXCEPT ![Lowest(fds)] = f]
dup(fds, d) == open(fds, fds[d])

Live == {p \in Pid : procs[p].at \notin {"none", "zombie"}}
Kids(p) == {q \in Pid : procs[q].at # "none" /\ procs[q].parent = p}
Holders(f) == {p \in Live : \E d \in Fd : procs[p].fds[d] = f}

\* Two descriptors, of a pipe that nobody has.
FreePipe == CHOOSE k \in 1 .. MaxProcs : Holders(<<"read", k>>) \cup Holders(<<"write", k>>) = {}
WithPipe(fds) ==
  LET one == open(fds, <<"read", FreePipe>>) IN open(one, <<"write", FreePipe>>)

NoProc == [at |-> "none", cmd |-> None, fds |-> [d \in Fd |-> Closed], p |-> <<0, 0>>,
           parent |-> 0, want |-> <<Console, Console>>]

\* sh is started with some of its descriptors open.
Init ==
  /\ line = <<>>
  /\ \E S \in SUBSET {0, 1, 2} :
       procs = [q \in Pid |-> IF q # sh THEN NoProc
                  ELSE [NoProc EXCEPT !.at = "main",
                                      !.fds = [d \in Fd |-> IF d \in S THEN Console ELSE Closed]]]

-----------------------------------------------------------------------------
(* Steps of a process *)

Set(p, r) == procs' = [procs EXCEPT ![p] = r]
Go(p, at) == Set(p, [procs[p] EXCEPT !.at = at])
At(p, at) == procs[p].at = at
Runs(p, type) == At(p, "run") /\ procs[p].cmd[1] = type

\* exit(): descriptors are closed; children go to init, which waits for them.
exit(p) ==
  procs' = [q \in Pid |->
    IF q = p THEN IF procs[p].parent = 0 THEN NoProc
                  ELSE [NoProc EXCEPT !.at = "zombie", !.parent = procs[p].parent]
    ELSE IF q \in Kids(p) THEN IF procs[q].at = "zombie" THEN NoProc
                               ELSE [procs[q] EXCEPT !.parent = 0]
    ELSE procs[q]]

\* fork1(): the child is child, the parent goes on at; or panic().
fork1(p, child, at) ==
  \/ \E q \in Pid :
       /\ procs[q].at = "none" /\ \A r \in Pid : procs[r].at = "none" => q <= r
       /\ procs' = [procs EXCEPT ![p].at = at, ![q] = [child EXCEPT !.parent = p]]
  \/ exit(p)

\* wait(): any child will do; there is one (ShellRuns).
wait(p, next) ==
  \E q \in Kids(p) :
    procs[q].at = "zombie" /\ procs' = [procs EXCEPT ![p] = next, ![q] = NoProc]

\* main(): the console, which is there, is opened until three descriptors are.
Main ==
  /\ At(sh, "main")
  /\ Set(sh, [procs[sh] EXCEPT !.at = "getcmd",
                !.fds = [d \in Fd |-> IF d \in 0 .. 2 THEN Console ELSE @[d]]])
  /\ UNCHANGED line

\* getcmd(): a token is typed.  Bound: after MaxLine only those of Lines; and
\* the next line is typed when nothing runs in the background.
Type ==
  /\ At(sh, "getcmd") /\ Live = {sh}
  /\ \E t \in Token :
       /\ \/ Len(line) < MaxLine
          \/ \E l \in Lines : Len(line) < Len(l) /\ SubSeq(l, 1, Len(line) + 1) = Append(line, t)
       /\ line' = Append(line, t)
  /\ UNCHANGED procs

\* The input ends, or a line is run by a child.
RunLine ==
  /\ At(sh, "getcmd") /\ line \in Lines
  /\ \/ exit(sh)
     \/ LET c == [procs[sh] EXCEPT !.at = IF parsecmd = None THEN "exit" ELSE "run",
                                   !.cmd = parsecmd]
        IN fork1(sh, c, "main_wait")
  /\ UNCHANGED line
MainWait ==
  /\ At(sh, "main_wait") /\ wait(sh, [procs[sh] EXCEPT !.at = "getcmd"])
  /\ line' = <<>>

\* A program reads its input to the end, and exits.
Exec(p) ==
  /\ Runs(p, "EXEC")
  /\ \/ procs[p].cmd[2] # <<>> /\ Go(p, "program")
     \/ exit(p)
AtEnd(p) ==
  LET f == procs[p].fds[0] IN Len(f) = 2 /\ f[1] = "read" => Holders(<<"write", f[2]>>) = {}
RunProgram(p) == At(p, "program") /\ AtEnd(p) /\ exit(p)

Redir(p) ==
  LET x == procs[p]
      f == <<"file", x.cmd[3]>>
  IN /\ Runs(p, "REDIR")
     /\ \/ Set(p, [x EXCEPT !.cmd = x.cmd[2], !.fds = open(close(@, x.cmd[4]), f),
                            !.want[x.cmd[4] + 1] = f])
        \/ exit(p)

List(p) ==
  /\ Runs(p, "LIST")
  /\ fork1(p, [procs[p] EXCEPT !.cmd = @[2]], "list_wait")
ListWait(p) ==
  At(p, "list_wait") /\ wait(p, [procs[p] EXCEPT !.at = "run", !.cmd = @[3]])

Back(p) == Runs(p, "BACK") /\ fork1(p, [procs[p] EXCEPT !.cmd = @[2]], "exit")

\* PIPE: pipe(), two children, both ends closed, two wait()s.
MakePipe(p) ==
  LET x == procs[p]
      fds == WithPipe(x.fds)
      End(w) == CHOOSE d \in Fd : x.fds[d] = Closed /\ fds[d] = <<w, FreePipe>>
  IN /\ Runs(p, "PIPE")
     /\ \/ /\ Cardinality({d \in Fd : x.fds[d] = Closed}) >= 2
           /\ Set(p, [x EXCEPT !.at = "left", !.fds = fds, !.p = <<End("read"), End("write")>>])
        \/ exit(p)
ForkLeft(p) == At(p, "left") /\ fork1(p, [procs[p] EXCEPT !.at = "writer"], "right")
ForkRight(p) == At(p, "right") /\ fork1(p, [procs[p] EXCEPT !.at = "reader"], "close")

\* close(p[0]); close(p[1]);
ClosePipe(x) == [x EXCEPT !.fds = close(close(@, x.p[1]), x.p[2])]
Writer(p) ==
  LET x == procs[p] IN
  /\ At(p, "writer")
  /\ Set(p, [ClosePipe([x EXCEPT !.fds = dup(close(@, 1), x.p[2])]) EXCEPT
               !.at = "run", !.cmd = @[2], !.want[2] = x.fds[x.p[2]]])
Reader(p) ==
  LET x == procs[p] IN
  /\ At(p, "reader")
  /\ Set(p, [ClosePipe([x EXCEPT !.fds = dup(close(@, 0), x.p[1])]) EXCEPT
               !.at = "run", !.cmd = @[3], !.want[1] = x.fds[x.p[1]]])

\* Mutant: the shell keeps the write end.
BugParentCloses(x) == [x EXCEPT !.fds = close(@, x.p[1])]
ParentCloses(x) == ClosePipe(x)
PipeClose(p) == At(p, "close") /\ Set(p, [ParentCloses(procs[p]) EXCEPT !.at = "wait1"])
PipeWait(p) ==
  \/ At(p, "wait1") /\ wait(p, [procs[p] EXCEPT !.at = "wait2"])
  \/ At(p, "wait2") /\ wait(p, [procs[p] EXCEPT !.at = "exit"])
Exit(p) == At(p, "exit") /\ exit(p)

runcmd(p) ==
  /\ \/ Exec(p) \/ RunProgram(p) \/ Redir(p) \/ List(p) \/ ListWait(p) \/ Back(p)
     \/ MakePipe(p) \/ ForkLeft(p) \/ ForkRight(p) \/ Writer(p) \/ Reader(p)
     \/ PipeClose(p) \/ PipeWait(p) \/ Exit(p)
  /\ UNCHANGED line

Next == Main \/ Type \/ RunLine \/ MainWait \/ \E p \in Pid : runcmd(p)

-----------------------------------------------------------------------------
(* Properties *)

\* The grammar from the outside in: a list is cut at its first ";", then come
\* the "&" at the end, then the first "|"; brackets hide what is in them.
Count(i, j, t) == Cardinality({k \in i .. j : line[k] = t})
Balanced(i, j) == Count(i, j, "(") = Count(i, j, ")")
Cuts(i, j, t) == {k \in i .. j : line[k] = t /\ Balanced(i, k - 1)}
First(S) == CHOOSE k \in S : \A l \in S : k <= l
Both(type, l, r) == IF None \in {l, r} THEN None ELSE <<type, l, r>>

Arrows(i, j) == SelectSeq([k \in 1 .. j - i + 1 |-> i + k - 1],
                          LAMBDA k : line[k] \in {"<", ">"})
Words(i, j) == SelectSeq([k \in 1 .. j - i + 1 |-> i + k - 1],
                         LAMBDA k : line[k] = "w" /\ (k = i \/ line[k - 1] = "w"))
Arrowed(cmd, i, j) ==
  IF cmd = None \/ \E k \in i .. j : \/ line[k] \notin {"<", ">", "w"}
                                     \/ line[k] # "w" /\ (k = j \/ line[k + 1] # "w")
  THEN None
  ELSE FoldLeft(LAMBDA c, k : redircmd(c, k + 1, IF line[k] = "<" THEN 0 ELSE 1),
                cmd, Arrows(i, j))

RECURSIVE Meaning(_, _)
Simple(i, j) ==
  LET Ends == {k \in i .. j : Balanced(i, k)} IN
  IF i <= j /\ line[i] = "("
  THEN IF Ends = {} THEN None
       ELSE IF Words(First(Ends) + 1, j) # <<>> THEN None
       ELSE Arrowed(Meaning(i + 1, First(Ends) - 1), First(Ends) + 1, j)
  ELSE IF Len(Words(i, j)) >= MAXARGS THEN None
  ELSE Arrowed(execcmd(Words(i, j)), i, j)
RECURSIVE Pipeline(_, _)
Pipeline(i, j) ==
  LET S == Cuts(i, j, "|") IN
  IF S = {} THEN Simple(i, j)
  ELSE Both("PIPE", Simple(i, First(S) - 1), Pipeline(First(S) + 1, j))
RECURSIVE Background(_, _)
Background(i, j) ==
  LET B(c) == IF c = None THEN None ELSE backcmd(c) IN
  IF i <= j /\ line[j] = "&" THEN B(Background(i, j - 1)) ELSE Pipeline(i, j)
Meaning(i, j) ==
  LET S == Cuts(i, j, ";") IN
  IF S = {} THEN Background(i, j)
  ELSE Both("LIST", Background(i, First(S) - 1), Meaning(First(S) + 1, j))

\* Who waits for a child that runs, or for the end of a pipe that is open.
Waits(p) == procs[p].at \in {"main_wait", "list_wait", "wait1", "wait2"}
Blocked(p) ==
  \/ Waits(p) /\ \A q \in Kids(p) : procs[q].at # "zombie"
  \/ At(p, "program") /\ ~AtEnd(p)

\* The recursive descent finds the command that the grammar gives, and panics
\* if there is none.  A program has exactly the input and output that its place
\* in the line gives it, whatever lowest descriptors close(), dup() and open()
\* found, and no other: so each pipe ends, and a line never hangs although
\* fork(), pipe() and open() may fail at any point.  Who starts a command has
\* no other child, so that wait() waits for it, and who waits has a child.
ShellRuns ==
  /\ parsecmd = Meaning(1, Len(line))
  /\ \A p \in Pid : At(p, "program") =>
       procs[p].fds = [d \in Fd |-> IF d < 2 THEN procs[p].want[d + 1]
                                    ELSE IF d = 2 THEN Console ELSE Closed]
  /\ \A p \in Pid : (At(p, "run") => Kids(p) = {}) /\ (Waits(p) => Kids(p) # {})
  /\ Live # {} => \E p \in Live : ~Blocked(p)
=============================================================================
