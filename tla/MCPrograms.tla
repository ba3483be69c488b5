----------------------------- MODULE MCPrograms -----------------------------
(***************************************************************************)
(* What programs run in, in three machines side by side: the memory of two *)
(* processes, with pages of 16 bytes and six pages for the user; the       *)
(* allocator of one program; and the shell.  A behaviour is of one.        *)
(***************************************************************************)
EXTENDS Memory

CONSTANTS HEADER, MinCore, MaxHeap, Sizes,
          MAXARGS, NOFILE, MaxProcs, Lines, MaxLine, None

VARIABLES machine, hdr, freep, brk, live, failed, line, procs

H == INSTANCE Heap
S == INSTANCE Shell

heapVars  == <<hdr, freep, brk, live, failed>>
shellVars == <<line, procs>>

MCInit ==
  /\ machine \in {"memory", "heap", "shell"}
  /\ Init /\ H!Init /\ S!Init
  /\ machine # "shell" => \A d \in S!Fd : procs[S!sh].fds[d] = S!Closed

MCNext ==
  /\ UNCHANGED machine
  /\ \/ machine = "memory" /\ Next /\ UNCHANGED <<heapVars, shellVars>>
     \/ machine = "heap" /\ H!Next /\ UNCHANGED <<vars, shellVars>>
     \/ machine = "shell" /\ S!Next /\ UNCHANGED <<vars, heapVars>>

MCSpec == MCInit /\ [][MCNext]_<<machine, vars, heapVars, shellVars>>

\* Memory: a process has the pages below its size, and what the kernel accepts
\* as its memory is (UserMemory).
ProcessMemory == machine = "memory" => UserMemory

\* Heap: malloc() and free() neither lose nor mix up memory.
HeapSound == machine = "heap" => H!HeapSound

\* Shell: a line is parsed as the grammar says, and its programs get the
\* descriptors it gives them.
ShellRuns == machine = "shell" => S!ShellRuns

Ph(vaddr, memsz, filesz) ==
  [load |-> TRUE, short |-> FALSE, vaddr |-> vaddr, memsz |-> memsz, filesz |-> filesz]
Prog(ph, args) == [elf |-> TRUE, ph |-> ph, args |-> args]

\* Programs of one and of three segments, not in order; segments that do not
\* fit, are not aligned, wrap, or are longer than the file; not a program.
\* Arguments that just fit into the stack, that do not, that start among the
\* devices and below them, and too many.
Programs ==
  {[elf |-> FALSE, ph |-> <<>>, args |-> <<>>]} \cup
  {Prog(ph, <<>>) : ph \in {
     <<Ph(0, 16, 3), Ph(32, 8, 8), Ph(16, 8, 8)>>,
     <<Ph(0, 96, 1)>>, <<Ph(3, 8, 8)>>, <<Ph(16, 500, 1)>>, <<Ph(0, 2, 5)>>,
     <<[Ph(0, 9, 9) EXCEPT !.short = TRUE]>>}} \cup
  {Prog(<<Ph(0, 12, 12)>>, args) : args \in {<<5>>, <<6>>, <<52>>, <<0, 0>>}} \cup
  {Prog(<<[Ph(0, 9, 9) EXCEPT !.load = FALSE]>>, <<66>>)}

\* Page by page, by half pages, to nothing, past the end and around the end.
MCGrow == {-200, -24, 0, 40, 250}

\* Pipelines of four, a bracket in the middle of one, background commands
\* before and within a list, redirections of and in a bracket; two errors.
Word == "w"
MCLines == {
  <<Word, "|", Word, "|", Word, "|", Word>>,
  <<Word, "|", "(", Word, "|", Word, ";", Word, ")", "|", Word>>,
  <<Word, "&", ";", Word, "|", Word, "&">>,
  <<"(", "(", Word, "<", Word, "|", Word, ")", "|", Word, "&", ")", ">", Word>>,
  <<Word, ">", "|">>, <<Word, "|", "&">>}
=============================================================================
