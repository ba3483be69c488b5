-------------------------------- MODULE Pipe --------------------------------
(***************************************************************************)
(* Pipes (pipe.c), the file table that counts the references to their ends *)
(* (file.c), and the system calls that move those references: pipe(),      *)
(* dup(), close(), read(), write() (sysfile.c), fork() and exit() (proc.c). *)
(*                                                                         *)
(* ftable.lock, p->lock and kmem.lock make each of their critical sections *)
(* one step; sleep() gives p->lock up and marks the process as a sleeper   *)
(* at once (module Proc).  Of the files that are not pipes there is one,   *)
(* the console, which is never read or written here.  Memory others use is *)
(* left out: kalloc() may always fail.  The first process is init, which   *)
(* neither exits nor is killed.                                            *)
(***************************************************************************)
EXTENDS Integers, Sequences, FiniteSets, FiniteSetsExt, Functions

CONSTANTS
  Proc, First,      \* processes, and the one there is at the start
  NFILE, NOFILE,    \* entries of ftable, and of a process's ofile
  Page,             \* pages a pipe may be in
  Byte, Junk,       \* what is written, and what kfree() fills a page with
  PIPESIZE,
  WORD,             \* nread and nwrite are counted modulo WORD (2^32)
  Strings,          \* what is written in one write()
  MaxRead,          \* the most a read() asks for
  None

File == 1 .. NFILE
Fd   == 1 .. NOFILE
Console == 1       \* a file that is not a pipe, and others have open as well

PipeType ==
  [data : [0 .. PIPESIZE - 1 -> Byte \cup {Junk}], nread : 0 .. WORD - 1, nwrite : 0 .. WORD - 1,
   readopen : BOOLEAN, writeopen : BOOLEAN]
FileType ==
  [ref : Nat, type : {"FD_NONE", "FD_PIPE", "FD_INODE"}, writable : BOOLEAN, pipe : Page \cup {None}]

ASSUME SizeAssumption ==
  /\ NFILE \in Nat \ {0} /\ NOFILE \in Nat \ {0} /\ MaxRead \in Nat
  /\ IsFiniteSet(Proc) /\ First \in Proc
ASSUME StringAssumption == Strings \subseteq Seq(Byte)
ASSUME WordAssumption ==
  /\ PIPESIZE \in Nat \ {0} /\ WORD \in Nat /\ WORD > PIPESIZE
  /\ WORD % PIPESIZE = 0
ASSUME NoneAssumption == None \notin File \cup Page \cup FileType

VARIABLES
  ftable,    \* ref, type, writable and pipe of each file
  ofile,
  pipe,      \* what is in a page: struct pipe
  free,      \* the free pages
  pc,        \* where a process is
  killed,
  hold,      \* files a process has in its local variables, or is to close
  ff,        \* fileclose()'s copy of the file
  end,       \* the file read() or write() is about
  todo,      \* write(): the bytes not yet written
  ret        \* what read() returns: bytes, or None

files == <<ftable, ofile, hold, ff>>
pages == <<pipe, free>>
call  == <<end, todo, ret>>
vars  == <<files, pages, pc, killed, call>>

NoFile == [ref |-> 0, type |-> "FD_NONE", writable |-> FALSE, pipe |-> None]
ConsoleFile == [ref |-> 2, type |-> "FD_INODE", writable |-> TRUE, pipe |-> None]
NewPipe ==
  [data |-> [i \in 0 .. PIPESIZE - 1 |-> Junk], nread |-> 0, nwrite |-> 0,
   readopen |-> TRUE, writeopen |-> TRUE]
\* kfree() fills the page with ones: the flags of a pipe there look set, and
\* its counters are equal.
FreePage == [NewPipe EXCEPT !.nread = 1, !.nwrite = 1]

Init ==
  /\ ftable = [f \in File |-> IF f = Console THEN ConsoleFile ELSE NoFile]
  /\ ofile = [p \in Proc |-> [fd \in Fd |-> IF p = First /\ fd = 1 THEN Console ELSE None]]
  /\ pipe = [g \in Page |-> FreePage]
  /\ free = Page
  /\ pc = [p \in Proc |-> IF p = First THEN "user" ELSE "unused"]
  /\ killed = [p \in Proc |-> FALSE]
  /\ hold = [p \in Proc |-> << >>]
  /\ ff = [p \in Proc |-> None]
  /\ end = [p \in Proc |-> None]
  /\ todo = [p \in Proc |-> << >>]
  /\ ret = [p \in Proc |-> None]

Goto(p, l) == pc' = [pc EXCEPT ![p] = l]

\* In user code, where a killed process can only exit (trap()).
InUser(p) == pc[p] = "user" /\ ~killed[p]

OpenFds(p) == {fd \in Fd : ofile[p][fd] # None}
FreeFds(p) == Fd \ OpenFds(p)
PipeFds(p) == {fd \in OpenFds(p) : ftable[ofile[p][fd]].type = "FD_PIPE"}

-----------------------------------------------------------------------------
(* fileclose(), up to its release(&ftable.lock); the caller goes on at l,  *)
(* after pipeclose() if the file was the last reference to a pipe's end.   *)

Closing == [user |-> "pipeclose", bad |-> "bad_pipeclose", exit |-> "exit_pipeclose"]

\* The last close resets the type, and leaves the other fields as they are.
Closed(f) ==
  [ftable EXCEPT ![f].ref = @ - 1, ![f].type = IF ftable[f].ref = 1 THEN "FD_NONE" ELSE @]

fileclose(p, f, l) ==
  /\ ftable' = Closed(f)
  /\ \/ /\ ftable[f].ref = 1 /\ ftable[f].type = "FD_PIPE"
        /\ ff' = [ff EXCEPT ![p] = ftable[f]]
        /\ Goto(p, Closing[l])
     \/ /\ ~(ftable[f].ref = 1 /\ ftable[f].type = "FD_PIPE")
        /\ Goto(p, l)
        /\ UNCHANGED ff

-----------------------------------------------------------------------------
(* pipe(): pipealloc() and two fdalloc(). *)

FreeFiles == {f \in File : ftable[f].ref = 0}

\* filealloc(), for rf and then for wf.
filealloc(p) ==
  /\ (InUser(p) \/ pc[p] = "filealloc") /\ FreeFiles # {}
  /\ ftable' = [ftable EXCEPT ![Min(FreeFiles)].ref = 1]
  /\ hold' = [hold EXCEPT ![p] = Append(@, Min(FreeFiles))]
  /\ Goto(p, IF pc[p] = "user" THEN "filealloc" ELSE "kalloc")
  /\ UNCHANGED <<ofile, ff, pages, killed, call>>

\* pipealloc() finds no second file, or no page.
pipeallocBad(p) ==
  /\ pc[p] = "kalloc" \/ (pc[p] = "filealloc" /\ FreeFiles = {})
  /\ Goto(p, "bad")
  /\ UNCHANGED <<files, pages, killed, call>>

PipeEnd(g, w) == [ref |-> 1, type |-> "FD_PIPE", writable |-> w, pipe |-> g]

\* kalloc(), the rest of pipealloc(), and the two fdalloc(); with no room for
\* both ends both are closed.
pipealloc(p, g) ==
  /\ pc[p] = "kalloc" /\ g \in free
  /\ free' = free \ {g}
  /\ pipe' = [pipe EXCEPT ![g] = NewPipe]
  /\ ftable' = [ftable EXCEPT ![hold[p][1]] = PipeEnd(g, FALSE), ![hold[p][2]] = PipeEnd(g, TRUE)]
  /\ \/ /\ Cardinality(FreeFds(p)) >= 2
        /\ LET fd0 == Min(FreeFds(p))
               fd1 == Min(FreeFds(p) \ {fd0})
           IN  ofile' = [ofile EXCEPT ![p][fd0] = hold[p][1], ![p][fd1] = hold[p][2]]
        /\ hold' = [hold EXCEPT ![p] = << >>]
        /\ Goto(p, "user")
     \/ /\ Cardinality(FreeFds(p)) < 2
        /\ Goto(p, "bad")
        /\ UNCHANGED <<ofile, hold>>
  /\ UNCHANGED <<ff, killed, call>>

\* The error paths of pipealloc() and sys_pipe() close the files.
closeBad(p) ==
  /\ pc[p] = "bad"
  /\ hold' = [hold EXCEPT ![p] = Tail(@)]
  /\ fileclose(p, Head(hold[p]), IF Len(hold[p]) > 1 THEN "bad" ELSE "user")
  /\ UNCHANGED <<ofile, pages, killed, call>>

-----------------------------------------------------------------------------
(* dup(), fork(), close(), exit(), kill(). *)

sys_dup(p, fd) ==
  /\ InUser(p) /\ fd \in OpenFds(p) /\ FreeFds(p) # {}
  /\ ofile' = [ofile EXCEPT ![p][Min(FreeFds(p))] = ofile[p][fd]]
  /\ ftable' = [ftable EXCEPT ![ofile[p][fd]].ref = @ + 1]     \* filedup()
  /\ UNCHANGED <<hold, ff, pages, pc, killed, call>>

\* The number of p's descriptors of file f.
Fds(p, f) == Cardinality({fd \in Fd : ofile[p][fd] = f})

\* fork(): filedup() of each descriptor, then the child may run.  The parent's
\* own references keep these files open meanwhile.
Dupped(p) == [f \in File |-> [ftable[f] EXCEPT !.ref = @ + Fds(p, f)]]

fork(p, np) ==
  /\ InUser(p) /\ pc[np] = "unused"
  /\ ftable' = Dupped(p)
  /\ ofile' = [ofile EXCEPT ![np] = ofile[p]]
  /\ pc' = [pc EXCEPT ![np] = "user"]
  /\ UNCHANGED <<hold, ff, pages, killed, call>>

sys_close(p, fd) ==
  /\ InUser(p) /\ fd \in OpenFds(p)
  /\ ofile' = [ofile EXCEPT ![p][fd] = None]
  /\ fileclose(p, ofile[p][fd], "user")
  /\ UNCHANGED <<hold, pages, killed, call>>

\* exit() closes the descriptors in turn; wait() then frees the slot.
exit(p) ==
  /\ (pc[p] = "user" /\ p # First) \/ pc[p] = "exit"
  /\ \/ /\ OpenFds(p) # {}
        /\ ofile' = [ofile EXCEPT ![p][Min(OpenFds(p))] = None]
        /\ fileclose(p, ofile[p][Min(OpenFds(p))], "exit")
        /\ UNCHANGED killed
     \/ /\ OpenFds(p) = {}
        /\ Goto(p, "unused")
        /\ killed' = [killed EXCEPT ![p] = FALSE]
        /\ UNCHANGED <<ftable, ff, ofile>>
  /\ UNCHANGED <<hold, pages, call>>

\* kill(): a sleeper is made to look at p->killed.
kill(p) ==
  /\ pc[p] # "unused" /\ p # First
  /\ killed' = [killed EXCEPT ![p] = TRUE]
  /\ Goto(p, IF pc[p] = "read_asleep" THEN "read"
             ELSE IF pc[p] = "write_asleep" THEN "write" ELSE pc[p])
  /\ UNCHANGED <<files, pages, call>>

-----------------------------------------------------------------------------
(* pipeclose(), which fileclose() calls on its copy of the file. *)

\* wakeup(&p->nread) and wakeup(&p->nwrite), for the pipe in page g.
Woken(f, asleep, awake, g) ==
  [q \in Proc |-> IF f[q] = asleep /\ ftable[end[q]].pipe = g THEN awake ELSE f[q]]
WakeReaders(f, g) == Woken(f, "read_asleep", "read", g)
WakeWriters(f, g) == Woken(f, "write_asleep", "write", g)
WokenByClose(f, w, g) == IF w THEN WakeReaders(f, g) ELSE WakeWriters(f, g)

\* The end that is left when the other is closed decides whether to kfree().
BugFreeEarly(b) == ~b.writeopen
BothClosed(b) == ~b.readopen /\ ~b.writeopen

pipeclose(p, l) ==
  LET g == ff[p].pipe
      w == ff[p].writable
  IN
  /\ pc[p] = Closing[l]
  /\ LET b == [pipe[g] EXCEPT !.writeopen = @ /\ ~w, !.readopen = @ /\ w] IN
       /\ pipe' = [pipe EXCEPT ![g] = IF BothClosed(b) THEN FreePage ELSE b]
       /\ free' = IF BothClosed(b) THEN free \cup {g} ELSE free    \* kfree()
  /\ ff' = [ff EXCEPT ![p] = None]
  /\ pc' = WokenByClose([pc EXCEPT ![p] = l], w, g)
  /\ UNCHANGED <<ftable, ofile, hold, killed, call>>

-----------------------------------------------------------------------------
(* read() and write(). *)

\* A process that has found killed clear goes to sleep.  It holds p->lock until
\* it does, but not ptable.lock: a kill() may still come in between, which then
\* finds nobody to wake.
KilledBeforeSleep(p) ==
  \E k \in {killed[p], p # First} : killed' = [killed EXCEPT ![p] = k]

\* The bytes in a pipe; nread and nwrite wrap around.
Used(b) == (b.nwrite - b.nread) % WORD

\* The test of pipewrite()'s loop, nwrite == nread + PIPESIZE.
BugFullNoWrap(b) == b.nwrite = b.nread + PIPESIZE
Full(b) == b.nwrite = (b.nread + PIPESIZE) % WORD

sys_write(p, fd, s) ==
  /\ InUser(p) /\ fd \in PipeFds(p) /\ ftable[ofile[p][fd]].writable
  /\ end' = [end EXCEPT ![p] = ofile[p][fd]]
  /\ todo' = [todo EXCEPT ![p] = s]
  /\ Goto(p, "write")
  /\ UNCHANGED <<files, pages, killed, ret>>

\* p->nread++ or p->nwrite++, k times
Advanced(n, k) == (n + k) % WORD

\* p->data[p->nwrite++ % PIPESIZE] = c, for each byte of s: no more than fit.
PutBytes(b, s) ==
  [b EXCEPT
    !.data = [i \in 0 .. PIPESIZE - 1 |->
                LET j == ((i - b.nwrite) % PIPESIZE) + 1 IN
                IF j <= Len(s) THEN s[j] ELSE b.data[i]],
    !.nwrite = Advanced(@, Len(s))]

\* How many bytes of s the loop copies before it ends or finds the pipe full.
Room(b, s) ==
  Min({k \in 0 .. Len(s) : k = Len(s) \/ Full([b EXCEPT !.nwrite = Advanced(@, k)])})

\* The wakeup() before a writer sleeps: without it, a reader and a writer may
\* sleep beside the same pipe.
BugFullWakesNobody(f, g) == f
WokenByFull(f, g) == WakeReaders(f, g)

\* pipewrite() from the call, or from its sleep, to its end or to its sleep.
pipewrite(p) ==
  LET g    == ftable[end[p]].pipe
      k    == Room(pipe[g], todo[p])
      rest == SubSeq(todo[p], k + 1, Len(todo[p]))
  IN
  /\ pc[p] = "write"
  /\ pipe' = [pipe EXCEPT ![g] = PutBytes(@, SubSeq(todo[p], 1, k))]
  /\ \/ /\ rest = << >>
        /\ pc' = WakeReaders([pc EXCEPT ![p] = "user"], g)
        /\ todo' = [todo EXCEPT ![p] = << >>]
        /\ end' = [end EXCEPT ![p] = None]
        /\ UNCHANGED killed
     \/ /\ rest # << >> /\ (~pipe[g].readopen \/ killed[p])
        /\ Goto(p, "user")
        /\ todo' = [todo EXCEPT ![p] = << >>]
        /\ end' = [end EXCEPT ![p] = None]
        /\ UNCHANGED killed
     \/ /\ rest # << >> /\ pipe[g].readopen /\ ~killed[p]
        /\ pc' = WokenByFull([pc EXCEPT ![p] = "write_asleep"], g)
        /\ todo' = [todo EXCEPT ![p] = rest]
        /\ KilledBeforeSleep(p)
        /\ UNCHANGED end
  /\ UNCHANGED <<files, free, ret>>

sys_read(p, fd) ==
  /\ InUser(p) /\ fd \in PipeFds(p) /\ ~ftable[ofile[p][fd]].writable
  /\ end' = [end EXCEPT ![p] = ofile[p][fd]]
  /\ Goto(p, "read")
  /\ UNCHANGED <<files, pages, killed, todo, ret>>

Empty(b) == b.nread = b.nwrite

\* Nothing to read yet: the test of piperead()'s loop.
MustWait(b) == Empty(b) /\ b.writeopen

\* The first n bytes, or all there are.
TakeBytes(b, n) ==
  [i \in 1 .. Min({n, Used(b)}) |-> b.data[(b.nread + i - 1) % PIPESIZE]]

piperead(p, n) ==
  LET g == ftable[end[p]].pipe
      b == pipe[g]
  IN
  /\ pc[p] = "read"
  /\ \/ /\ MustWait(b) /\ killed[p]
        /\ Goto(p, "user")
        /\ end' = [end EXCEPT ![p] = None]
        /\ UNCHANGED <<pipe, killed, ret>>
     \/ /\ MustWait(b) /\ ~killed[p]
        /\ Goto(p, "read_asleep")
        /\ KilledBeforeSleep(p)
        /\ UNCHANGED <<pipe, end, ret>>
     \/ /\ ~MustWait(b)
        /\ pipe' = [pipe EXCEPT ![g].nread = Advanced(@, Len(TakeBytes(b, n)))]
        /\ ret' = [ret EXCEPT ![p] = TakeBytes(b, n)]
        /\ pc' = WakeWriters([pc EXCEPT ![p] = "return"], g)
        /\ end' = [end EXCEPT ![p] = None]
        /\ UNCHANGED killed
  /\ UNCHANGED <<files, free, todo>>

\* The process has its bytes, and goes on.
Return(p) ==
  /\ pc[p] = "return"
  /\ ret' = [ret EXCEPT ![p] = None]
  /\ Goto(p, "user")
  /\ UNCHANGED <<files, pages, killed, end, todo>>

-----------------------------------------------------------------------------
Calls(p) ==
  \/ filealloc(p) \/ exit(p)
  \/ \E fd \in Fd :
       \/ sys_dup(p, fd) \/ sys_close(p, fd) \/ sys_read(p, fd)
       \/ \E s \in Strings : sys_write(p, fd, s)
  \/ \E np \in Proc : fork(p, np)

Inside(p) ==
  \/ pipeallocBad(p) \/ closeBad(p) \/ \E l \in DOMAIN Closing : pipeclose(p, l)
  \/ \E g \in Page : pipealloc(p, g)
  \/ pipewrite(p) \/ Return(p) \/ \E n \in 1 .. MaxRead : piperead(p, n)

Next == \E p \in Proc : Calls(p) \/ Inside(p) \/ kill(p)

Spec == Init /\ [][Next]_vars

TypeOK ==
  /\ ftable \in [File -> FileType] /\ ff \in [Proc -> FileType \cup {None}]
  /\ ofile \in [Proc -> [Fd -> File \cup {None}]]
  /\ hold \in [Proc -> Seq(File)]
  /\ pipe \in [Page -> PipeType] /\ \A g \in Page : Used(pipe[g]) <= PIPESIZE
  /\ free \subseteq Page
  /\ pc \in [Proc -> {"unused", "user", "filealloc", "kalloc", "bad", "exit",
                      "read", "read_asleep", "write", "write_asleep", "return"}
                     \cup {Closing[l] : l \in DOMAIN Closing}]
  /\ killed \in [Proc -> BOOLEAN]
  /\ end \in [Proc -> File \cup {None}]
  /\ todo \in [Proc -> Seq(Byte)] /\ ret \in [Proc -> Seq(Byte) \cup {None}]

-----------------------------------------------------------------------------
(* Properties. *)

\* The references to f, and one of the console's from outside the model.
References(f) ==
  Cardinality({x \in Proc \X Fd : ofile[x[1]][x[2]] = f})
  + Cardinality({p \in Proc : f \in Range(hold[p])})
  + IF f = Console THEN 1 ELSE 0

\* Some file, or a pipeclose() under way, stands for the end of the pipe in g.
HasEnd(g, w) ==
  \/ \E f \in File : ftable[f].type = "FD_PIPE" /\ ftable[f].pipe = g /\ ftable[f].writable = w
  \/ \E p \in Proc : ff[p] # None /\ ff[p].pipe = g /\ ff[p].writable = w

\* A file's ref is the number of descriptors it is open on in all processes,
\* and of the local variables of a pipe() under way.  readopen and writeopen
\* tell whether that end is open anywhere, and the page is freed by the close
\* of the last end, not before and not never: whatever dup(), fork(), close(),
\* exit() and failing pipe() came between.
EndsMatch ==
  /\ \A f \in File : ftable[f].ref = References(f)
  /\ \A g \in Page :
    /\ g \notin free => /\ HasEnd(g, FALSE) <=> pipe[g].readopen
                        /\ HasEnd(g, TRUE) <=> pipe[g].writeopen
    /\ g \in free <=> ~HasEnd(g, FALSE) /\ ~HasEnd(g, TRUE)

\* The pipe that a process in read() or write() is about.
Its(p) == pipe[ftable[end[p]].pipe]

\* A writer sleeps while the pipe is full and can be read, and no reader sleeps
\* at the same pipe; a reader sleeps while the pipe can be written.
SleepInv ==
  \A p \in Proc :
    /\ pc[p] = "write_asleep" => Full(Its(p)) /\ Its(p).readopen
    /\ pc[p] = "read_asleep" => Its(p).writeopen
ApartInv ==
  \A p, q \in Proc :
    pc[p] = "write_asleep" /\ pc[q] = "read_asleep" => ftable[end[p]].pipe # ftable[end[q]].pipe

\* A step that leaves a reader asleep leaves its pipe empty.  In one case it does
\* not: a killed writer that has filled this pipe returns without a wakeup().
KilledWriter(q, p) ==
  /\ pc[q] = "write" /\ killed[q] /\ pc'[q] = "user"
  /\ ftable[end[q]].pipe = ftable[end[p]].pipe /\ Full(Its(p)')
LeftAsleep(p) ==
  pc'[p] = "read_asleep" =>
    \/ Empty(Its(p)')
    \/ pc[p] = "read_asleep" /\ ~Empty(Its(p))
    \/ \E q \in Proc : KilledWriter(q, p)
NobodyLeft == \A p \in Proc : LeftAsleep(p)

\* Nobody sleeps without a reason, and never both ends of a pipe: whoever fills,
\* drains or closes it has woken the other side.  The only step that leaves a
\* sleeping reader beside bytes is the return of a killed writer from a full
\* pipe; the next writer wakes the reader, before it sleeps itself.
NoLostWakeup == [](SleepInv /\ ApartInv) /\ [][NobodyLeft]_vars

\* The processes with an open descriptor of an end of the pipe in g.
Users(g, w) ==
  {p \in Proc : \E fd \in PipeFds(p) :
     ftable[ofile[p][fd]].pipe = g /\ ftable[ofile[p][fd]].writable = w}

\* A pipe is a stream of bytes, across the wrap-around of its buffer and of
\* its counters and across reuse of its page; and its end of file is what
\* read() takes it for.
queue == [g \in Page |-> TakeBytes(pipe[g], PIPESIZE)]
writers == [g \in Page |-> Users(g, TRUE)]
readers == [g \in Page |-> Users(g, FALSE)]
Stream == INSTANCE ByteStream WITH queue <- queue, writers <- writers, readers <- readers
StreamSpec == Stream!Spec
=============================================================================
