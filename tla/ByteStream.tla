----------------------------- MODULE ByteStream -----------------------------
(***************************************************************************)
(* What a pipe promises: the bytes that were written come out once, in     *)
(* order, and read() says that it is at the end only when all have come    *)
(* out and nobody can write any more.                                      *)
(***************************************************************************)
EXTENDS Naturals, Sequences

CONSTANTS Proc, Page, Byte, PIPESIZE, None

VARIABLES
  queue,              \* the bytes in each pipe
  writers, readers,   \* who has an open write end, or read end, of a pipe
  todo,               \* what a process still has to write
  ret                 \* what a read() of a process returns, or None

Prefix(s, k) == SubSeq(s, 1, k)
Rest(s, k)   == SubSeq(s, k + 1, Len(s))

\* A call of write().
Ask(p) ==
  /\ todo[p] = << >>
  /\ todo'[p] \in Seq(Byte) /\ todo' = [todo EXCEPT ![p] = todo'[p]]
  /\ UNCHANGED <<queue, writers, readers, ret>>

\* write() puts some of its bytes in the pipe, and may then give up.
Send(p, g, k) ==
  /\ todo[p] # << >> /\ k <= Len(todo[p])
  /\ p \in writers[g]
  /\ Len(queue[g]) + k <= PIPESIZE
  /\ queue' = [queue EXCEPT ![g] = @ \o Prefix(todo[p], k)]
  /\ \E s \in {Rest(todo[p], k), << >>} : todo' = [todo EXCEPT ![p] = s]
  /\ UNCHANGED <<writers, readers, ret>>

Receive(p, g, k) ==
  /\ ret[p] = None /\ k <= Len(queue[g])
  /\ ret' = [ret EXCEPT ![p] = Prefix(queue[g], k)]
  /\ k = 0 => queue[g] = << >> /\ writers[g] = {}
  /\ p \in readers[g]
  /\ queue' = [queue EXCEPT ![g] = Rest(@, k)]
  /\ UNCHANGED <<writers, readers, todo>>

Return(p) ==
  /\ ret' = [ret EXCEPT ![p] = None]
  /\ UNCHANGED <<queue, writers, readers, todo>>

\* pipe(), dup(), fork(), close(), exit()
MoveEnds ==
  /\ UNCHANGED <<todo, ret, queue>>
  /\ writers' \in [Page -> SUBSET Proc] /\ readers' \in [Page -> SUBSET Proc]

\* A pipe nobody can use is emptied.
Reset(g) ==
  /\ writers[g] = {} /\ readers[g] = {}
  /\ queue' = [queue EXCEPT ![g] = << >>]
  /\ UNCHANGED <<writers, readers, todo, ret>>

Init ==
  /\ queue = [g \in Page |-> << >>]
  /\ writers = [g \in Page |-> {}] /\ readers = [g \in Page |-> {}]
  /\ todo = [p \in Proc |-> << >>] /\ ret = [p \in Proc |-> None]

Next ==
  \/ MoveEnds \/ \E g \in Page : Reset(g)
  \/ \E p \in Proc :
       \/ Ask(p) \/ Return(p)
       \/ \E g \in Page, k \in 0 .. PIPESIZE : Send(p, g, k) \/ Receive(p, g, k)

Spec == Init /\ [][Next]_<<queue, writers, readers, todo, ret>>
=============================================================================
