------------------------------ MODULE Lottery ------------------------------
(***************************************************************************)
(* The lottery of scheduler() and settickets() in proc.c: count the        *)
(* tickets of the RUNNABLE processes, draw one with random_at_most(), walk *)
(* the table to the process that holds it.  Tickets and the counters are C *)
(* ints and wrap; the widths of int and of the random register are         *)
(* constants, so that TLC can enumerate draws beyond both.                 *)
(*                                                                         *)
(* All of it runs under ptable.lock, so that count, draw and walk see one  *)
(* table and are one action here.  The values random_at_most() can return  *)
(* are those module Rand finds: below.                                     *)
(***************************************************************************)
EXTENDS Integers, FiniteSets

CONSTANTS
  NPROC,        \* slots of ptable.proc
  NCPU,         \* CPUs that run the scheduler
  RANGE,        \* 65536: rand() yields 1 .. RANGE-1
  MAXINT,       \* 2147483647, the largest int
  TicketArgs    \* bound: the values settickets() is called with

ASSUME NPROCAssumption == NPROC \in Nat \ {0}
ASSUME NCPUAssumption == NCPU \in Nat \ {0}
ASSUME WidthAssumption == RANGE \in Nat \ {0, 1} /\ MAXINT \in Nat /\ MAXINT > RANGE
ASSUME TicketArgsAssumption == TicketArgs \subseteq -MAXINT .. MAXINT

Slot == 1 .. NPROC

VARIABLES
  state,      \* of a slot; EMBRYO and ZOMBIE are UNUSED to the lottery
  tickets,    \* p->tickets
  stuck       \* random_at_most() never returns, with ptable.lock held

vars == <<state, tickets, stuck>>

Runnable == {p \in Slot : state[p] = "RUNNABLE"}
Running == {p \in Slot : state[p] = "RUNNING"}   \* the callers of system calls

\* a + b as C ints, b positive: past MAXINT the sum wraps to negative.
AddInt(a, b) ==
  IF a >= 0 /\ b > MAXINT - a THEN (a - MAXINT - 1) + (b - MAXINT - 1) ELSE a + b

\* counter after slot i of a walk over the table.
Counter[i \in 0 .. NPROC] ==
  IF i = 0 THEN 0
  ELSE IF state[i] = "RUNNABLE" THEN AddInt(Counter[i - 1], tickets[i])
  ELSE Counter[i - 1]

total_tickets == Counter[NPROC]

\* What random_at_most(total - 1) can return: rand() yields every value of
\* 1 .. RANGE-1 and a result is the remainder of one below RANGE - RANGE % total.
\* Beyond RANGE tickets every value is rejected; beyond half of it only the value
\* 0 itself would give ticket 0.
BugDraws(total) == IF 2 * total >= RANGE THEN 1 .. total - 1 ELSE 0 .. total - 1
Draws(total) ==
  IF total > RANGE THEN {}
  ELSE IF 2 * total > RANGE THEN 1 .. total - 1
  ELSE 0 .. total - 1

\* The process the walk stops at: the first with counter > winner.
BugWinner(winner) ==
  {p \in Slot : /\ state[p] = "RUNNABLE" /\ Counter[p] >= winner
                /\ \A q \in 1 .. p - 1 : state[q] = "RUNNABLE" => Counter[q] < winner}
Winner(winner) ==
  {p \in Slot : /\ state[p] = "RUNNABLE" /\ Counter[p] > winner
                /\ \A q \in 1 .. p - 1 : state[q] = "RUNNABLE" => Counter[q] <= winner}

-----------------------------------------------------------------------------
Init ==
  /\ state = [p \in Slot |-> IF p = 1 THEN "RUNNABLE" ELSE "UNUSED"]
  /\ tickets = [p \in Slot |-> IF p = 1 THEN 10 ELSE 0]
  /\ stuck = FALSE

\* One round of scheduler() on a CPU that runs no process.
BugNotRunning ==
  /\ Cardinality(Running) < NCPU
  /\ total_tickets > 0
  /\ stuck' = (Draws(total_tickets) = {})
  /\ UNCHANGED <<state, tickets>>
Schedule ==
  /\ Cardinality(Running) < NCPU
  /\ total_tickets > 0
  /\ \/ Draws(total_tickets) = {} /\ stuck' = TRUE /\ UNCHANGED state
     \/ \E winner \in Draws(total_tickets) : \E p \in Winner(winner) :
          state' = [state EXCEPT ![p] = "RUNNING"] /\ UNCHANGED stuck
  /\ UNCHANGED tickets

\* A round without a lottery: nobody is RUNNABLE, or the count has wrapped.
Idle ==
  /\ Cardinality(Running) < NCPU
  /\ total_tickets <= 0
  /\ UNCHANGED vars

\* allocproc() in the first free slot, made RUNNABLE by fork().
Fork(p) ==
  /\ Running # {}
  /\ state[p] = "UNUSED" /\ \A q \in 1 .. p - 1 : state[q] # "UNUSED"
  /\ state' = [state EXCEPT ![p] = "RUNNABLE"]
  /\ tickets' = [tickets EXCEPT ![p] = 10]
  /\ UNCHANGED stuck

\* yield(), sleep() or exit() of a running process (init does not exit);
\* wakeup() of a sleeper.
Leave(p, s) ==
  /\ state[p] = "RUNNING" /\ (s = "UNUSED" => p # 1)
  /\ state' = [state EXCEPT ![p] = s]
  /\ UNCHANGED <<tickets, stuck>>

Wakeup(p) ==
  /\ state[p] = "SLEEPING"
  /\ state' = [state EXCEPT ![p] = "RUNNABLE"]
  /\ UNCHANGED <<tickets, stuck>>

\* settickets(pid, n) for the pid in slot p, even one left in an UNUSED slot.
settickets(p, n) ==
  /\ Running # {} /\ n > 0
  /\ tickets' = [tickets EXCEPT ![p] = n]
  /\ UNCHANGED <<state, stuck>>

Next ==
  \/ /\ ~stuck
     /\ \/ Schedule \/ Idle
        \/ \E p \in Slot : \/ Fork(p) \/ Wakeup(p)
                           \/ \E s \in {"RUNNABLE", "SLEEPING", "UNUSED"} : Leave(p, s)
                           \/ \E n \in TicketArgs : settickets(p, n)
  \/ stuck /\ UNCHANGED vars     \* everybody spins on ptable.lock

Spec == Init /\ [][Next]_vars

-----------------------------------------------------------------------------
TypeOK ==
  /\ state \in [Slot -> {"UNUSED", "SLEEPING", "RUNNABLE", "RUNNING"}]
  /\ tickets \in [Slot -> 0 .. MAXINT]
  /\ stuck \in BOOLEAN

\* The count of tickets has not wrapped.
Exact == \A i \in Slot : Counter[i] >= Counter[i - 1]

\* "Proportional-share scheduling": of the winners 0 .. total-1, the walk over
\* the table gives each RUNNABLE process exactly as many as it has tickets, as
\* long as the count of tickets has not wrapped.
SharesAreTickets ==
  Exact => \A p \in Runnable :
    Cardinality({w \in 0 .. total_tickets - 1 : p \in Winner(w)}) = tickets[p]

\* "Even low-ticket processes get scheduled": there is a draw that each
\* RUNNABLE process wins.
EveryProcessCanWin ==
  \A p \in Runnable : \E w \in Draws(total_tickets) : p \in Winner(w)

\* The range in which the lottery keeps that promise: with at most RANGE / 2
\* tickets in play (32768 in the kernel) no RUNNABLE process is left out.  Up to
\* RANGE, the only one that may be left out is one with a single ticket in the
\* first RUNNABLE slot, because ticket 0 is never drawn.  Beyond RANGE
\* random_at_most() does not return, and nobody wins.
FairWhileFewTickets ==
  /\ TypeOK
  /\ Exact /\ 2 * total_tickets \in 1 .. RANGE => EveryProcessCanWin
  /\ Exact /\ total_tickets \in 1 .. RANGE =>
       \A p \in Runnable :
         \/ \E w \in Draws(total_tickets) : p \in Winner(w)
         \/ tickets[p] = 1 /\ \A q \in Runnable : p <= q
  /\ stuck => total_tickets \notin 1 .. RANGE

\* The machine does not stop: while somebody is RUNNABLE and nobody runs, the
\* scheduler gets a process to run, unless there are more tickets in play than
\* rand() has values, or their count has wrapped.
SchedulerRuns ==
  (Runnable # {}) ~> (Running # {} \/ total_tickets \notin 1 .. RANGE)
=============================================================================
