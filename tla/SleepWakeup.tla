---------------------------- MODULE SleepWakeup ----------------------------
(***************************************************************************)
(* What sleep(), wakeup() and kill() of proc.c promise to the rest of the  *)
(* kernel: a process goes to sleep on one channel; a wakeup of a channel   *)
(* wakes every process asleep on it at once and nobody else; apart from    *)
(* that, only kill() ends a sleep, and it leaves its mark.  Drivers, the   *)
(* log, pipes and mailboxes rely on nothing more.                          *)
(***************************************************************************)
CONSTANTS Process, Channel, Awake

VARIABLES
  asleep,    \* the channel a process sleeps on, or Awake
  killed     \* p->killed

Init ==
  /\ asleep = [p \in Process |-> Awake]
  /\ killed = [p \in Process |-> FALSE]

Sleep(p, ch) ==
  /\ asleep[p] = Awake
  /\ asleep' = [asleep EXCEPT ![p] = ch]
  /\ UNCHANGED killed

\* exit() wakes up to two channels in one critical section.
Wakeup(W) ==
  /\ asleep' = [p \in Process |-> IF asleep[p] \in W THEN Awake ELSE asleep[p]]
  /\ UNCHANGED killed

\* kill(), or a fault of p itself.
Kill(p) ==
  /\ killed' = [killed EXCEPT ![p] = TRUE]
  /\ asleep' = [asleep EXCEPT ![p] = Awake]

\* wait() reaps p.
Reap(p) ==
  /\ asleep[p] = Awake
  /\ killed' = [killed EXCEPT ![p] = FALSE]
  /\ UNCHANGED asleep

Next ==
  \/ \E p \in Process, ch \in Channel : Sleep(p, ch)
  \/ \E W \in SUBSET Channel : Wakeup(W)
  \/ \E p \in Process : Kill(p) \/ Reap(p)

Spec == Init /\ [][Next]_<<asleep, killed>>
=============================================================================
