---------------------------- MODULE Transactions ----------------------------
(***************************************************************************)
(* What log.c promises to the file system: blocks change together.  The    *)
(* writes of all system calls that overlap reach the disk at one instant,  *)
(* at which none of them is under way, and the last of them returns only   *)
(* afterwards.  A crash loses everything since the last such instant, and  *)
(* nothing else.                                                           *)
(***************************************************************************)
CONSTANTS Proc, Block, Value

VARIABLES
  stable,    \* contents that survive a crash
  current,   \* contents that system calls see
  open,      \* the processes between begin_op() and end_op()
  busy       \* the last of them is committing

vars == <<stable, current, open, busy>>

Init ==
  /\ stable \in [Block -> Value] /\ current = stable
  /\ open = {} /\ busy = FALSE

Begin(p) ==
  /\ ~busy /\ p \notin open
  /\ open' = open \cup {p}
  /\ UNCHANGED <<stable, current, busy>>

Write(p, b, v) ==
  /\ p \in open
  /\ current' = [current EXCEPT ![b] = v]
  /\ UNCHANGED <<stable, open, busy>>

End(p) ==
  /\ p \in open
  /\ open' = open \ {p}
  /\ busy' = (open' = {})
  /\ UNCHANGED <<stable, current>>

Commit ==
  /\ busy
  /\ stable' = current
  /\ UNCHANGED <<current, open, busy>>

\* end_op() of the last system call returns.
Return ==
  /\ busy /\ stable = current
  /\ busy' = FALSE
  /\ UNCHANGED <<stable, current, open>>

Crash ==
  /\ current' = stable /\ open' = {} /\ busy' = FALSE
  /\ UNCHANGED stable

Next ==
  \/ \E p \in Proc : Begin(p) \/ End(p) \/ \E b \in Block, v \in Value : Write(p, b, v)
  \/ Commit \/ Return \/ Crash

Spec == Init /\ [][Next]_vars
=============================================================================
