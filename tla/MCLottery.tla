----------------------------- MODULE MCLottery -----------------------------
(***************************************************************************)
(* Two machines side by side: the lottery among three processes, with a    *)
(* 6-bit register and 8-bit ints, and the real 16-bit register.  A         *)
(* behaviour is of one or of the other.                                    *)
(*                                                                         *)
(* Two processes can hold half of the small register's range (31 + 1), all *)
(* of it (31 + 33), more than that, and together more than an int.         *)
(***************************************************************************)
EXTENDS Lottery

\* Arguments of settickets(), refused ones included.
Arguments == {-1, 0, 1, 31, 33, 65, 100}

VARIABLES machine, lfsr, bins, ret, max, n, hits

random == <<lfsr, bins, ret, max, n, hits>>
R == INSTANCE RandPeriod WITH Maxima <- {0, 59, 32767, 32768, 65535}

MCInit ==
  /\ machine \in {"lottery", "random"} /\ Init /\ R!PeriodInit
  /\ machine = "lottery" => max = 0
MCNext ==
  \/ machine = "lottery" /\ Next /\ UNCHANGED <<machine, random>>
  \/ machine = "random" /\ R!PeriodNext /\ UNCHANGED <<machine, vars>>

\* Every CPU loops in scheduler() whenever it has no process to run.
MCSpec ==
  /\ MCInit /\ [][MCNext]_<<machine, vars, random>>
  /\ WF_vars(machine = "lottery" /\ ~stuck /\ Schedule /\ UNCHANGED <<machine, random>>)

\* rand() has its full period, and random_at_most() is uniform and stays in its range: see RandPeriod.
Uniform == R!Uniform

\* The scheduler gets a process to run: see Lottery.
SomeoneRuns == machine = "lottery" => SchedulerRuns
=============================================================================
