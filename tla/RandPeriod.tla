----------------------------- MODULE RandPeriod -----------------------------
(***************************************************************************)
(* Periods of the register in which every call of random_at_most() is made *)
(* for the same number of tickets: how often each ticket is drawn.         *)
(***************************************************************************)
EXTENDS Rand

VARIABLES
  max,     \* the argument of every call
  n,       \* rand() calls in this period
  hits     \* how often each ticket was drawn in this period

PERIOD == RandValues - 1

\* The tickets that are counted: all, or the ends of a large range.
Sample(m) == IF m < 100 THEN 0 .. m ELSE {0, 1, m}
NoHits == [w \in Sample(max) |-> 0]

PeriodInit == Init /\ max \in Maxima /\ n = 0 /\ hits = NoHits

PeriodRound ==
  /\ Round
  /\ n' = (n % PERIOD) + 1
  /\ LET h == IF n = PERIOD THEN NoHits ELSE hits
     IN  hits' = IF bins' = 0 /\ ret' \in DOMAIN h THEN [h EXCEPT ![ret'] = @ + 1] ELSE h
  /\ UNCHANGED max

PeriodNext == PeriodRound \/ (Call(max) /\ UNCHANGED <<max, n, hits>>)

\* rand() goes through all 65535 non-zero values before it repeats one: the
\* register never gets stuck, at zero or in a shorter cycle, and no value that
\* could make a ticket win is skipped.
FullPeriod == lfsr = Seed <=> n \in {0, PERIOD}

\* rand() has its full period.  "Rejection sampling to ensure uniform distribution": every result is in
\* [0, max], so that the scheduler's walk over the table finds a winner, and over
\* a period every ticket is drawn equally often, except that ticket 0 is drawn
\* once less because the register is never zero.
Uniform ==
  /\ FullPeriod
  /\ ret \in -1 .. max
  /\ n = PERIOD => \A w \in DOMAIN hits :
       hits[w] = (RandValues \div (max + 1)) - (IF w = 0 THEN 1 ELSE 0)
=============================================================================
