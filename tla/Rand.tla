-------------------------------- MODULE Rand --------------------------------
(***************************************************************************)
(* rand.c: the 16-bit LFSR behind the lottery, and random_at_most(), which *)
(* the scheduler calls with ptable.lock held.  The registers keep their    *)
(* width, so TLC follows the very sequence the kernel draws from.          *)
(***************************************************************************)
EXTENDS Integers

CONSTANT Maxima     \* bound: what random_at_most() is called with

VARIABLES
  lfsr,       \* static unsigned short lfsr
  bins,       \* num_bins of the call in progress, 0: none
  ret         \* what the last call returned, -1: no call yet

vars == <<lfsr, bins, ret>>

Seed == 44257                       \* 0xACE1
RandValues == 65536                 \* 2^16

\* One shift of the register; the new bit enters at the top.
Bit(x, i) == (x \div 2^i) % 2
Shift(x) ==
  (x \div 2) + 32768 * ((Bit(x, 0) + Bit(x, 2) + Bit(x, 3) + Bit(x, 5)) % 2)

\* The first result that rejection sampling turns away.
BugLimit(n) == RandValues
Limit(n) == RandValues - (RandValues % n)

Reduce(x, n) == x % n

Init == lfsr = Seed /\ bins = 0 /\ ret = -1

\* Entering random_at_most(max); max <= 0 returns at once.
Call(max) ==
  /\ bins = 0
  /\ \/ max <= 0 /\ ret' = 0 /\ UNCHANGED bins
     \/ max > 0 /\ bins' = max + 1 /\ UNCHANGED ret
  /\ UNCHANGED lfsr

\* One round of the do-while loop: rand(), then reject or return.
Round ==
  /\ bins # 0
  /\ lfsr' = Shift(lfsr)
  /\ \/ lfsr' >= Limit(bins) /\ UNCHANGED <<bins, ret>>
     \/ lfsr' < Limit(bins) /\ ret' = Reduce(lfsr', bins) /\ bins' = 0

Next == Round \/ \E max \in Maxima : Call(max)

Spec == Init /\ [][Next]_vars
=============================================================================
