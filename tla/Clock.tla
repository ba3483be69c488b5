-------------------------------- MODULE Clock --------------------------------
(***************************************************************************)
(* The clock: the timer interrupt of CPU 0 (trap.c), and sys_sleep()       *)
(* (sysproc.c).  tickslock makes the interrupt, and each run of the loop   *)
(* of sys_sleep() up to its sleep(), one step.                             *)
(***************************************************************************)
EXTENDS Integers

CONSTANTS
  Proc,
  WORD,       \* ticks is modulo WORD (2^32)
  Arguments,  \* bound: arguments of sleep(), as ints
  MaxDelay    \* bound: ticks until a process that can run does run

VARIABLES
  ticks,
  sleeper     \* of each process: its state, killed, the locals of sys_sleep(),
              \* the ticks since the call and since it could run

vars == <<ticks, sleeper>>

InUser == [state |-> "user", killed |-> FALSE, ticks0 |-> 0, n |-> 0,
           elapsed |-> 0, delay |-> 0]
Init == ticks = 0 /\ sleeper = [p \in Proc |-> InUser]

MustSleep(s) == (ticks - s.ticks0) % WORD < s.n % WORD

\* trap(): "ticks++; wakeup(&ticks);"
Later(s) ==
  CASE s.state = "user" -> s
    [] s.state = "asleep" -> [s EXCEPT !.state = "runnable", !.elapsed = @ + 1]
    [] OTHER -> [s EXCEPT !.elapsed = @ + 1, !.delay = @ + 1]
Tick ==
  /\ \A p \in Proc : sleeper[p].delay < MaxDelay
  /\ ticks' = (ticks + 1) % WORD
  /\ sleeper' = [p \in Proc |-> Later(sleeper[p])]

\* The loop, up to its end or its sleep().
Run(p, s) ==
  /\ sleeper' = [sleeper EXCEPT ![p] =
       IF MustSleep(s) /\ ~s.killed THEN [s EXCEPT !.state = "asleep", !.delay = 0]
       ELSE [InUser EXCEPT !.killed = s.killed]]
  /\ UNCHANGED ticks

sys_sleep(p) ==
  /\ sleeper[p] = InUser
  /\ \E n \in Arguments : Run(p, [InUser EXCEPT !.ticks0 = ticks, !.n = n])

Resume(p) == sleeper[p].state = "runnable" /\ Run(p, sleeper[p])

\* kill(); the wakeup is the one of Proc.
Kill(p) ==
  /\ ~sleeper[p].killed
  /\ sleeper' = [sleeper EXCEPT ![p].killed = TRUE,
                                ![p].state = IF @ = "asleep" THEN "runnable" ELSE @]
  /\ UNCHANGED ticks

Next == Tick \/ \E p \in Proc : sys_sleep(p) \/ Resume(p) \/ Kill(p)

Spec == Init /\ [][Next]_vars

-----------------------------------------------------------------------------
\* sleep(n) lasts n ticks: who sleeps has slept less, and who is about to look
\* at the clock goes back to sleep just if it has, also when ticks wraps and
\* when the timer runs ahead of a process that waits for a CPU.  A negative n
\* counts as a very large one.
SleepsLong ==
  \A p \in Proc : LET s == sleeper[p] IN
    /\ s.state = "asleep" => s.elapsed < s.n % WORD /\ ~s.killed
    /\ s.state = "runnable" => (MustSleep(s) <=> s.elapsed < s.n % WORD)
=============================================================================
