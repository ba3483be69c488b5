---------------------------- MODULE MCInterrupts ----------------------------
(***************************************************************************)
(* What interrupts do, in four machines side by side: spinlocks with two   *)
(* CPUs, the console, the clock and the keyboard.  A behaviour is of one.  *)
(***************************************************************************)
EXTENDS Integers, TLC

CONSTANTS CPU, Proc, Reader, CPU0, None, INPUT_BUF, WORD, ROWS, COLS, uart, Counts, MaxWrites,
          Arguments, MaxDelay, MaxHeld

VARIABLES
  machine,
  cur, IF_, ncli, intena, locked, lkcpu, stack, kept, panicked,
  input, screen, reads, killed, writes,
  ticks, sleeper,
  shift, last, held, sent

Locks == INSTANCE Spinlock
Cons  == INSTANCE Console WITH Proc <- Reader
Time  == INSTANCE Clock
Kbd   == INSTANCE Keyboard

lockVars    == <<cur, IF_, ncli, intena, locked, lkcpu, stack, kept, panicked>>
consoleVars == <<input, screen, reads, killed, writes>>
clockVars   == <<ticks, sleeper>>
kbdVars     == <<shift, last, held, sent>>

Init ==
  /\ machine \in {"locks", "console", "clock", "keyboard"}
  /\ Locks!Init /\ Cons!Init /\ Time!Init /\ Kbd!Init
  /\ machine # "console" => screen.pos = 0

Next ==
  \/ /\ machine = "locks" /\ Locks!Next
     /\ UNCHANGED <<machine, consoleVars, clockVars, kbdVars>>
  \/ /\ machine = "console" /\ Cons!Next
     /\ UNCHANGED <<machine, lockVars, clockVars, kbdVars>>
  \/ /\ machine = "clock" /\ Time!Next
     /\ UNCHANGED <<machine, lockVars, consoleVars, kbdVars>>
  \/ /\ machine = "keyboard" /\ Kbd!Next
     /\ UNCHANGED <<machine, lockVars, consoleVars, clockVars>>

Spec == Init /\ [][Next]_<<machine, lockVars, consoleVars, clockVars, kbdVars>>

\* Spinlock: locks, interrupts and switches are matched.
InterruptsMatched == Locks!InterruptsMatched


\* Console: the line being edited is on the screen.
EchoShown == Cons!EchoShown

\* Console: the ring implements LineDiscipline.
LineSpec == Cons!LineSpec

\* Keyboard: no modifier is stuck, no key is mistaken for another.
ModifiersHeld == Kbd!ModifiersHeld

\* A negative argument is a large one: 3 here.
Ints == {-3, 0, 1, 2}
Symmetry == Permutations(Proc)
=============================================================================
