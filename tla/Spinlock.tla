------------------------------ MODULE Spinlock ------------------------------
(***************************************************************************)
(* Spinlocks and interrupts: spinlock.c, the interrupt flag across trap()  *)
(* and iret, and across the switches of sched() and scheduler().           *)
(*                                                                         *)
(* What a kernel path does is reduced to its locks.  An interrupt puts a   *)
(* path of its own on top of the one it finds; a context is the stack of   *)
(* paths of a process, or of the scheduler of a CPU.                       *)
(***************************************************************************)
EXTENDS Naturals, Sequences, FiniteSets

CONSTANTS
  CPU, Proc,
  CPU0,      \* the CPU that counts ticks and has the console's interrupts
  None

Lock == {"ptable", "tickslock", "cons"}
Context == Proc \cup CPU       \* a CPU stands for its scheduler()

VARIABLES
  cur,           \* the context each CPU executes
  IF_,           \* FL_IF of each CPU
  ncli, intena,  \* struct cpu
  locked, lkcpu, \* struct spinlock
  stack,         \* of each context, the path on top first
  kept,          \* intena in the frame of sched(), for each process
  panicked

cpus  == <<IF_, ncli, intena>>
locks == <<locked, lkcpu>>
vars  == <<cur, cpus, locks, stack, kept, panicked>>

\* A path: the operations to come, where it is in the first of them, the IF
\* that pushcli() has read, and the IF that the path runs with.
Acq(l) == [op |-> "acquire", lk |-> l]
Rel(l) == [op |-> "release", lk |-> l]
Do(o)  == [op |-> o]
Path(ops, on) == [ops |-> ops, at |-> "start", eflags |-> FALSE, if |-> on]

-----------------------------------------------------------------------------
(* Paths *)

\* wakeup(), called with a lock held.
WakeupUnder(l) == <<Acq(l), Acq("ptable"), Rel("ptable"), Rel(l)>>

\* sleep(chan, lk) and the end of its caller.
SleepUnder(l) == <<Acq(l), Acq("ptable"), Rel(l), Do("sched"), Do("restore"),
                   Rel("ptable"), Acq(l), Rel(l)>>

yield == <<Acq("ptable"), Do("sched"), Do("restore"), Rel("ptable")>>

\* forkret(), where a new process begins.
forkret == <<Rel("ptable")>>

scheduler == <<Do("sti"), Acq("ptable"), Do("pick"), Rel("ptable")>>

\* trap(): the timer, which makes a process yield, and the keyboard.
Timer(c) == (IF c = CPU0 THEN WakeupUnder("tickslock") ELSE <<>>)
            \o (IF cur[c] \in Proc THEN yield ELSE <<>>)
consoleintr == WakeupUnder("cons")

-----------------------------------------------------------------------------
\* main() ends in scheduler() on every CPU; processes are new.
Init ==
  /\ cur = [c \in CPU |-> c]
  /\ IF_ = [c \in CPU |-> FALSE]
  /\ ncli = [c \in CPU |-> 0]
  /\ intena = [c \in CPU |-> FALSE]
  /\ locked = [l \in Lock |-> FALSE]
  /\ lkcpu = [l \in Lock |-> None]
  /\ stack = [x \in Context |-> IF x \in CPU THEN <<Path(scheduler, TRUE)>>
                                ELSE <<Path(forkret, TRUE)>>]
  /\ kept = [p \in Proc |-> FALSE]
  /\ panicked = FALSE

Top(c) == Head(stack[cur[c]])
At(c, op, at) ==
  /\ stack[cur[c]] # <<>> /\ Top(c).ops # <<>>
  /\ Head(Top(c).ops).op = op /\ Top(c).at = at
Lk(c) == Head(Top(c).ops).lk

SetTop(c, f) == stack' = [stack EXCEPT ![cur[c]] = <<f>> \o Tail(@)]
Step(c, at) == SetTop(c, [Top(c) EXCEPT !.at = at])
Done(c) == SetTop(c, [Top(c) EXCEPT !.ops = Tail(@), !.at = "start"])

holding(c, l) == locked[l] /\ lkcpu[l] = c

-----------------------------------------------------------------------------
(* acquire() *)

\* pushcli() reads eflags; an interrupt, and even a switch to another CPU, may
\* come before its cli().
ReadEflags(c) ==
  /\ At(c, "acquire", "start")
  /\ SetTop(c, [Top(c) EXCEPT !.at = "cli", !.eflags = IF_[c]])
  /\ UNCHANGED <<cur, cpus, locks, kept, panicked>>

\* Only the outermost pushcli() keeps what it has read.
KeptByPush(c) == IF ncli[c] = 0 THEN Top(c).eflags ELSE intena[c]
PushCli(c) ==
  /\ At(c, "acquire", "cli")
  /\ IF_' = [IF_ EXCEPT ![c] = FALSE]
  /\ intena' = [intena EXCEPT ![c] = KeptByPush(c)]
  /\ ncli' = [ncli EXCEPT ![c] = @ + 1]
  /\ panicked' = holding(c, Lk(c))
  /\ Step(c, "xchg")
  /\ UNCHANGED <<cur, locks, kept>>

\* The lock's cpu is set a little later; only this CPU could tell.
Xchg(c) ==
  /\ At(c, "acquire", "xchg") /\ ~locked[Lk(c)]
  /\ locked' = [locked EXCEPT ![Lk(c)] = TRUE]
  /\ lkcpu' = [lkcpu EXCEPT ![Lk(c)] = c]
  /\ Done(c)
  /\ UNCHANGED <<cur, cpus, kept, panicked>>

\* release() and its popcli(): the other CPUs see only that locked becomes 0.
popcli(c) ==
  /\ ncli' = [ncli EXCEPT ![c] = IF @ = 0 THEN 0 ELSE @ - 1]
  /\ IF_' = [IF_ EXCEPT ![c] = @ \/ (ncli[c] = 1 /\ intena[c])]
PopPanics(c) == IF_[c] \/ ncli[c] = 0

Release(c) ==
  /\ At(c, "release", "start")
  /\ panicked' = (~holding(c, Lk(c)) \/ PopPanics(c))
  /\ lkcpu' = [lkcpu EXCEPT ![Lk(c)] = None]
  /\ locked' = [locked EXCEPT ![Lk(c)] = FALSE]
  /\ popcli(c)
  /\ Done(c)
  /\ UNCHANGED <<cur, intena, kept>>

-----------------------------------------------------------------------------
(* Switches *)

\* sched() checks that ptable.lock is the only lock, and keeps intena: "it is a
\* property of this kernel thread, not this CPU".
Sched(c) ==
  /\ At(c, "sched", "start")
  /\ panicked' = (~holding(c, "ptable") \/ ncli[c] # 1 \/ IF_[c])
  /\ kept' = [kept EXCEPT ![cur[c]] = intena[c]]
  /\ cur' = [cur EXCEPT ![c] = c]
  /\ Done(c)
  /\ UNCHANGED <<cpus, locks>>

\* The end of sched(), on whatever CPU.
\* Mutant: the CPU's intena is left as it is.
BugRestore(c) ==
  /\ At(c, "restore", "start")
  /\ Done(c)
  /\ UNCHANGED <<cur, cpus, locks, kept, panicked>>
Restore(c) ==
  /\ At(c, "restore", "start")
  /\ intena' = [intena EXCEPT ![c] = kept[cur[c]]]
  /\ Done(c)
  /\ UNCHANGED <<cur, IF_, ncli, locks, kept, panicked>>

Sti(c) ==
  /\ At(c, "sti", "start")
  /\ IF_' = [IF_ EXCEPT ![c] = TRUE]
  /\ Done(c)
  /\ UNCHANGED <<cur, ncli, intena, locks, kept, panicked>>

\* scheduler() switches to a process that is switched out (Proc says which), or
\* finds none.
Pick(c) ==
  /\ At(c, "pick", "start")
  /\ Done(c)
  /\ \E x \in {c} \cup {p \in Proc : \A d \in CPU : cur[d] # p} :
       cur' = [cur EXCEPT ![c] = x]
  /\ UNCHANGED <<cpus, locks, kept, panicked>>

\* The end of a path: scheduler() loops; others return to where they came from,
\* with interrupts on.
Return(c) ==
  /\ stack[cur[c]] # <<>> /\ Top(c).ops = <<>>
  /\ IF cur[c] = c /\ Len(stack[c]) = 1
     THEN SetTop(c, Path(scheduler, TRUE)) /\ UNCHANGED IF_
     ELSE /\ stack' = [stack EXCEPT ![cur[c]] = Tail(@)]
          /\ IF_' = [IF_ EXCEPT ![c] = TRUE]
  /\ UNCHANGED <<cur, ncli, intena, locks, kept, panicked>>

-----------------------------------------------------------------------------
(* Traps *)

\* A system call comes through a trap gate, which leaves interrupts on.
SysCall(c) ==
  /\ stack[cur[c]] = <<>>
  /\ \E ops \in {WakeupUnder("cons"), SleepUnder("cons")} :
       stack' = [stack EXCEPT ![cur[c]] = <<Path(ops, TRUE)>>]
  /\ UNCHANGED <<cur, cpus, locks, kept, panicked>>

\* An interrupt, through a gate that turns them off.
Interrupt(c) ==
  /\ IF_[c]
  /\ IF_' = [IF_ EXCEPT ![c] = FALSE]
  /\ \E ops \in {Timer(c)} \cup (IF c = CPU0 THEN {consoleintr} ELSE {}) :
       stack' = [stack EXCEPT ![cur[c]] = <<Path(ops, FALSE)>> \o @]
  /\ UNCHANGED <<cur, ncli, intena, locks, kept, panicked>>

CpuStep(c) ==
  \/ ReadEflags(c) \/ PushCli(c) \/ Xchg(c) \/ Release(c)
  \/ Sched(c) \/ Restore(c) \/ Sti(c) \/ Pick(c) \/ Return(c)
  \/ SysCall(c) \/ Interrupt(c)

Next == ~panicked /\ \E c \in CPU : CpuStep(c)

Spec == Init /\ [][Next]_vars

-----------------------------------------------------------------------------
(* Properties *)

\* The locks that the code on a CPU has taken, and the one it is taking.
Held(c) == {l \in Lock : holding(c, l)}
Taking(c) == IF At(c, "acquire", "xchg") THEN 1 ELSE 0

\* pushcli() and popcli() are matched, whatever interrupts, yields and moves to
\* other CPUs come in between: ncli counts the CPU's locks, nothing can be
\* interrupted while it has one, a path without locks has the interrupts it
\* began with (the scheduler's after its sti()), and no check of acquire(),
\* release(), popcli() or sched() panics.
InterruptsMatched ==
  /\ ~panicked
  /\ \A c \in CPU :
       /\ ncli[c] = Cardinality(Held(c)) + Taking(c)
       /\ ncli[c] > 0 => ~IF_[c]
       /\ ncli[c] = 0 => IF_[c] = (IF stack[cur[c]] = <<>> THEN TRUE ELSE Top(c).if)
                         \/ (cur[c] = c /\ Len(stack[c]) = 1)
=============================================================================
