-------------------------------- MODULE Proc --------------------------------
(***************************************************************************)
(* The process table of proc.c: fork, exit, wait, sleep, wakeup, kill,     *)
(* yield and the per-CPU scheduler, with the hand-over of ptable.lock      *)
(* across swtch().                                                         *)
(*                                                                         *)
(* Every CPU executes on one stack at a time: that of its scheduler loop   *)
(* or the kernel stack of a process.  A thread that gives up the CPU       *)
(* acquires ptable.lock, changes its p->state, and calls sched(); the lock *)
(* is released by the thread that swtch() arrives at.  Steps that run      *)
(* wholly under the lock are one action; a swtch(), and everything the     *)
(* code does without the lock, is a step of its own.                       *)
(*                                                                         *)
(* Not here: which RUNNABLE process the lottery picks, and tickets (module *)
(* Lottery); the lock a sleeper passes to sleep() (module Mailbox).        *)
(***************************************************************************)
EXTENDS Integers

CONSTANTS
  CPU,      \* cpus[0 .. ncpu-1]
  NoCPU,    \* ptable.lock is free
  NPROC,    \* slots of ptable.proc
  Chan,     \* wait channels other than struct proc addresses
  MaxPid    \* bound: the highest pid allocproc hands out

ASSUME NPROCAssumption == NPROC \in Nat \ {0}
ASSUME MaxPidAssumption == MaxPid \in Nat \ {0}
ASSUME NoCPUAssumption == NoCPU \notin CPU
ASSUME ChanAssumption == Chan \cap (0 .. NPROC) = {}

Slot == 1 .. NPROC
Null == 0                  \* the null struct proc pointer
initproc == 1              \* userinit() takes the first slot

VARIABLES
  state, pid, parent, chan, killed,  \* fields of struct proc, by slot
  kstack,     \* the slot owns a kernel stack
  pgdir,      \* "none", "live", or "freed": dangling after freevm()
  nextpid,
  lock,       \* the CPU that holds ptable.lock
  cproc,      \* c->proc
  thread,     \* whose stack c executes on; Null: its scheduler loop
  sw,         \* why a process is in sched(), or "none"
  saved,      \* p->context holds a context to resume
  pc,         \* where the process is outside sched()
  np,         \* fork()'s local np
  panicked    \* panic() was called: the machine is frozen

fields == <<state, pid, parent, chan, killed, kstack, pgdir, nextpid>>
cpus   == <<lock, cproc, thread>>
local  == <<sw, saved, pc, np>>
vars   == <<fields, cpus, local, panicked>>

States == {"UNUSED", "EMBRYO", "SLEEPING", "RUNNABLE", "RUNNING", "ZOMBIE"}
PCs    == {"user", "syscall", "fork_kalloc", "fork_copy", "fork_run", "exit"}
Why    == {"none", "forkret", "yield", "sleep", "wait", "exit"}

\* Table scans stop at the first match.
First(S) == CHOOSE q \in S : \A r \in S : q <= r

\* The kernel thread of p executes at l on c, outside sched().
At(c, p, l) == thread[c] = p /\ sw[p] = "none" /\ pc[p] = l

\* c has just switched to p, whose pending sched() call was made for reason w.
SwitchedTo(c, p, w) == thread[c] = p /\ sw[p] = w /\ saved[p]

\* sched(): p enters it on c with the lock held, for reason w.
sched(c, p, w) == lock' = c /\ sw' = [sw EXCEPT ![p] = w]

\* wakeup1() on each channel of W: every sleeper becomes RUNNABLE.
BugWakeupOne(W) ==
  LET sleepers == {q \in Slot : state[q] = "SLEEPING" /\ chan[q] \in W}
  IN  [q \in Slot |-> IF q \in sleepers /\ q = First(sleepers)
                      THEN "RUNNABLE" ELSE state[q]]
wakeup1(W) ==
  [q \in Slot |-> IF state[q] = "SLEEPING" /\ chan[q] \in W
                  THEN "RUNNABLE" ELSE state[q]]

\* kfree(p->kstack); p->kstack = 0
BugKstackLeaked(q) == kstack
KstackFreed(q) == [kstack EXCEPT ![q] = FALSE]

-----------------------------------------------------------------------------
(* userinit() has made the first process and every CPU is in scheduler(). *)

\* int nextpid = 1, taken by the first process.
FirstPid == 1

Init ==
  /\ state = [p \in Slot |-> IF p = initproc THEN "RUNNABLE" ELSE "UNUSED"]
  /\ pid = [p \in Slot |-> IF p = initproc THEN FirstPid ELSE 0]
  /\ parent = [p \in Slot |-> Null]
  /\ chan = [p \in Slot |-> Null]
  /\ killed = [p \in Slot |-> FALSE]
  /\ kstack = [p \in Slot |-> p = initproc]
  /\ pgdir = [p \in Slot |-> IF p = initproc THEN "live" ELSE "none"]
  /\ nextpid = FirstPid + 1
  /\ lock = NoCPU
  /\ cproc = [c \in CPU |-> Null]
  /\ thread = [c \in CPU |-> Null]
  /\ sw = [p \in Slot |-> IF p = initproc THEN "forkret" ELSE "none"]
  /\ saved = [p \in Slot |-> p = initproc]
  /\ pc = [p \in Slot |-> "user"]
  /\ np = [p \in Slot |-> Null]
  /\ panicked = FALSE

-----------------------------------------------------------------------------
(* trap(): a system call checks killed on entry; the check on the way out  *)
(* and the one of an interrupt from user space are the next Trap of a      *)
(* process that does nothing in between.  A fault sets killed and exits.   *)

Trap(c, p) ==
  /\ At(c, p, "user")
  /\ \/ ~killed[p] /\ pc' = [pc EXCEPT ![p] = "syscall"] /\ UNCHANGED killed
     \/ pc' = [pc EXCEPT ![p] = "exit"] /\ killed' = [killed EXCEPT ![p] = TRUE]
  /\ UNCHANGED <<state, pid, parent, chan, kstack, pgdir, nextpid,
                 cpus, sw, saved, np, panicked>>

\* exit() as a system call.
SysExit(c, p) ==
  /\ At(c, p, "syscall")
  /\ pc' = [pc EXCEPT ![p] = "exit"]
  /\ UNCHANGED <<fields, cpus, sw, saved, np, panicked>>

-----------------------------------------------------------------------------
(* fork().  allocproc() claims a slot under the lock; the stack, the page  *)
(* table and the parent are filled in without it, and an allocation that   *)
(* fails gives the slot back without it, its pid left behind.              *)

ForkAlloc(c, p) ==
  LET free == {q \in Slot : state[q] = "UNUSED"} IN
  /\ At(c, p, "syscall") /\ lock = NoCPU
  /\ \/ /\ free = {}
        /\ pc' = [pc EXCEPT ![p] = "user"]
        /\ UNCHANGED <<state, pid, nextpid, np>>
     \/ /\ free # {} /\ nextpid <= MaxPid
        /\ state' = [state EXCEPT ![First(free)] = "EMBRYO"]
        /\ pid' = [pid EXCEPT ![First(free)] = nextpid]
        /\ nextpid' = nextpid + 1
        /\ np' = [np EXCEPT ![p] = First(free)]
        /\ pc' = [pc EXCEPT ![p] = "fork_kalloc"]
  /\ UNCHANGED <<parent, chan, killed, kstack, pgdir, cpus, sw, saved, panicked>>

\* kalloc() of the kernel stack, laid out so that swtch() enters forkret.
ForkKalloc(c, p) ==
  LET q == np[p] IN
  /\ At(c, p, "fork_kalloc")
  /\ \/ /\ kstack' = [kstack EXCEPT ![q] = TRUE]
        /\ sw' = [sw EXCEPT ![q] = "forkret"]
        /\ saved' = [saved EXCEPT ![q] = TRUE]
        /\ pc' = [pc EXCEPT ![p] = "fork_copy", ![q] = "user"]
        /\ UNCHANGED <<state, np>>
     \/ /\ state' = [state EXCEPT ![q] = "UNUSED"]
        /\ pc' = [pc EXCEPT ![p] = "user"]
        /\ np' = [np EXCEPT ![p] = Null]
        /\ UNCHANGED <<kstack, sw, saved>>
  /\ UNCHANGED <<pid, parent, chan, killed, pgdir, nextpid, cpus, panicked>>

\* copyuvm(), then np->parent and the rest of the child's fields.
ForkCopy(c, p) ==
  LET q == np[p] IN
  /\ At(c, p, "fork_copy")
  /\ \/ /\ pgdir' = [pgdir EXCEPT ![q] = "live"]
        /\ parent' = [parent EXCEPT ![q] = p]
        /\ pc' = [pc EXCEPT ![p] = "fork_run"]
        /\ UNCHANGED <<state, kstack, sw, saved, np>>
     \/ /\ pgdir' = [pgdir EXCEPT ![q] = "none"]
        /\ kstack' = KstackFreed(q)
        /\ sw' = [sw EXCEPT ![q] = "none"]
        /\ saved' = [saved EXCEPT ![q] = FALSE]
        /\ state' = [state EXCEPT ![q] = "UNUSED"]
        /\ pc' = [pc EXCEPT ![p] = "user"]
        /\ np' = [np EXCEPT ![p] = Null]
        /\ UNCHANGED parent
  /\ UNCHANGED <<pid, chan, killed, nextpid, cpus, panicked>>

ForkRun(c, p) ==
  /\ At(c, p, "fork_run") /\ lock = NoCPU
  /\ state' = [state EXCEPT ![np[p]] = "RUNNABLE"]
  /\ pc' = [pc EXCEPT ![p] = "user"]
  /\ np' = [np EXCEPT ![p] = Null]
  /\ UNCHANGED <<pid, parent, chan, killed, kstack, pgdir, nextpid,
                 cpus, sw, saved, panicked>>

-----------------------------------------------------------------------------
(* exit(): wake the parent, give the children to init, become a ZOMBIE and *)
(* enter sched() with the lock held.                                       *)

\* The channels exit() wakes: the parent, and init if it inherits a zombie.
BugWakeInitOnly(p) ==
  {initproc : q \in {r \in Slot : parent[r] = p /\ state[r] = "ZOMBIE"}}
WokenByExit(p) ==
  {parent[p]} \cup
  {initproc : q \in {r \in Slot : parent[r] = p /\ state[r] = "ZOMBIE"}}

BugKeepChildren(p) == [parent EXCEPT ![p] = @]
Reparented(p) ==
  [q \in Slot |-> IF parent[q] = p THEN initproc ELSE parent[q]]

Exit(c, p) ==
  /\ At(c, p, "exit") /\ p # initproc /\ lock = NoCPU
  /\ state' = [wakeup1(WokenByExit(p)) EXCEPT ![p] = "ZOMBIE"]
  /\ parent' = Reparented(p)
  /\ sched(c, p, "exit")
  /\ UNCHANGED <<pid, chan, killed, kstack, pgdir, nextpid, cproc, thread,
                 saved, pc, np, panicked>>

\* panic("init exiting")
InitExits(c) ==
  /\ At(c, initproc, "exit")
  /\ panicked' = TRUE
  /\ UNCHANGED <<fields, cpus, local>>

-----------------------------------------------------------------------------
(* wait(): one scan of the table under the lock, from the system call or   *)
(* from a return of sleep(curproc, &ptable.lock).                          *)

Zombies(p) == {q \in Slot : parent[q] = p /\ state[q] = "ZOMBIE"}

\* Free the first zombie child.
WaitReap(p, q) ==
  /\ q = First(Zombies(p))
  /\ kstack' = KstackFreed(q)
  /\ pgdir' = [pgdir EXCEPT ![q] = "freed"]
  /\ pid' = [pid EXCEPT ![q] = 0]
  /\ parent' = [parent EXCEPT ![q] = Null]
  /\ killed' = [killed EXCEPT ![q] = FALSE]
  /\ state' = [state EXCEPT ![q] = "UNUSED"]
  /\ lock' = NoCPU
  /\ chan' = [chan EXCEPT ![p] = Null]
  /\ sw' = [sw EXCEPT ![p] = "none", ![q] = "none"]
  /\ saved' = [saved EXCEPT ![p] = FALSE, ![q] = FALSE]
  /\ pc' = [pc EXCEPT ![p] = "user", ![q] = "user"]

\* !havekids || curproc->killed
BugIgnoreKilled(p) == \A q \in Slot : parent[q] # p
NoPointWaiting(p) == killed[p] \/ \A q \in Slot : parent[q] # p

\* No children, or killed: return -1.
WaitFail(p) ==
  /\ Zombies(p) = {} /\ NoPointWaiting(p)
  /\ lock' = NoCPU
  /\ chan' = [chan EXCEPT ![p] = Null]
  /\ sw' = [sw EXCEPT ![p] = "none"]
  /\ saved' = [saved EXCEPT ![p] = FALSE]
  /\ pc' = [pc EXCEPT ![p] = "user"]
  /\ UNCHANGED <<state, pid, parent, killed, kstack, pgdir>>

\* sleep(curproc, &ptable.lock)
WaitSleep(c, p) ==
  /\ Zombies(p) = {} /\ ~NoPointWaiting(p)
  /\ chan' = [chan EXCEPT ![p] = p]
  /\ state' = [state EXCEPT ![p] = "SLEEPING"]
  /\ sched(c, p, "wait")
  /\ saved' = [saved EXCEPT ![p] = FALSE]
  /\ UNCHANGED <<pid, parent, killed, kstack, pgdir, pc>>

Wait(c, p) ==
  /\ \/ At(c, p, "syscall") /\ lock = NoCPU
     \/ SwitchedTo(c, p, "wait")
  /\ \/ \E q \in Zombies(p) : WaitReap(p, q)
     \/ WaitFail(p)
     \/ WaitSleep(c, p)
  /\ UNCHANGED <<nextpid, cproc, thread, np, panicked>>

-----------------------------------------------------------------------------
(* sleep() on a channel with another lock than ptable.lock, yield(), and   *)
(* what each does when the scheduler switches back to it.                  *)

Sleep(c, p, ch) ==
  /\ At(c, p, "syscall") \/ At(c, p, "exit")
  /\ lock = NoCPU
  /\ chan' = [chan EXCEPT ![p] = ch]
  /\ state' = [state EXCEPT ![p] = "SLEEPING"]
  /\ sched(c, p, "sleep")
  /\ UNCHANGED <<pid, parent, killed, kstack, pgdir, nextpid, cproc, thread,
                 saved, pc, np, panicked>>

SleepReturn(c, p) ==
  /\ SwitchedTo(c, p, "sleep")
  /\ chan' = [chan EXCEPT ![p] = Null]
  /\ lock' = NoCPU
  /\ sw' = [sw EXCEPT ![p] = "none"]
  /\ saved' = [saved EXCEPT ![p] = FALSE]
  /\ UNCHANGED <<state, pid, parent, killed, kstack, pgdir, nextpid, cproc,
                 thread, pc, np, panicked>>

\* A system call that has done its work returns to user space.
SysReturn(c, p) ==
  /\ At(c, p, "syscall")
  /\ pc' = [pc EXCEPT ![p] = "user"]
  /\ UNCHANGED <<fields, cpus, sw, saved, np, panicked>>

\* By the timer, wherever no lock is held, or by the system call.
Yield(c, p) ==
  /\ thread[c] = p /\ sw[p] = "none" /\ lock = NoCPU
  /\ state' = [state EXCEPT ![p] = "RUNNABLE"]
  /\ sched(c, p, "yield")
  /\ UNCHANGED <<pid, parent, chan, killed, kstack, pgdir, nextpid, cproc,
                 thread, saved, pc, np, panicked>>

\* The end of yield(), and forkret(): release the lock scheduler() acquired.
BugKeepLock(c, p) ==
  /\ SwitchedTo(c, p, "yield") \/ SwitchedTo(c, p, "forkret")
  /\ sw' = [sw EXCEPT ![p] = "none"]
  /\ saved' = [saved EXCEPT ![p] = FALSE]
  /\ UNCHANGED <<fields, cpus, pc, np, panicked>>
SchedReturn(c, p) ==
  /\ SwitchedTo(c, p, "yield") \/ SwitchedTo(c, p, "forkret")
  /\ lock' = NoCPU
  /\ sw' = [sw EXCEPT ![p] = "none"]
  /\ saved' = [saved EXCEPT ![p] = FALSE]
  /\ UNCHANGED <<fields, cproc, thread, pc, np, panicked>>

-----------------------------------------------------------------------------
(* wakeup(), by a system call or an interrupt handler; kill().             *)

Wakeup(ch) ==
  /\ lock = NoCPU
  /\ state' = wakeup1({ch})
  /\ UNCHANGED <<pid, parent, chan, killed, kstack, pgdir, nextpid,
                 cpus, local, panicked>>

\* Wake process from sleep if necessary.
BugKillAlwaysWakes(q) == "RUNNABLE"
StateOnceKilled(q) == IF state[q] = "SLEEPING" THEN "RUNNABLE" ELSE state[q]

\* Any slot with the pid will do, whatever its state.
Kill(c, p, n) ==
  LET hits == {q \in Slot : pid[q] = n}
      q == First(hits)
  IN
  /\ At(c, p, "syscall") /\ lock = NoCPU
  /\ pc' = [pc EXCEPT ![p] = "user"]
  /\ \/ hits = {} /\ UNCHANGED <<killed, state>>
     \/ /\ hits # {}
        /\ killed' = [killed EXCEPT ![q] = TRUE]
        /\ state' = [state EXCEPT ![q] = StateOnceKilled(q)]
  /\ UNCHANGED <<pid, parent, chan, kstack, pgdir, nextpid,
                 cpus, sw, saved, np, panicked>>

-----------------------------------------------------------------------------
(* The scheduler loop of a CPU, and the swtch() of sched().                *)

\* What the scheduler may switch to.
BugRunnable == {p \in Slot : state[p] \in {"RUNNABLE", "RUNNING"}}
Runnable == {p \in Slot : state[p] = "RUNNABLE"}

\* The lottery picks some RUNNABLE process: switch to it, lock held.
Pick(c, p) ==
  /\ thread[c] = Null /\ cproc[c] = Null /\ lock = NoCPU
  /\ p \in Runnable
  /\ lock' = c
  /\ cproc' = [cproc EXCEPT ![c] = p]
  /\ thread' = [thread EXCEPT ![c] = p]
  /\ state' = [state EXCEPT ![p] = "RUNNING"]
  /\ UNCHANGED <<pid, parent, chan, killed, kstack, pgdir, nextpid,
                 local, panicked>>

\* A round that finds nobody RUNNABLE.
Idle(c) ==
  /\ thread[c] = Null /\ cproc[c] = Null /\ lock = NoCPU
  /\ Runnable = {}
  /\ UNCHANGED vars

\* sched() of p switches to the scheduler of its CPU.
Swtch(c, p) ==
  /\ thread[c] = p /\ sw[p] # "none" /\ ~saved[p]
  /\ saved' = [saved EXCEPT ![p] = TRUE]
  /\ thread' = [thread EXCEPT ![c] = Null]
  /\ UNCHANGED <<fields, lock, cproc, sw, pc, np, panicked>>

\* Back in scheduler(): forget the process, release the lock.
SwitchedBack(c) ==
  /\ thread[c] = Null /\ cproc[c] # Null
  /\ cproc' = [cproc EXCEPT ![c] = Null]
  /\ lock' = NoCPU
  /\ UNCHANGED <<fields, thread, local, panicked>>

-----------------------------------------------------------------------------
ProcStep(c, p) ==
  \/ Trap(c, p) \/ SysExit(c, p) \/ SysReturn(c, p)
  \/ ForkAlloc(c, p) \/ ForkKalloc(c, p) \/ ForkCopy(c, p) \/ ForkRun(c, p)
  \/ Exit(c, p) \/ Wait(c, p)
  \/ \E ch \in Chan : Sleep(c, p, ch)
  \/ SleepReturn(c, p) \/ Yield(c, p) \/ SchedReturn(c, p)
  \/ \E n \in 0 .. MaxPid : Kill(c, p, n)
  \/ Pick(c, p) \/ Swtch(c, p)

Step ==
  \/ \E c \in CPU, p \in Slot : ProcStep(c, p)
  \/ \E c \in CPU : Idle(c) \/ SwitchedBack(c) \/ InitExits(c)
  \/ \E ch \in Chan : Wakeup(ch)

\* A panic freezes the machine.
Next ==
  \/ ~panicked /\ Step
  \/ panicked /\ UNCHANGED vars

Spec == Init /\ [][Next]_vars

TypeOK ==
  /\ state \in [Slot -> States]
  /\ pid \in [Slot -> 0 .. MaxPid]
  /\ parent \in [Slot -> Slot \cup {Null}]
  /\ chan \in [Slot -> Chan \cup Slot \cup {Null}]
  /\ killed \in [Slot -> BOOLEAN]
  /\ kstack \in [Slot -> BOOLEAN]
  /\ pgdir \in [Slot -> {"none", "live", "freed"}]
  /\ nextpid \in 2 .. MaxPid + 1
  /\ lock \in CPU \cup {NoCPU}
  /\ cproc \in [CPU -> Slot \cup {Null}]
  /\ thread \in [CPU -> Slot \cup {Null}]
  /\ sw \in [Slot -> Why]
  /\ saved \in [Slot -> BOOLEAN]
  /\ pc \in [Slot -> PCs]
  /\ np \in [Slot -> Slot \cup {Null}]
  /\ panicked \in BOOLEAN

-----------------------------------------------------------------------------
(* Safety. *)

\* No two CPUs ever execute on the same kernel stack: a process that gives up
\* its CPU keeps ptable.lock until swtch() has left its stack, so scheduler()
\* on another CPU cannot pick it before.
StackExclusive ==
  \A c, d \in CPU : thread[c] # Null /\ thread[c] = thread[d] => c = d

\* A kernel stack or page table is never freed, or its slot given away, while
\* a CPU still executes on it: exit() holds the lock until it is off the
\* stack, and only then can wait() of the parent kfree() it.
StackLive ==
  \A c \in CPU : thread[c] # Null =>
    /\ cproc[c] = thread[c]           \* myproc() is the running process
    /\ kstack[thread[c]] /\ pgdir[thread[c]] = "live"

\* A CPU has the kernel stack it executes on to itself and as long as it needs
\* it: StackExclusive and StackLive.
StackSafe == StackExclusive /\ StackLive

\* The lock changes hands with swtch(): in sched() and right after a switch,
\* in either direction, the CPU holds ptable.lock, and nowhere else.  Otherwise
\* sched() panics ("sched ptable.lock", "sched running") or release() does.
HandOver ==
  \A c \in CPU :
    lock = c <=> \/ thread[c] # Null /\ sw[thread[c]] # "none"
                 \/ thread[c] = Null /\ cproc[c] # Null

\* With the lock free the table tells the truth: a process is RUNNING exactly
\* if a CPU executes it, and one that is RUNNABLE, SLEEPING or a ZOMBIE has
\* left its stack with its context saved.
TableMatchesCPUs ==
  lock = NoCPU => \A p \in Slot :
    /\ state[p] = "RUNNING" <=> \E c \in CPU : thread[c] = p
    /\ state[p] \in {"RUNNABLE", "SLEEPING", "ZOMBIE"} => sw[p] # "none" /\ saved[p]

\* fork(), exit() and wait() leak nothing and lose nothing on any path,
\* failed allocations included: an UNUSED slot owns no stack and no page
\* table, a process that may run or be reaped owns both.
MemoryOwned ==
  \A p \in Slot :
    /\ state[p] = "UNUSED" => ~kstack[p] /\ pgdir[p] # "live"
    /\ state[p] \notin {"UNUSED", "EMBRYO"} => kstack[p] /\ pgdir[p] = "live"

\* Every process but init has a parent that can still call wait(): exit()
\* hands over children it abandons, zombies included.
ParentAlive ==
  \A p \in Slot \ {initproc} : state[p] \notin {"UNUSED", "EMBRYO"} =>
    parent[p] # Null /\ state[parent[p]] \in {"RUNNABLE", "RUNNING", "SLEEPING"}

\* No exit is missed: a parent asleep in wait() has no zombie child, even one
\* it inherited from another parent that exited in between.
NoMissedExit ==
  \A p \in Slot : state[p] = "SLEEPING" /\ sw[p] = "wait" => Zombies(p) = {}

\* No kill is missed by wait(): it checks killed under the lock that kill()
\* sets it under, so a killed process is never left asleep there.
NoMissedKill ==
  \A p \in Slot : state[p] = "SLEEPING" /\ sw[p] = "wait" => ~killed[p]

\* Whatever a parent sleeps in wait() for wakes it: an exit, or a kill.
NothingMissed == NoMissedExit /\ NoMissedKill

\* Implementation of SleepWakeup by the table's state and chan fields.
asleep == [p \in Slot |-> IF state[p] = "SLEEPING" THEN chan[p] ELSE Null]

SW == INSTANCE SleepWakeup WITH
        Process <- Slot, Channel <- Chan \cup Slot, Awake <- Null

\* sleep(), wakeup(), exit(), wait() and kill() keep the promise of
\* SleepWakeup: a sleeper stays until a wakeup of its channel or a kill, and
\* a wakeup reaches every sleeper.
SleepWakeupSpec == SW!Spec

\* allocproc() "initialize[s] state required to run": a process that has
\* just been allocated has not been killed.
BornAlive ==
  [][\A p \in Slot : state[p] = "UNUSED" /\ state'[p] = "EMBRYO" => ~killed'[p]]_vars

-----------------------------------------------------------------------------
(* Liveness, under the scheduling the code arranges for. *)

Fairness ==
  /\ \A p \in Slot :
       /\ SF_vars(\E c \in CPU : Pick(c, p))      \* the lottery
       /\ SF_vars(\E c \in CPU : Yield(c, p))     \* the timer
       /\ WF_vars(\E c \in CPU : Swtch(c, p) \/ SchedReturn(c, p) \/ SleepReturn(c, p))
  /\ \A c \in CPU : WF_vars(SwitchedBack(c))
  /\ \A ch \in Chan : SF_vars(Wakeup(ch))         \* what init waits for comes
  /\ SF_vars(\E c \in CPU :                       \* init gets on when it runs
       \/ Trap(c, initproc) \/ ForkKalloc(c, initproc) \/ ForkCopy(c, initproc)
       \/ ForkRun(c, initproc) \/ InitExits(c))
  /\ SF_vars(\E c \in CPU : Wait(c, initproc))    \* init.c loops on wait()

FairSpec == Spec /\ Fairness

\* Orphans do not pile up: a zombie that init has inherited, or is the parent
\* of, is eventually reaped (unless init exits and the machine panics).
OrphansReaped ==
  \A p \in Slot :
    (state[p] = "ZOMBIE" /\ parent[p] = initproc)
      ~> (state[p] = "UNUSED" \/ panicked)

=============================================================================
