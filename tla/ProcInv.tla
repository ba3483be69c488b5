------------------------------ MODULE ProcInv -------------------------------
(***************************************************************************)
(* The inductive invariant of module Proc, for any number of CPUs and      *)
(* process slots, its type part, and what it says of a process that        *)
(* executes.                                                               *)
(*                                                                         *)
(* It says, for every CPU, in which phase of a switch it is (CPUInv,       *)
(* Exclusive), for every process that no CPU is concerned with, how its    *)
(* state and its saved context agree (TableInv), what a fork() in progress *)
(* owns (ForkInv), what the family tree looks like (TreeInv), and on what  *)
(* a process in wait() sleeps (WaitInv).                                   *)
(***************************************************************************)
EXTENDS Proc, WellFoundedInduction, TLAPS

\* The state a process has given itself when it calls sched().
GaveUp(p) ==
  \/ sw[p] = "yield" /\ state[p] = "RUNNABLE"
  \/ sw[p] \in {"sleep", "wait"} /\ state[p] = "SLEEPING"
  \/ sw[p] = "exit" /\ state[p] = "ZOMBIE"

\* On its stack; switched to, lock held; or leaving, lock held.
Runs(c, p)    == thread[c] = p /\ sw[p] = "none" /\ ~saved[p] /\ state[p] = "RUNNING" /\ lock # c
Resumes(c, p) == thread[c] = p /\ sw[p] \notin {"none", "exit"} /\ saved[p]
                   /\ state[p] = "RUNNING" /\ lock = c
Leaves(c, p)  == /\ (thread[c] = p /\ ~saved[p]) \/ (thread[c] = Null /\ saved[p])
                 /\ GaveUp(p) /\ lock = c

CPUInv ==
  \A c \in CPU :
    /\ thread[c] # Null => cproc[c] = thread[c]
    /\ cproc[c] = Null => lock # c
    /\ cproc[c] # Null => \/ Runs(c, cproc[c])
                          \/ Resumes(c, cproc[c])
                          \/ Leaves(c, cproc[c])

Exclusive ==
  \A c, d \in CPU : cproc[c] # Null /\ cproc[c] = cproc[d] => c = d

\* A process that is no CPU's c->proc.
Off(p) ==
  \/ state[p] = "UNUSED" /\ sw[p] = "none" /\ ~saved[p]
  \/ state[p] = "EMBRYO" /\ sw[p] = "none" /\ ~saved[p]
  \/ state[p] = "EMBRYO" /\ sw[p] = "forkret" /\ saved[p]
  \/ state[p] = "RUNNABLE" /\ sw[p] \in {"forkret", "yield", "sleep", "wait"} /\ saved[p]
  \/ state[p] = "SLEEPING" /\ sw[p] \in {"sleep", "wait"} /\ saved[p]
  \/ state[p] = "ZOMBIE" /\ sw[p] = "exit" /\ saved[p]

TableInv == \A p \in Slot : Off(p) \/ \E c \in CPU : cproc[c] = p

ForkPCs == {"fork_kalloc", "fork_copy", "fork_run"}

ForkInv ==
  /\ \A p \in Slot : np[p] # Null =>
       /\ pc[p] \in ForkPCs
       /\ state[p] \in {"RUNNABLE", "RUNNING"} /\ sw[p] \in {"none", "yield"}
       /\ state[np[p]] = "EMBRYO"
       /\ pc[p] = "fork_kalloc" <=> ~kstack[np[p]]
       /\ kstack[np[p]] <=> sw[np[p]] = "forkret"
       /\ pc[p] = "fork_run" <=> pgdir[np[p]] = "live"
       /\ parent[np[p]] = IF pc[p] = "fork_run" THEN p ELSE Null
  /\ \A p, q \in Slot : np[p] # Null /\ np[p] = np[q] => p = q
  /\ \A p \in Slot : pc[p] \in ForkPCs => np[p] # Null
  /\ \A q \in Slot : state[q] = "EMBRYO" => \E p \in Slot : np[p] = q

TreeInv ==
  /\ parent[initproc] = Null /\ state[initproc] \in {"RUNNABLE", "RUNNING", "SLEEPING"}
  /\ \A p \in Slot : parent[p] # Null =>
       parent[p] # p /\ state[parent[p]] \in {"RUNNABLE", "RUNNING", "SLEEPING"}
  /\ \A p \in Slot : state[p] = "UNUSED" => parent[p] = Null

WaitInv ==
  \A p \in Slot : state[p] = "SLEEPING" /\ sw[p] = "wait" => chan[p] = p

SwitchInv == TypeOK /\ CPUInv /\ Exclusive /\ TableInv

IndInv ==
  /\ SwitchInv /\ ForkInv /\ MemoryOwned
  /\ TreeInv /\ ParentAlive
  /\ WaitInv /\ NoMissedExit /\ NoMissedKill

-----------------------------------------------------------------------------
(* Scans of the table, and types. *)

\* The first element of a non-empty set of numbers, which is what the loops
\* over ptable.proc stop at, is one of its elements.
LEMMA FirstElement ==
  ASSUME NEW S \in SUBSET Nat, S # {}
  PROVE  First(S) \in S
  <1>1. PICK q \in S : \A r \in S : ~ <<r, q>> \in OpToRel(<, Nat)
    BY NatLessThanWellFounded, WFMin
  <1>2. ASSUME NEW r \in S PROVE q <= r
    <2>1. ~ <<r, q>> \in OpToRel(<, Nat)
      BY <1>1
    <2>2. <<r, q>> \in Nat \X Nat
      OBVIOUS
    <2>3. ~ r < q
      BY <2>1, <2>2 DEF OpToRel
    <2> QED
      BY <2>3
  <1> QED
    BY <1>2 DEF First

\* The same for a set of slots of the table.
LEMMA FirstSlot ==
  ASSUME NEW S \in SUBSET Slot, S # {}
  PROVE  First(S) \in S
  BY FirstElement, NPROCAssumption DEF Slot

\* userinit() leaves a well-formed table.
LEMMA TypeInit == Init => TypeOK
  <1> SUFFICES ASSUME Init PROVE TypeOK
    OBVIOUS
  <1> USE NPROCAssumption, MaxPidAssumption DEF Init, Slot, Null, initproc, FirstPid
  <1>1. /\ state \in [Slot -> States] /\ sw \in [Slot -> Why]
        /\ pc \in [Slot -> PCs] /\ pgdir \in [Slot -> {"none", "live", "freed"}]
    BY DEF States, PCs, Why
  <1>2. /\ killed \in [Slot -> BOOLEAN] /\ kstack \in [Slot -> BOOLEAN]
        /\ saved \in [Slot -> BOOLEAN] /\ panicked \in BOOLEAN
    OBVIOUS
  <1>3. /\ pid \in [Slot -> 0 .. MaxPid] /\ nextpid \in 2 .. MaxPid + 1
    OBVIOUS
  <1>4. /\ parent \in [Slot -> Slot \cup {Null}]
        /\ chan \in [Slot -> Chan \cup Slot \cup {Null}]
        /\ np \in [Slot -> Slot \cup {Null}]
    OBVIOUS
  <1>5. /\ lock \in CPU \cup {NoCPU}
        /\ cproc \in [CPU -> Slot \cup {Null}]
        /\ thread \in [CPU -> Slot \cup {Null}]
    OBVIOUS
  <1> QED
    BY <1>1, <1>2, <1>3, <1>4, <1>5 DEF TypeOK

\* Every operation leaves a well-formed table.
LEMMA TypeStep == TypeOK /\ [Next]_vars => TypeOK'
  <1> SUFFICES ASSUME TypeOK, [Next]_vars PROVE TypeOK'
    OBVIOUS
  <1> USE DEF TypeOK
  <1>1. CASE UNCHANGED vars
    BY <1>1 DEF vars, fields, cpus, local
  <1>2. ASSUME NEW c \in CPU, NEW p \in Slot, ProcStep(c, p) PROVE TypeOK'
    <2>1. CASE Trap(c, p)
      BY <2>1 DEF Trap, cpus, PCs
    <2>2. CASE SysExit(c, p)
      BY <2>2 DEF SysExit, fields, cpus, PCs
    <2>3. CASE SysReturn(c, p)
      BY <2>3 DEF SysReturn, fields, cpus, PCs
    <2>4. CASE ForkAlloc(c, p)
      <3> DEFINE free == {q \in Slot : state[q] = "UNUSED"}
      <3>1. CASE free = {}
        BY <2>4, <3>1 DEF ForkAlloc, cpus, PCs
      <3>2. CASE free # {}
        <4>1. First(free) \in free
          <5> free \in SUBSET Slot
            OBVIOUS
          <5> HIDE DEF free
          <5> QED
            BY <3>2, FirstSlot
        <4> QED
          BY <2>4, <3>2, <4>1, MaxPidAssumption DEF ForkAlloc, cpus, PCs, States
      <3> QED
        BY <3>1, <3>2
    <2>5. CASE ForkKalloc(c, p)
      <3>1. state' \in [Slot -> States] /\ np' \in [Slot -> Slot \cup {Null}]
        BY <2>5 DEF ForkKalloc, States
      <3>2. pc' \in [Slot -> PCs]
        BY <2>5 DEF ForkKalloc, PCs
      <3>3. kstack' \in [Slot -> BOOLEAN] /\ saved' \in [Slot -> BOOLEAN]
        BY <2>5 DEF ForkKalloc
      <3>4. sw' \in [Slot -> Why]
        BY <2>5 DEF ForkKalloc, Why
      <3> QED
        BY <2>5, <3>1, <3>2, <3>3, <3>4 DEF ForkKalloc, cpus
    <2>6. CASE ForkCopy(c, p)
      <3>1. state' \in [Slot -> States] /\ np' \in [Slot -> Slot \cup {Null}]
        BY <2>6 DEF ForkCopy, States
      <3>2. pc' \in [Slot -> PCs]
        BY <2>6 DEF ForkCopy, PCs
      <3>3. kstack' \in [Slot -> BOOLEAN] /\ saved' \in [Slot -> BOOLEAN]
        BY <2>6 DEF ForkCopy, KstackFreed
      <3>4. sw' \in [Slot -> Why] /\ pgdir' \in [Slot -> {"none", "live", "freed"}]
        BY <2>6 DEF ForkCopy, Why
      <3>5. parent' \in [Slot -> Slot \cup {Null}]
        BY <2>6 DEF ForkCopy
      <3> QED
        BY <2>6, <3>1, <3>2, <3>3, <3>4, <3>5 DEF ForkCopy, cpus
    <2>7. CASE ForkRun(c, p)
      BY <2>7 DEF ForkRun, cpus, PCs, States, Null
    <2>8. CASE Exit(c, p)
      <3>1. state' \in [Slot -> States]
        BY <2>8 DEF Exit, wakeup1, States
      <3>2. parent' \in [Slot -> Slot \cup {Null}]
        BY <2>8, NPROCAssumption DEF Exit, Reparented, initproc, Slot
      <3> QED
        BY <2>8, <3>1, <3>2 DEF Exit, sched, Why
    <2>9. CASE Wait(c, p)
      <3>1. CASE \E q \in Zombies(p) : WaitReap(p, q)
        <4>1. PICK q \in Slot : WaitReap(p, q)
          BY <3>1 DEF Zombies
        <4>2. /\ state' \in [Slot -> States] /\ pgdir' \in [Slot -> {"none", "live", "freed"}]
              /\ pid' \in [Slot -> 0 .. MaxPid]
          BY <4>1, MaxPidAssumption DEF WaitReap, States
        <4>3. /\ parent' \in [Slot -> Slot \cup {Null}]
              /\ chan' \in [Slot -> Chan \cup Slot \cup {Null}]
          BY <4>1 DEF WaitReap
        <4>4. /\ killed' \in [Slot -> BOOLEAN] /\ kstack' \in [Slot -> BOOLEAN]
              /\ saved' \in [Slot -> BOOLEAN]
          BY <4>1 DEF WaitReap, KstackFreed
        <4>5. sw' \in [Slot -> Why] /\ pc' \in [Slot -> PCs]
          BY <4>1 DEF WaitReap, Why, PCs
        <4> QED
          BY <2>9, <4>1, <4>2, <4>3, <4>4, <4>5 DEF Wait, WaitReap
      <3>2. CASE WaitFail(p)
        BY <2>9, <3>2 DEF Wait, WaitFail, Why, PCs, Null
      <3>3. CASE WaitSleep(c, p)
        BY <2>9, <3>3 DEF Wait, WaitSleep, sched, Why, States
      <3> QED
        BY <2>9, <3>1, <3>2, <3>3 DEF Wait
    <2>10. CASE \E ch \in Chan : Sleep(c, p, ch)
      BY <2>10 DEF Sleep, sched, Why, States
    <2>11. CASE SleepReturn(c, p)
      BY <2>11 DEF SleepReturn, Why, Null
    <2>12. CASE Yield(c, p)
      BY <2>12 DEF Yield, sched, Why, States
    <2>13. CASE SchedReturn(c, p)
      BY <2>13 DEF SchedReturn, fields, Why
    <2>14. CASE \E n \in 0 .. MaxPid : Kill(c, p, n)
      <3>1. PICK n \in 0 .. MaxPid : Kill(c, p, n)
        BY <2>14
      <3> DEFINE hits == {q \in Slot : pid[q] = n}
      <3>2. CASE hits = {}
        BY <3>1, <3>2 DEF Kill, cpus, PCs
      <3>3. CASE hits # {}
        <4>1. First(hits) \in hits
          <5> hits \in SUBSET Slot
            OBVIOUS
          <5> HIDE DEF hits
          <5> QED
            BY <3>3, FirstSlot
        <4> HIDE DEF hits
        <4>2. PICK q \in Slot : q = First(hits)
          BY <4>1 DEF hits
        <4>3. /\ killed' = [killed EXCEPT ![q] = TRUE] /\ pc' = [pc EXCEPT ![p] = "user"]
              /\ state' = [state EXCEPT ![q] = StateOnceKilled(q)]
              /\ UNCHANGED <<pid, parent, chan, kstack, pgdir, nextpid, cpus, sw, saved, np, panicked>>
          BY <3>1, <3>3, <4>2 DEF Kill, hits
        <4>4. StateOnceKilled(q) \in States
          BY DEF StateOnceKilled, States
        <4> QED
          BY <4>3, <4>4 DEF cpus, PCs
      <3> QED
        BY <3>2, <3>3
    <2>15. CASE Pick(c, p)
      BY <2>15 DEF Pick, Runnable, local, States
    <2>16. CASE Swtch(c, p)
      BY <2>16 DEF Swtch, fields, Null
    <2> QED
      BY <1>2, <2>1, <2>2, <2>3, <2>4, <2>5, <2>6, <2>7, <2>8, <2>9, <2>10,
         <2>11, <2>12, <2>13, <2>14, <2>15, <2>16 DEF ProcStep
  <1>3. ASSUME NEW c \in CPU, SwitchedBack(c) PROVE TypeOK'
    BY <1>3 DEF SwitchedBack, fields, local, Null
  <1>4. ASSUME NEW c \in CPU, InitExits(c) PROVE TypeOK'
    BY <1>4 DEF InitExits, fields, cpus, local
  <1>5. ASSUME NEW c \in CPU, Idle(c) PROVE TypeOK'
    BY <1>1, <1>5 DEF Idle
  <1>6. ASSUME NEW ch \in Chan, Wakeup(ch) PROVE TypeOK'
    BY <1>6 DEF Wakeup, wakeup1, cpus, local, States
  <1> QED
    BY <1>1, <1>2, <1>3, <1>4, <1>5, <1>6 DEF Next, Step

\* Type correctness of the process table, for any number of CPUs and slots:
\* no operation of proc.c leaves a field, a lock or a context ill-formed.
THEOREM TypeCorrect == Spec => []TypeOK
  BY TypeInit, TypeStep, PTL DEF Spec

-----------------------------------------------------------------------------
(* The hand-over of the CPU and of ptable.lock. *)

\* The null pointer is no slot, and the first process has one.
LEMMA NullNotSlot == Null \notin Slot /\ initproc \in Slot
  BY NPROCAssumption DEF Null, Slot, initproc

\* A process that executes outside sched() is the c->proc of exactly one CPU.
LEMMA Executing ==
  ASSUME SwitchInv, NEW c \in CPU, NEW p \in Slot, thread[c] = p, sw[p] = "none"
  PROVE  cproc[c] = p /\ Runs(c, p) /\ \A d \in CPU : cproc[d] = p => d = c
  BY NullNotSlot
  DEF SwitchInv, CPUInv, Exclusive, Runs, Resumes, Leaves, GaveUp

\* So is one that the scheduler has just switched to, lock held.
LEMMA Arriving ==
  ASSUME SwitchInv, NEW c \in CPU, NEW p \in Slot, NEW w, SwitchedTo(c, p, w), w # "none"
  PROVE  cproc[c] = p /\ Resumes(c, p) /\ \A d \in CPU : cproc[d] = p => d = c
  BY NullNotSlot
  DEF SwitchInv, CPUInv, Exclusive, Runs, Resumes, Leaves, GaveUp, SwitchedTo

\* A process that executes outside sched() is RUNNING.
LEMMA RunningAt ==
  ASSUME SwitchInv, NEW c \in CPU, NEW p \in Slot, NEW l, At(c, p, l)
  PROVE  state[p] = "RUNNING" /\ sw[p] = "none" /\ pc[p] = l
  BY Executing DEF At, Runs

\* The process a scheduler has just switched to is RUNNING.
LEMMA RunningSwitchedTo ==
  ASSUME SwitchInv, NEW c \in CPU, NEW p \in Slot, NEW w, SwitchedTo(c, p, w), w # "none"
  PROVE  state[p] = "RUNNING" /\ sw[p] = w
  BY Arriving DEF SwitchedTo, Resumes

\* While a CPU d does not hold the lock, its process, if any, executes.
LEMMA WithoutLock ==
  ASSUME SwitchInv, NEW d \in CPU, lock # d, cproc[d] # Null
  PROVE  Runs(d, cproc[d])
  BY DEF SwitchInv, CPUInv, Resumes, Leaves

\* A process that is not RUNNING belongs to no CPU while the lock is free.
LEMMA NotRunning ==
  ASSUME SwitchInv, lock = NoCPU, NEW p \in Slot, state[p] # "RUNNING", NEW d \in CPU
  PROVE  cproc[d] # p
  BY WithoutLock, NullNotSlot, NoCPUAssumption DEF Runs

\* UNUSED slots and EMBRYOs belong to no CPU.
LEMMA Unborn ==
  ASSUME SwitchInv, NEW p \in Slot, state[p] \in {"UNUSED", "EMBRYO"}, NEW d \in CPU
  PROVE  cproc[d] # p
  BY NullNotSlot DEF SwitchInv, CPUInv, Runs, Resumes, Leaves, GaveUp

\* The child of a fork() in progress is an EMBRYO.
LEMMA ForkChild ==
  ASSUME IndInv, NEW p \in Slot, pc[p] \in ForkPCs
  PROVE  /\ np[p] \in Slot /\ state[np[p]] = "EMBRYO" /\ (pc[p] = "fork_kalloc" <=> ~kstack[np[p]])
         /\ IF kstack[np[p]] THEN sw[np[p]] = "forkret" /\ saved[np[p]]
                             ELSE sw[np[p]] = "none" /\ ~saved[np[p]]
         /\ \A d \in CPU : cproc[d] # np[p]
  <1>1. /\ np[p] \in Slot /\ state[np[p]] = "EMBRYO" /\ (pc[p] = "fork_kalloc" <=> ~kstack[np[p]])
        /\ kstack[np[p]] <=> sw[np[p]] = "forkret"
    BY DEF IndInv, SwitchInv, TypeOK, ForkInv
  <1>2. \A d \in CPU : cproc[d] # np[p]
    BY <1>1, Unborn DEF IndInv
  <1>3. Off(np[p])
    BY <1>1, <1>2 DEF IndInv, SwitchInv, TableInv
  <1> QED
    BY <1>1, <1>2, <1>3 DEF Off

=============================================================================
