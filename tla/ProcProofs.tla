----------------------------- MODULE ProcProofs -----------------------------
(***************************************************************************)
(* The theorems about module Proc: its inductive invariant, the safety     *)
(* properties that follow from it, and the refinement of SleepWakeup.      *)
(***************************************************************************)
EXTENDS ProcSwitch, ProcFork, ProcFamily

(* The invariant and what follows from it. *)

\* The inductive invariant holds once userinit() is done.
LEMMA IndInit == Init => IndInv
  <1> SUFFICES ASSUME Init PROVE IndInv
    OBVIOUS
  <1> USE NullNotSlot DEF Init
  <1>1. SwitchInv
    BY TypeInit, NoCPUAssumption DEF SwitchInv, CPUInv, Exclusive, TableInv, Off
  <1>2. ForkInv
    BY DEF ForkInv, ForkPCs
  <1>3. MemoryOwned /\ TreeInv /\ ParentAlive
    BY DEF MemoryOwned, TreeInv, ParentAlive
  <1>4. WaitInv /\ NoMissedExit /\ NoMissedKill
    BY DEF WaitInv, NoMissedExit, NoMissedKill
  <1> QED
    BY <1>1, <1>2, <1>3, <1>4 DEF IndInv

\* The inductive invariant holds throughout, for any number of CPUs and slots.
THEOREM Invariance == Spec => []IndInv
  <1>1. IndInv /\ [Next]_vars => IndInv'
    BY SwitchStep, ForkStep, MemoryStep, TreeStep, WaitStep DEF IndInv
  <1> QED
    BY IndInit, <1>1, PTL DEF Spec

\* No two CPUs ever execute on the same kernel stack.
THEOREM OneCPUPerStack == Spec => []StackExclusive
  <1>1. IndInv => StackExclusive
    BY DEF IndInv, SwitchInv, CPUInv, Exclusive, StackExclusive
  <1> QED
    BY Invariance, <1>1, PTL

\* wait() never frees the stack or the page table a CPU is still using, and
\* myproc() is always the process that executes.
THEOREM NoFreeUnderfoot == Spec => []StackLive
  <1>1. IndInv => StackLive
    <2> SUFFICES ASSUME IndInv, NEW c \in CPU, thread[c] # Null
                 PROVE  /\ cproc[c] = thread[c]
                        /\ kstack[thread[c]] /\ pgdir[thread[c]] = "live"
      BY DEF StackLive
    <2>1. cproc[c] = thread[c] /\ thread[c] \in Slot
      BY DEF IndInv, SwitchInv, CPUInv, TypeOK
    <2>2. state[thread[c]] \notin {"UNUSED", "EMBRYO"}
      BY <2>1, Unborn DEF IndInv
    <2> QED
      BY <2>1, <2>2 DEF IndInv, MemoryOwned
  <1> QED
    BY Invariance, <1>1, PTL

\* Both together: the kernel stack a CPU executes on is its own, and live.
THEOREM StacksAreSafe == Spec => []StackSafe
  BY OneCPUPerStack, NoFreeUnderfoot, PTL DEF StackSafe

\* ptable.lock is held exactly by the CPUs in the middle of a switch.
THEOREM LockHandOver == Spec => []HandOver
  <1>1. IndInv => HandOver
    BY NullNotSlot
    DEF IndInv, SwitchInv, CPUInv, Runs, Resumes, Leaves, GaveUp, HandOver
  <1> QED
    BY Invariance, <1>1, PTL

\* Whoever acquires ptable.lock finds a table that agrees with the CPUs.
THEOREM TableTruthful == Spec => []TableMatchesCPUs
  <1>1. IndInv => TableMatchesCPUs
    <2> SUFFICES ASSUME IndInv, lock = NoCPU, NEW p \in Slot
                 PROVE  /\ state[p] = "RUNNING" <=> \E c \in CPU : thread[c] = p
                        /\ state[p] \in {"RUNNABLE", "SLEEPING", "ZOMBIE"}
                             => sw[p] # "none" /\ saved[p]
      BY DEF TableMatchesCPUs
    <2>1. SwitchInv
      BY DEF IndInv
    <2>2. \A c \in CPU : cproc[c] # Null => Runs(c, cproc[c])
      BY <2>1, WithoutLock, NoCPUAssumption
    <2>3. (\E c \in CPU : thread[c] = p) <=> (\E c \in CPU : cproc[c] = p)
      BY <2>1, <2>2, NullNotSlot DEF SwitchInv, CPUInv, Runs
    <2>4. (\E c \in CPU : cproc[c] = p) => state[p] = "RUNNING"
      BY <2>2, NullNotSlot DEF Runs
    <2> QED
      BY <2>1, <2>3, <2>4 DEF SwitchInv, TableInv, Off
  <1> QED
    BY Invariance, <1>1, PTL

\* fork(), exit() and wait() neither leak nor lose a stack or a page table.
THEOREM NoLeak == Spec => []MemoryOwned
  BY Invariance, PTL DEF IndInv

\* A process always has a live parent to reap it.
THEOREM NoOrphan == Spec => []ParentAlive
  BY Invariance, PTL DEF IndInv

\* No parent sleeps in wait() while it has a zombie child, and none sleeps
\* there killed.
THEOREM WaitMissesNothing == Spec => []NothingMissed
  BY Invariance, PTL DEF IndInv, NothingMissed

-----------------------------------------------------------------------------
(* The table implements SleepWakeup. *)

\* Every step is a sleep, a wakeup, a kill or a reap of SleepWakeup, or none.
LEMMA RefineStep ==
  ASSUME IndInv, [Next]_vars
  PROVE  SW!Next \/ UNCHANGED <<asleep, killed>>
  <1> DEFINE Goal == SW!Next \/ UNCHANGED <<asleep, killed>>
  <1> USE NullNotSlot
  <1>s. SwitchInv
    BY DEF IndInv
  <1>t. TypeOK
    BY DEF IndInv, SwitchInv
  <1>u. ASSUME UNCHANGED <<chan, killed>>,
               \A q \in Slot : state'[q] = state[q]
                                 \/ (state'[q] # "SLEEPING" /\ state[q] # "SLEEPING")
        PROVE  Goal
    BY <1>u DEF asleep
  <1>k. ASSUME NEW q \in Slot, SW!Kill(q) PROVE Goal
    BY <1>k DEF SW!Next
  <1>w. ASSUME NEW W \in SUBSET (Chan \cup Slot), SW!Wakeup(W) PROVE Goal
    BY <1>w DEF SW!Next
  <1>z. ASSUME NEW q \in Slot, NEW ch \in Chan \cup Slot, SW!Sleep(q, ch) PROVE Goal
    BY <1>z DEF SW!Next
  <1>1. CASE UNCHANGED vars
    BY <1>u, <1>1 DEF vars, fields
  <1>2. ASSUME NEW c \in CPU, NEW p \in Slot, ProcStep(c, p) PROVE Goal
    <2>1. CASE Trap(c, p)
      <3>1. state[p] = "RUNNING"
        BY <1>s, <2>1, RunningAt DEF Trap
      <3>2. UNCHANGED <<state, chan>>
        BY <2>1 DEF Trap
      <3>3. CASE UNCHANGED killed
        BY <1>u, <3>2, <3>3
      <3>4. CASE killed' = [killed EXCEPT ![p] = TRUE]
        <4>1. asleep' = [asleep EXCEPT ![p] = Null]
          BY <3>1, <3>2 DEF asleep
        <4> QED
          BY <1>k, <3>4, <4>1 DEF SW!Kill
      <3> QED
        BY <2>1, <3>3, <3>4 DEF Trap
    <2>2. CASE SysExit(c, p) \/ SysReturn(c, p) \/ SchedReturn(c, p) \/ Swtch(c, p)
      BY <1>u, <2>2 DEF SysExit, SysReturn, SchedReturn, Swtch, fields
    <2>4. CASE ForkAlloc(c, p)
      <3> DEFINE free == {q \in Slot : state[q] = "UNUSED"}
      <3>1. CASE free = {}
        BY <1>u, <2>4, <3>1 DEF ForkAlloc
      <3>2. CASE free # {}
        <4>1. PICK q \in free : q = First(free)
          <5> free \in SUBSET Slot
            OBVIOUS
          <5> HIDE DEF free
          <5> QED
            BY <3>2, FirstSlot
        <4>2. UNCHANGED <<chan, killed>> /\ state' = [state EXCEPT ![q] = "EMBRYO"]
          BY <2>4, <3>2, <4>1 DEF ForkAlloc
        <4> QED
          BY <1>t, <1>u, <4>1, <4>2 DEF TypeOK
      <3> QED
        BY <3>1, <3>2
    <2>5. CASE ForkKalloc(c, p) \/ ForkCopy(c, p) \/ ForkRun(c, p)
      <3>1. np[p] \in Slot /\ state[np[p]] = "EMBRYO"
        BY <2>5, ForkChild DEF ForkKalloc, ForkCopy, ForkRun, At, ForkPCs
      <3>2. /\ UNCHANGED <<chan, killed>>
            /\ \E st \in {"EMBRYO", "UNUSED", "RUNNABLE"} :
                 \/ state' = [state EXCEPT ![np[p]] = st]
                 \/ UNCHANGED state
        BY <2>5 DEF ForkKalloc, ForkCopy, ForkRun
      <3> QED
        BY <1>t, <1>u, <3>1, <3>2 DEF TypeOK
    <2>8. CASE Exit(c, p)
      <3>1. state[p] = "RUNNING" /\ p # initproc
        BY <1>s, <2>8, Executing DEF Exit, At, Runs
      <3>2. WokenByExit(p) \in SUBSET (Chan \cup Slot)
        BY <1>t, <3>1 DEF IndInv, ParentAlive, TypeOK, WokenByExit
      <3>3. SW!Wakeup(WokenByExit(p))
        <4>1. ASSUME NEW q \in Slot
              PROVE  asleep'[q] = IF asleep[q] \in WokenByExit(p) THEN Null ELSE asleep[q]
          <5>1. chan'[q] = chan[q] /\ (q = p => state'[q] = "ZOMBIE")
            BY <1>t, <2>8 DEF Exit, TypeOK, wakeup1
          <5>2. q # p => state'[q] = IF state[q] = "SLEEPING" /\ chan[q] \in WokenByExit(p)
                                     THEN "RUNNABLE" ELSE state[q]
            BY <1>t, <2>8 DEF Exit, TypeOK, wakeup1
          <5> QED
            BY <3>1, <5>1, <5>2 DEF asleep
        <4> QED
          BY <2>8, <4>1 DEF SW!Wakeup, asleep, Exit
      <3> QED
        BY <1>w, <3>2, <3>3
    <2>9. CASE Wait(c, p)
      <3>1. state[p] = "RUNNING"
        BY <1>s, <2>9, Executing, Arriving DEF Wait, At, Runs, Resumes
      <3>2. CASE \E q \in Zombies(p) : WaitReap(p, q)
        <4>1. PICK q \in Slot : WaitReap(p, q) /\ state[q] = "ZOMBIE"
          BY <3>2 DEF Zombies
        <4>2. /\ state' = [state EXCEPT ![q] = "UNUSED"]
              /\ chan' = [chan EXCEPT ![p] = Null]
              /\ killed' = [killed EXCEPT ![q] = FALSE]
          BY <4>1 DEF WaitReap
        <4>3. asleep' = asleep /\ asleep[q] = Null
          BY <1>t, <3>1, <4>1, <4>2 DEF asleep, TypeOK
        <4> QED
          BY <4>2, <4>3 DEF SW!Next, SW!Reap
      <3>3. CASE WaitFail(p)
        <4>1. UNCHANGED <<state, killed>> /\ chan' = [chan EXCEPT ![p] = Null]
          BY <3>3 DEF WaitFail
        <4> QED
          BY <1>t, <3>1, <4>1 DEF asleep, TypeOK
      <3>4. CASE WaitSleep(c, p)
        <4>1. /\ chan' = [chan EXCEPT ![p] = p] /\ UNCHANGED killed
              /\ state' = [state EXCEPT ![p] = "SLEEPING"]
          BY <3>4 DEF WaitSleep
        <4>2. SW!Sleep(p, p)
          BY <1>t, <3>1, <4>1 DEF SW!Sleep, asleep, TypeOK
        <4> QED
          BY <1>z, <4>2
      <3> QED
        BY <2>9, <3>2, <3>3, <3>4 DEF Wait
    <2>10. CASE \E ch \in Chan : Sleep(c, p, ch)
      <3>1. PICK ch \in Chan : Sleep(c, p, ch)
        BY <2>10
      <3>2. state[p] = "RUNNING"
        BY <1>s, <2>10, Executing DEF Sleep, At, Runs
      <3>3. /\ chan' = [chan EXCEPT ![p] = ch] /\ UNCHANGED killed
            /\ state' = [state EXCEPT ![p] = "SLEEPING"]
        BY <3>1 DEF Sleep
      <3>4. SW!Sleep(p, ch)
        BY <1>t, <3>2, <3>3 DEF SW!Sleep, asleep, TypeOK
      <3> QED
        BY <1>z, <3>4
    <2>11. CASE SleepReturn(c, p)
      <3>1. state[p] = "RUNNING"
        BY <1>s, <2>11, Arriving DEF SleepReturn, Resumes
      <3>2. UNCHANGED <<state, killed>> /\ chan' = [chan EXCEPT ![p] = Null]
        BY <2>11 DEF SleepReturn
      <3> QED
        BY <1>t, <3>1, <3>2 DEF asleep, TypeOK
    <2>12. CASE Yield(c, p)
      <3>1. state[p] = "RUNNING"
        BY <1>s, <2>12, Executing DEF Yield, Runs
      <3> QED
        BY <1>t, <1>u, <2>12, <3>1 DEF Yield, TypeOK
    <2>14. CASE \E n \in 0 .. MaxPid : Kill(c, p, n)
      <3>1. PICK n \in 0 .. MaxPid : Kill(c, p, n)
        BY <2>14
      <3> DEFINE hits == {q \in Slot : pid[q] = n}
      <3>2. CASE hits = {}
        BY <1>u, <3>1, <3>2 DEF Kill
      <3>3. CASE hits # {}
        <4>1. PICK q \in hits : q = First(hits)
          <5> hits \in SUBSET Slot
            OBVIOUS
          <5> HIDE DEF hits
          <5> QED
            BY <3>3, FirstSlot
        <4>2. /\ killed' = [killed EXCEPT ![q] = TRUE] /\ UNCHANGED chan
              /\ state' = [state EXCEPT ![q] = StateOnceKilled(q)]
          BY <3>1, <3>3, <4>1 DEF Kill
        <4>3. asleep' = [asleep EXCEPT ![q] = Null]
          BY <1>t, <4>2 DEF asleep, StateOnceKilled, TypeOK
        <4> QED
          BY <1>k, <4>1, <4>2, <4>3 DEF SW!Kill
      <3> QED
        BY <3>2, <3>3
    <2>15. CASE Pick(c, p)
      BY <1>t, <1>u, <2>15 DEF TypeOK, Pick, Runnable
    <2> QED
      BY <1>2, <2>1, <2>2, <2>4, <2>5, <2>8, <2>9, <2>10, <2>11, <2>12, <2>14, <2>15
      DEF ProcStep
  <1>3. ASSUME NEW c \in CPU, SwitchedBack(c) \/ InitExits(c) \/ Idle(c) PROVE Goal
    BY <1>u, <1>1, <1>3 DEF SwitchedBack, InitExits, Idle, fields
  <1>4. ASSUME NEW ch \in Chan, Wakeup(ch) PROVE Goal
    <2>1. asleep' = [q \in Slot |-> IF asleep[q] \in {ch} THEN Null ELSE asleep[q]]
      BY <1>t, <1>4 DEF Wakeup, wakeup1, asleep, TypeOK
    <2>2. SW!Wakeup({ch})
      BY <1>4, <2>1 DEF SW!Wakeup, Wakeup
    <2> QED
      BY <1>w, <2>2
  <1> QED
    BY <1>1, <1>2, <1>3, <1>4 DEF Next, Step

\* sleep(), wakeup(), exit(), wait() and kill(), whatever the CPUs do in
\* between, keep the promise of SleepWakeup: the initial table maps to its
\* initial state, and every step to one of its steps or to none.
THEOREM Refinement == Spec => SleepWakeupSpec
  <1>1. Init => SW!Init
    BY DEF Init, SW!Init, asleep
  <1>2. IndInv /\ [Next]_vars => [SW!Next]_<<asleep, killed>>
    BY RefineStep
  <1> QED
    BY <1>1, <1>2, Invariance, PTL DEF Spec, SleepWakeupSpec, SW!Spec

=============================================================================
