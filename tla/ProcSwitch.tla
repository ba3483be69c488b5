----------------------------- MODULE ProcSwitch -----------------------------
(***************************************************************************)
(* The hand-over of the CPU and of ptable.lock: every step keeps the part  *)
(* SwitchInv of the inductive invariant. The argument is the same for all  *)
(* actions: a step either touches only slots no CPU is concerned with      *)
(* (OffCPUStep), or moves one CPU from one phase of a switch to the next   *)
(* (OnCPUStep).                                                            *)
(***************************************************************************)
EXTENDS ProcInv

\* What the hand-over knows of slot q does not change.
Same(q) == state'[q] = state[q] /\ sw'[q] = sw[q] /\ saved'[q] = saved[q]

\* Slot q is no CPU's c->proc, and still fits the table afterwards.
StaysOff(q) == (\A d \in CPU : cproc[d] # q) /\ Off(q)'

\* A step that leaves the CPUs alone only changes slots that are off the CPUs.
LEMMA OffCPUStep ==
  ASSUME SwitchInv, TypeOK', UNCHANGED cpus,
         \A q \in Slot : Same(q) \/ StaysOff(q)
  PROVE  SwitchInv'
  <1> USE DEF SwitchInv, cpus
  <1>1. Exclusive'
    BY DEF Exclusive
  <1>2. ASSUME NEW d \in CPU, cproc[d] # Null PROVE Same(cproc[d])
    BY <1>2 DEF TypeOK, StaysOff
  <1>3. CPUInv'
    BY <1>2 DEF CPUInv, Same, Runs, Resumes, Leaves, GaveUp
  <1>4. ASSUME NEW q \in Slot, Same(q) PROVE (Off(q) \/ \E d \in CPU : cproc[d] = q)'
    BY <1>4 DEF TableInv, Same, Off
  <1>5. TableInv'
    BY <1>4 DEF TableInv, StaysOff
  <1> QED
    BY <1>1, <1>3, <1>5

\* A step of CPU c with process p, before it or after it its c->proc, keeps the
\* lock from the other CPUs and ends in one of the phases of a switch.
LEMMA OnCPUStep ==
  ASSUME SwitchInv, TypeOK', NEW c \in CPU, NEW p \in Slot,
         \A d \in CPU \ {c} : cproc'[d] = cproc[d] /\ thread'[d] = thread[d] /\ cproc[d] # p,
         \A q \in Slot \ {p} : Same(q) \/ StaysOff(q),
         cproc[c] \in {p, Null}, lock \in {c, NoCPU}, lock' \in {c, NoCPU},
         \/ /\ cproc'[c] = p /\ thread'[c] \in {p, Null}
            /\ Runs(c, p)' \/ Resumes(c, p)' \/ Leaves(c, p)'
         \/ cproc'[c] = Null /\ thread'[c] = Null /\ lock' = NoCPU /\ Off(p)'
  PROVE  SwitchInv'
  <1> USE DEF SwitchInv
  <1>1. Exclusive'
    BY NullNotSlot DEF Exclusive
  <1>2. ASSUME NEW d \in CPU \ {c}, cproc[d] # Null
        PROVE  Same(cproc[d]) /\ Runs(d, cproc[d])
    <2>1. cproc[d] \in Slot \ {p}
      BY <1>2 DEF TypeOK
    <2>2. Same(cproc[d])
      BY <2>1 DEF StaysOff
    <2>3. lock # d
      BY NoCPUAssumption
    <2> QED
      BY <1>2, <2>2, <2>3, WithoutLock
  <1>3. ASSUME NEW d \in CPU \ {c}
        PROVE  /\ (thread[d] # Null => cproc[d] = thread[d])'
               /\ lock' # d
               /\ cproc'[d] # Null => Runs(d, cproc[d])'
    <2>1. lock' # d
      BY NoCPUAssumption
    <2>2. thread'[d] # Null => cproc'[d] = thread'[d]
      BY DEF CPUInv
    <2>3. ASSUME cproc[d] # Null PROVE Runs(d, cproc[d])'
      BY <1>2, <2>1, <2>3 DEF Same, Runs
    <2> QED
      BY <2>1, <2>2, <2>3
  <1>4. /\ thread'[c] # Null => cproc'[c] = thread'[c]
        /\ cproc'[c] = Null => lock' # c
        /\ cproc'[c] # Null => (Runs(c, cproc[c]) \/ Resumes(c, cproc[c]) \/ Leaves(c, cproc[c]))'
    BY NoCPUAssumption, NullNotSlot DEF Runs, Resumes, Leaves, GaveUp
  <1>5. CPUInv'
    BY <1>3, <1>4 DEF CPUInv
  <1>6. ASSUME NEW q \in Slot \ {p}, Same(q)
        PROVE  (Off(q) \/ \E d \in CPU : cproc[d] = q)'
    <2>1. CASE Off(q)
      BY <1>6, <2>1 DEF Same, Off
    <2>2. CASE ~Off(q)
      <3>1. PICK d \in CPU : cproc[d] = q
        BY <2>2 DEF TableInv
      <3>2. d # c
        BY <3>1, NullNotSlot
      <3> QED
        BY <3>1, <3>2
    <2> QED
      BY <2>1, <2>2
  <1>7. (Off(p) \/ \E d \in CPU : cproc[d] = p)'
    OBVIOUS
  <1>8. TableInv'
    BY <1>6, <1>7 DEF TableInv, StaysOff
  <1> QED
    BY <1>1, <1>5, <1>8

\* Every step keeps the CPUs, the lock and the table in one of their phases.
LEMMA SwitchStep == IndInv /\ [Next]_vars => SwitchInv'
  <1> SUFFICES ASSUME IndInv, [Next]_vars PROVE SwitchInv'
    OBVIOUS
  <1>s. SwitchInv
    BY DEF IndInv
  <1>t. TypeOK /\ TypeOK'
    BY TypeStep DEF IndInv, SwitchInv
  <1>u. ASSUME UNCHANGED <<state, sw, saved, cpus>> PROVE SwitchInv'
    BY <1>s, <1>t, <1>u, OffCPUStep DEF Same
  <1>w. ASSUME lock = NoCPU, NEW q \in Slot,
               \/ state'[q] = state[q]
               \/ state[q] = "SLEEPING" /\ state'[q] = "RUNNABLE",
               sw'[q] = sw[q], saved'[q] = saved[q]
        PROVE  Same(q) \/ StaysOff(q)
    <2>1. CASE state'[q] = state[q]
      BY <1>w, <2>1 DEF Same
    <2>2. CASE state[q] = "SLEEPING" /\ state'[q] = "RUNNABLE"
      <3>1. \A d \in CPU : cproc[d] # q
        BY <1>s, <1>w, <2>2, NotRunning
      <3>2. Off(q)
        BY <1>s, <3>1 DEF SwitchInv, TableInv
      <3> QED
        BY <1>w, <2>2, <3>1, <3>2 DEF StaysOff, Off
    <2> QED
      BY <1>w, <2>1, <2>2
  <1>1. CASE UNCHANGED vars
    BY <1>u, <1>1 DEF vars, fields, local
  <1>2. ASSUME NEW c \in CPU, NEW p \in Slot, ProcStep(c, p) PROVE SwitchInv'
    <2>1. CASE Trap(c, p) \/ SysExit(c, p) \/ SysReturn(c, p)
      BY <1>u, <2>1 DEF Trap, SysExit, SysReturn, fields
    <2>4. CASE ForkAlloc(c, p)
      <3> DEFINE free == {q \in Slot : state[q] = "UNUSED"}
      <3>1. CASE free = {}
        BY <1>u, <2>4, <3>1 DEF ForkAlloc
      <3>2. CASE free # {}
        <4>1. PICK q \in free : q = First(free)
          <5> free \in SUBSET Slot
            OBVIOUS
          <5> HIDE DEF free
          <5> QED
            BY <3>2, FirstSlot
        <4>2. UNCHANGED <<sw, saved, cpus>> /\ state' = [state EXCEPT ![q] = "EMBRYO"]
          BY <2>4, <3>2, <4>1 DEF ForkAlloc
        <4>3. q \in Slot /\ state[q] = "UNUSED"
          BY <4>1
        <4> HIDE DEF free
        <4>4. \A r \in Slot \ {q} : Same(r)
          BY <1>t, <4>2, <4>3 DEF TypeOK, Same
        <4>5. \A d \in CPU : cproc[d] # q
          BY <1>s, <4>3, Unborn
        <4>6. Off(q)
          BY <1>s, <4>3, <4>5 DEF SwitchInv, TableInv
        <4>7. StaysOff(q)
          BY <1>t, <4>2, <4>3, <4>5, <4>6 DEF TypeOK, StaysOff, Off
        <4> QED
          BY <1>s, <1>t, <4>2, <4>4, <4>7, OffCPUStep
      <3> QED
        BY <3>1, <3>2
    <2>5. CASE ForkKalloc(c, p)
      <3>0. PICK q \in Slot : q = np[p]
        BY <2>5, ForkChild DEF ForkKalloc, At, ForkPCs
      <3>1. /\ state[q] = "EMBRYO" /\ sw[q] = "none" /\ ~saved[q]
            /\ \A d \in CPU : cproc[d] # q
        BY <2>5, <3>0, ForkChild DEF ForkKalloc, At, ForkPCs
      <3>2. /\ UNCHANGED cpus
            /\ \/ /\ sw' = [sw EXCEPT ![q] = "forkret"]
                  /\ saved' = [saved EXCEPT ![q] = TRUE]
                  /\ UNCHANGED state
               \/ state' = [state EXCEPT ![q] = "UNUSED"] /\ UNCHANGED <<sw, saved>>
        BY <2>5, <3>0 DEF ForkKalloc
      <3>3. \A r \in Slot \ {q} : Same(r)
        BY <1>t, <3>1, <3>2 DEF TypeOK, Same
      <3>4. StaysOff(q)
        BY <1>t, <3>1, <3>2 DEF TypeOK, StaysOff, Off
      <3> QED
        BY <1>s, <1>t, <3>2, <3>3, <3>4, OffCPUStep
    <2>6. CASE ForkCopy(c, p)
      <3>0. PICK q \in Slot : q = np[p]
        BY <2>6, ForkChild DEF ForkCopy, At, ForkPCs
      <3>1. state[q] = "EMBRYO" /\ \A d \in CPU : cproc[d] # q
        BY <2>6, <3>0, ForkChild DEF ForkCopy, At, ForkPCs
      <3>2. /\ UNCHANGED cpus
            /\ \/ UNCHANGED <<state, sw, saved>>
               \/ /\ sw' = [sw EXCEPT ![q] = "none"]
                  /\ saved' = [saved EXCEPT ![q] = FALSE]
                  /\ state' = [state EXCEPT ![q] = "UNUSED"]
        BY <2>6, <3>0 DEF ForkCopy
      <3>3. \A r \in Slot \ {q} : Same(r)
        BY <1>t, <3>1, <3>2 DEF TypeOK, Same
      <3>4. Same(q) \/ StaysOff(q)
        BY <1>t, <3>1, <3>2 DEF TypeOK, StaysOff, Off, Same
      <3> QED
        BY <1>s, <1>t, <3>2, <3>3, <3>4, OffCPUStep
    <2>7. CASE ForkRun(c, p)
      <3>0. PICK q \in Slot : q = np[p]
        BY <2>7, ForkChild DEF ForkRun, At, ForkPCs
      <3>1. /\ state[q] = "EMBRYO" /\ sw[q] = "forkret" /\ saved[q]
            /\ \A d \in CPU : cproc[d] # q
        BY <2>7, <3>0, ForkChild DEF ForkRun, At, ForkPCs
      <3>2. UNCHANGED <<cpus, sw, saved>> /\ state' = [state EXCEPT ![q] = "RUNNABLE"]
        BY <2>7, <3>0 DEF ForkRun
      <3>3. \A r \in Slot \ {q} : Same(r)
        BY <1>t, <3>1, <3>2 DEF TypeOK, Same
      <3>4. StaysOff(q)
        BY <1>t, <3>1, <3>2 DEF TypeOK, StaysOff, Off
      <3> QED
        BY <1>s, <1>t, <3>2, <3>3, <3>4, OffCPUStep
    <2>8. CASE Exit(c, p)
      <3>1. cproc[c] = p /\ Runs(c, p) /\ \A d \in CPU : cproc[d] = p => d = c
        BY <1>s, <2>8, Executing DEF Exit, At
      <3>2. /\ UNCHANGED <<cproc, thread, saved>> /\ lock = NoCPU /\ lock' = c
            /\ state' = [wakeup1(WokenByExit(p)) EXCEPT ![p] = "ZOMBIE"]
            /\ sw' = [sw EXCEPT ![p] = "exit"]
        BY <2>8 DEF Exit, sched
      <3>3. Leaves(c, p)'
        BY <1>t, <3>1, <3>2 DEF Runs, Leaves, GaveUp, TypeOK, wakeup1
      <3>4. ASSUME NEW q \in Slot \ {p} PROVE Same(q) \/ StaysOff(q)
        <4>1. /\ \/ state'[q] = state[q]
                 \/ state[q] = "SLEEPING" /\ state'[q] = "RUNNABLE"
              /\ sw'[q] = sw[q] /\ saved'[q] = saved[q]
          BY <1>t, <3>2 DEF TypeOK, wakeup1
        <4> QED
          BY <1>w, <3>2, <4>1
      <3> QED
        BY <1>s, <1>t, <3>1, <3>2, <3>3, <3>4, OnCPUStep DEF Runs
    <2>9. CASE Wait(c, p)
      <3>1. /\ cproc[c] = p /\ lock \in {c, NoCPU}
            /\ Runs(c, p) \/ Resumes(c, p)
            /\ \A d \in CPU : cproc[d] = p => d = c
        BY <1>s, <2>9, Executing, Arriving DEF Wait, At, Resumes
      <3>2. thread[c] = p /\ state[p] = "RUNNING"
        BY <3>1 DEF Runs, Resumes
      <3>3. UNCHANGED <<cproc, thread>>
        BY <2>9 DEF Wait
      <3>4. CASE \E q \in Zombies(p) : WaitReap(p, q)
        <4>1. PICK q \in Slot : WaitReap(p, q) /\ state[q] = "ZOMBIE"
          BY <3>4 DEF Zombies
        <4>2. /\ state' = [state EXCEPT ![q] = "UNUSED"] /\ lock' = NoCPU
              /\ sw' = [sw EXCEPT ![p] = "none", ![q] = "none"]
              /\ saved' = [saved EXCEPT ![p] = FALSE, ![q] = FALSE]
          BY <4>1 DEF WaitReap
        <4>3. q # p
          BY <3>2, <4>1
        <4>4. Runs(c, p)'
          BY <1>t, <3>2, <3>3, <4>2, <4>3, NoCPUAssumption DEF Runs, TypeOK
        <4>5. \A r \in Slot \ {p, q} : Same(r)
          BY <1>t, <4>2 DEF Same, TypeOK
        <4>6. StaysOff(q)
          <5>1. ASSUME NEW d \in CPU, cproc[d] = q PROVE FALSE
            <6>1. d # c
              BY <3>1, <4>3, <5>1
            <6>2. Runs(d, cproc[d])
              BY <1>s, <3>1, <5>1, <6>1, WithoutLock, NullNotSlot, NoCPUAssumption
            <6> QED
              BY <4>1, <5>1, <6>2 DEF Runs
          <5> QED
            BY <1>t, <4>2, <5>1 DEF StaysOff, Off, TypeOK
        <4> QED
          BY <1>s, <1>t, <3>1, <3>2, <3>3, <4>2, <4>4, <4>5, <4>6, OnCPUStep
      <3>5. CASE WaitFail(p)
        <4>1. /\ lock' = NoCPU /\ UNCHANGED state
              /\ sw' = [sw EXCEPT ![p] = "none"]
              /\ saved' = [saved EXCEPT ![p] = FALSE]
          BY <3>5 DEF WaitFail
        <4>2. Runs(c, p)'
          BY <1>t, <3>2, <3>3, <4>1, NoCPUAssumption DEF Runs, TypeOK
        <4>3. \A r \in Slot \ {p} : Same(r)
          BY <1>t, <4>1 DEF Same, TypeOK
        <4> QED
          BY <1>s, <1>t, <3>1, <3>2, <3>3, <4>1, <4>2, <4>3, OnCPUStep
      <3>6. CASE WaitSleep(c, p)
        <4>1. /\ lock' = c /\ state' = [state EXCEPT ![p] = "SLEEPING"]
              /\ sw' = [sw EXCEPT ![p] = "wait"]
              /\ saved' = [saved EXCEPT ![p] = FALSE]
          BY <3>6 DEF WaitSleep, sched
        <4>2. Leaves(c, p)'
          BY <1>t, <3>2, <3>3, <4>1 DEF Leaves, GaveUp, TypeOK
        <4>3. \A r \in Slot \ {p} : Same(r)
          BY <1>t, <4>1 DEF Same, TypeOK
        <4> QED
          BY <1>s, <1>t, <3>1, <3>2, <3>3, <4>1, <4>2, <4>3, OnCPUStep
      <3> QED
        BY <2>9, <3>4, <3>5, <3>6 DEF Wait
    <2>10. CASE \E ch \in Chan : Sleep(c, p, ch)
      <3>1. /\ thread[c] = p /\ sw[p] = "none" /\ lock = NoCPU /\ lock' = c
            /\ state' = [state EXCEPT ![p] = "SLEEPING"]
            /\ sw' = [sw EXCEPT ![p] = "sleep"] /\ UNCHANGED <<cproc, thread, saved>>
        BY <2>10 DEF Sleep, At, sched
      <3>2. cproc[c] = p /\ Runs(c, p) /\ \A d \in CPU : cproc[d] = p => d = c
        BY <1>s, <3>1, Executing
      <3>3. Leaves(c, p)'
        BY <1>t, <3>1, <3>2 DEF Runs, Leaves, GaveUp, TypeOK
      <3>4. \A r \in Slot \ {p} : Same(r)
        BY <1>t, <3>1 DEF Same, TypeOK
      <3> QED
        BY <1>s, <1>t, <3>1, <3>2, <3>3, <3>4, OnCPUStep
    <2>11. CASE SleepReturn(c, p) \/ SchedReturn(c, p)
      <3>1. /\ \E w \in {"sleep", "yield", "forkret"} : SwitchedTo(c, p, w)
            /\ lock' = NoCPU /\ UNCHANGED <<cproc, thread, state>>
            /\ sw' = [sw EXCEPT ![p] = "none"]
            /\ saved' = [saved EXCEPT ![p] = FALSE]
        BY <2>11 DEF SleepReturn, SchedReturn, fields
      <3>2. cproc[c] = p /\ Resumes(c, p) /\ \A d \in CPU : cproc[d] = p => d = c
        BY <1>s, <3>1, Arriving
      <3>3. Runs(c, p)'
        BY <1>t, <3>1, <3>2, NoCPUAssumption DEF Runs, Resumes, TypeOK
      <3>4. \A r \in Slot \ {p} : Same(r)
        BY <1>t, <3>1 DEF Same, TypeOK
      <3> QED
        BY <1>s, <1>t, <3>1, <3>2, <3>3, <3>4, OnCPUStep DEF Resumes
    <2>12. CASE Yield(c, p)
      <3>1. /\ thread[c] = p /\ sw[p] = "none" /\ lock = NoCPU /\ lock' = c
            /\ state' = [state EXCEPT ![p] = "RUNNABLE"]
            /\ sw' = [sw EXCEPT ![p] = "yield"] /\ UNCHANGED <<cproc, thread, saved>>
        BY <2>12 DEF Yield, sched
      <3>2. cproc[c] = p /\ Runs(c, p) /\ \A d \in CPU : cproc[d] = p => d = c
        BY <1>s, <3>1, Executing
      <3>3. Leaves(c, p)'
        BY <1>t, <3>1, <3>2 DEF Runs, Leaves, GaveUp, TypeOK
      <3>4. \A r \in Slot \ {p} : Same(r)
        BY <1>t, <3>1 DEF Same, TypeOK
      <3> QED
        BY <1>s, <1>t, <3>1, <3>2, <3>3, <3>4, OnCPUStep
    <2>14. CASE \E n \in 0 .. MaxPid : Kill(c, p, n)
      <3>1. PICK n \in 0 .. MaxPid : Kill(c, p, n)
        BY <2>14
      <3>2. /\ UNCHANGED <<cpus, sw, saved>> /\ lock = NoCPU
            /\ \A q \in Slot : \/ state'[q] = state[q]
                               \/ state[q] = "SLEEPING" /\ state'[q] = "RUNNABLE"
        BY <1>t, <3>1 DEF Kill, StateOnceKilled, TypeOK
      <3> QED
        BY <1>s, <1>t, <1>w, <3>2, OffCPUStep
    <2>15. CASE Pick(c, p)
      <3>1. /\ cproc[c] = Null /\ lock = NoCPU /\ state[p] = "RUNNABLE" /\ lock' = c
            /\ cproc' = [cproc EXCEPT ![c] = p] /\ thread' = [thread EXCEPT ![c] = p]
            /\ state' = [state EXCEPT ![p] = "RUNNING"] /\ UNCHANGED <<sw, saved>>
        BY <2>15 DEF Pick, Runnable, local
      <3>2. \A d \in CPU : cproc[d] # p
        BY <1>s, <3>1, NotRunning
      <3>3. Off(p)
        BY <1>s, <3>2 DEF SwitchInv, TableInv
      <3>4. Resumes(c, p)'
        BY <1>t, <3>1, <3>3 DEF Resumes, Off, TypeOK
      <3>5. /\ cproc'[c] = p /\ thread'[c] = p
            /\ \A d \in CPU \ {c} : cproc'[d] = cproc[d] /\ thread'[d] = thread[d]
            /\ \A r \in Slot \ {p} : Same(r)
        BY <1>t, <3>1 DEF Same, TypeOK
      <3> QED
        BY <1>s, <1>t, <3>1, <3>2, <3>4, <3>5, OnCPUStep
    <2>16. CASE Swtch(c, p)
      <3>1. /\ thread[c] = p /\ sw[p] # "none" /\ ~saved[p]
            /\ saved' = [saved EXCEPT ![p] = TRUE] /\ thread' = [thread EXCEPT ![c] = Null]
            /\ UNCHANGED <<state, lock, cproc, sw>>
        BY <2>16 DEF Swtch, fields
      <3>2. cproc[c] = p /\ Leaves(c, p)
        BY <1>s, <3>1, NullNotSlot DEF SwitchInv, CPUInv, Runs, Resumes
      <3>3. \A d \in CPU : cproc[d] = p => d = c
        BY <1>s, <3>2, NullNotSlot DEF SwitchInv, Exclusive
      <3>4. Leaves(c, p)' /\ lock = c
        BY <1>t, <3>1, <3>2 DEF Leaves, GaveUp, TypeOK
      <3>5. /\ thread'[c] = Null /\ \A d \in CPU \ {c} : thread'[d] = thread[d]
            /\ \A r \in Slot \ {p} : Same(r)
        BY <1>t, <3>1 DEF Same, TypeOK
      <3> QED
        BY <1>s, <1>t, <3>1, <3>2, <3>3, <3>4, <3>5, OnCPUStep
    <2> QED
      BY <1>2, <2>1, <2>4, <2>5, <2>6, <2>7, <2>8, <2>9, <2>10, <2>11, <2>12,
         <2>14, <2>15, <2>16 DEF ProcStep
  <1>3. ASSUME NEW c \in CPU, SwitchedBack(c) PROVE SwitchInv'
    <2>1. PICK p \in Slot : p = cproc[c]
      BY <1>t, <1>3 DEF SwitchedBack, TypeOK
    <2>2. /\ thread[c] = Null /\ lock' = NoCPU /\ cproc' = [cproc EXCEPT ![c] = Null]
          /\ UNCHANGED <<state, sw, saved, thread>>
      BY <1>3 DEF SwitchedBack, fields, local
    <2>3. Leaves(c, p) /\ \A d \in CPU : cproc[d] = p => d = c
      BY <1>s, <2>1, <2>2, NullNotSlot DEF SwitchInv, CPUInv, Exclusive, Runs, Resumes
    <2>4. Off(p)' /\ lock = c
      BY <2>2, <2>3, NullNotSlot DEF Leaves, GaveUp, Off
    <2>5. /\ cproc'[c] = Null /\ \A d \in CPU \ {c} : cproc'[d] = cproc[d]
          /\ \A r \in Slot : Same(r)
      BY <1>t, <2>2 DEF Same, TypeOK
    <2> QED
      BY <1>s, <1>t, <2>1, <2>2, <2>3, <2>4, <2>5, OnCPUStep
  <1>4. ASSUME NEW c \in CPU, InitExits(c) \/ Idle(c) PROVE SwitchInv'
    BY <1>u, <1>1, <1>4 DEF InitExits, Idle, fields, local
  <1>5. ASSUME NEW ch \in Chan, Wakeup(ch) PROVE SwitchInv'
    <2>1. /\ UNCHANGED <<cpus, sw, saved>> /\ lock = NoCPU
          /\ \A q \in Slot : \/ state'[q] = state[q]
                             \/ state[q] = "SLEEPING" /\ state'[q] = "RUNNABLE"
      BY <1>5 DEF Wakeup, wakeup1, local
    <2> QED
      BY <1>s, <1>t, <1>w, <2>1, OffCPUStep
  <1> QED
    BY <1>1, <1>2, <1>3, <1>4, <1>5 DEF Next, Step

=============================================================================
