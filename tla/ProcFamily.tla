----------------------------- MODULE ProcFamily -----------------------------
(***************************************************************************)
(* What processes own and who waits for whom: every step keeps             *)
(* MemoryOwned, the family tree, and the sleepers in wait().               *)
(***************************************************************************)
EXTENDS ProcInv

(* Memory. *)

\* Every step gives back or hands on each stack and page table.
LEMMA MemoryStep == IndInv /\ [Next]_vars => MemoryOwned'
  <1> SUFFICES ASSUME IndInv, [Next]_vars PROVE MemoryOwned'
    OBVIOUS
  <1> USE NullNotSlot DEF MemoryOwned
  <1>s. SwitchInv
    BY DEF IndInv
  <1>t. TypeOK
    BY DEF IndInv, SwitchInv
  <1>m. MemoryOwned
    BY DEF IndInv
  <1>1. CASE UNCHANGED vars
    BY <1>m, <1>1 DEF vars, fields, local
  <1>2. ASSUME NEW c \in CPU, NEW p \in Slot, ProcStep(c, p) PROVE MemoryOwned'
    <2>1. CASE Trap(c, p) \/ SysExit(c, p) \/ SysReturn(c, p)
      BY <1>m, <2>1 DEF Trap, SysExit, SysReturn, fields
    <2>4. CASE ForkAlloc(c, p)
      <3> DEFINE free == {q \in Slot : state[q] = "UNUSED"}
      <3>1. CASE free = {}
        BY <1>m, <2>4, <3>1 DEF ForkAlloc
      <3>2. CASE free # {}
        <4>1. PICK q \in free : q = First(free)
          <5> free \in SUBSET Slot
            OBVIOUS
          <5> HIDE DEF free
          <5> QED
            BY <3>2, FirstSlot
        <4>2. q \in Slot /\ state[q] = "UNUSED"
          BY <4>1
        <4>3. state' = [state EXCEPT ![q] = "EMBRYO"] /\ UNCHANGED <<kstack, pgdir>>
          BY <2>4, <3>2, <4>1 DEF ForkAlloc
        <4> HIDE DEF free
        <4> QED
          BY <1>t, <1>m, <4>2, <4>3 DEF TypeOK
      <3> QED
        BY <3>1, <3>2
    <2>5. CASE ForkKalloc(c, p)
      <3>1. np[p] \in Slot /\ state[np[p]] = "EMBRYO" /\ ~kstack[np[p]] /\ pc[p] = "fork_kalloc"
        BY <2>5, ForkChild DEF ForkKalloc, At, ForkPCs
      <3>2. pgdir[np[p]] # "live"
        BY <3>1 DEF IndInv, ForkInv
      <3> QED
        BY <1>t, <1>m, <2>5, <3>1, <3>2 DEF TypeOK, ForkKalloc
    <2>6. CASE ForkCopy(c, p)
      <3>1. np[p] \in Slot /\ state[np[p]] = "EMBRYO"
        BY <2>6, ForkChild DEF ForkCopy, At, ForkPCs
      <3> QED
        BY <1>t, <1>m, <2>6, <3>1 DEF TypeOK, ForkCopy, KstackFreed
    <2>7. CASE ForkRun(c, p)
      <3>1. np[p] \in Slot /\ kstack[np[p]] /\ pgdir[np[p]] = "live"
        BY <1>t, <2>7, ForkChild DEF ForkRun, At, ForkPCs, IndInv, ForkInv, TypeOK
      <3> QED
        BY <1>t, <1>m, <2>7, <3>1 DEF TypeOK, ForkRun
    <2>8. CASE Exit(c, p)
      <3>1. state[p] = "RUNNING"
        BY <1>s, <2>8, Executing DEF Exit, At, Runs
      <3> QED
        BY <1>t, <1>m, <2>8, <3>1 DEF TypeOK, Exit, wakeup1
    <2>9. CASE Wait(c, p)
      <3>1. state[p] = "RUNNING"
        BY <1>s, <2>9, Executing, Arriving DEF Wait, At, Runs, Resumes
      <3>2. CASE \E q \in Zombies(p) : WaitReap(p, q)
        BY <1>t, <1>m, <3>2 DEF TypeOK, WaitReap, KstackFreed, Zombies
      <3>3. CASE WaitFail(p) \/ WaitSleep(c, p)
        BY <1>t, <1>m, <3>1, <3>3 DEF TypeOK, WaitFail, WaitSleep
      <3> QED
        BY <2>9, <3>2, <3>3 DEF Wait
    <2>10. CASE \E ch \in Chan : Sleep(c, p, ch)
      <3>1. state[p] = "RUNNING"
        BY <1>s, <2>10, Executing DEF Sleep, At, Runs
      <3> QED
        BY <1>t, <1>m, <2>10, <3>1 DEF TypeOK, Sleep
    <2>11. CASE SleepReturn(c, p)
      BY <1>m, <2>11 DEF SleepReturn
    <2>12. CASE Yield(c, p)
      <3>1. state[p] = "RUNNING"
        BY <1>s, <2>12, Executing DEF Yield, Runs
      <3> QED
        BY <1>t, <1>m, <2>12, <3>1 DEF TypeOK, Yield
    <2>13. CASE SchedReturn(c, p)
      BY <1>m, <2>13 DEF SchedReturn, fields
    <2>14. CASE \E n \in 0 .. MaxPid : Kill(c, p, n)
      BY <1>t, <1>m, <2>14 DEF Kill, StateOnceKilled, TypeOK
    <2>15. CASE Pick(c, p)
      BY <1>t, <1>m, <2>15 DEF TypeOK, Pick, Runnable
    <2>16. CASE Swtch(c, p)
      BY <1>m, <2>16 DEF Swtch, fields
    <2> QED
      BY <1>2, <2>1, <2>4, <2>5, <2>6, <2>7, <2>8, <2>9, <2>10, <2>11, <2>12,
         <2>13, <2>14, <2>15, <2>16 DEF ProcStep
  <1>3. ASSUME NEW c \in CPU, SwitchedBack(c) \/ InitExits(c) \/ Idle(c) PROVE MemoryOwned'
    BY <1>m, <1>1, <1>3 DEF SwitchedBack, InitExits, Idle, fields
  <1>4. ASSUME NEW ch \in Chan, Wakeup(ch) PROVE MemoryOwned'
    BY <1>t, <1>m, <1>4 DEF Wakeup, wakeup1, TypeOK
  <1> QED
    BY <1>1, <1>2, <1>3, <1>4 DEF Next, Step

-----------------------------------------------------------------------------
(* The family tree. *)

Alive == {"RUNNABLE", "RUNNING", "SLEEPING"}

\* A step that creates, ends and adopts nobody keeps the tree.
LEMMA TreeFrame ==
  ASSUME TypeOK, TreeInv, ParentAlive, UNCHANGED parent,
         \A q \in Slot : state'[q] = state[q] \/ (state[q] \in Alive /\ state'[q] \in Alive)
  PROVE  (TreeInv /\ ParentAlive)'
  <1>1. \A q \in Slot : state[q] \in Alive => state'[q] \in Alive
    OBVIOUS
  <1>2. \A q \in Slot : parent[q] # Null => parent[q] \in Slot
    BY DEF TypeOK
  <1>3. TreeInv'
    BY <1>1, <1>2, NullNotSlot DEF TreeInv, Alive
  <1>4. ParentAlive'
    BY <1>1, <1>2 DEF ParentAlive, Alive
  <1> QED
    BY <1>3, <1>4

\* Every step keeps the family tree and gives every process a live parent.
LEMMA TreeStep == IndInv /\ [Next]_vars => (TreeInv /\ ParentAlive)'
  <1> SUFFICES ASSUME IndInv, [Next]_vars PROVE (TreeInv /\ ParentAlive)'
    OBVIOUS
  <1> USE NullNotSlot
  <1>s. SwitchInv
    BY DEF IndInv
  <1>t. TypeOK
    BY DEF IndInv, SwitchInv
  <1>m. TreeInv /\ ParentAlive
    BY DEF IndInv
  <1>1. CASE UNCHANGED vars
    BY <1>m, <1>1 DEF TreeInv, ParentAlive, vars, fields, local
  <1>2. ASSUME NEW c \in CPU, NEW p \in Slot, ProcStep(c, p) PROVE (TreeInv /\ ParentAlive)'
    <2>1. CASE Trap(c, p) \/ SysExit(c, p) \/ SysReturn(c, p)
      BY <1>m, <2>1 DEF TreeInv, ParentAlive, Trap, SysExit, SysReturn, fields
    <2>4. CASE ForkAlloc(c, p)
      <3> DEFINE free == {q \in Slot : state[q] = "UNUSED"}
      <3>1. CASE free = {}
        BY <1>m, <2>4, <3>1 DEF TreeInv, ParentAlive, ForkAlloc
      <3>2. CASE free # {}
        <4>1. PICK q \in free : q = First(free)
          <5> free \in SUBSET Slot
            OBVIOUS
          <5> HIDE DEF free
          <5> QED
            BY <3>2, FirstSlot
        <4>2. q \in Slot /\ state[q] = "UNUSED"
          BY <4>1
        <4>3. state' = [state EXCEPT ![q] = "EMBRYO"] /\ UNCHANGED parent
          BY <2>4, <3>2, <4>1 DEF ForkAlloc
        <4> HIDE DEF free
        <4> QED
          BY <1>t, <1>m, <4>2, <4>3 DEF TreeInv, ParentAlive, TypeOK
      <3> QED
        BY <3>1, <3>2
    <2>5. CASE ForkKalloc(c, p)
      <3>1. np[p] \in Slot /\ state[np[p]] = "EMBRYO" /\ parent[np[p]] = Null
        BY <2>5, ForkChild DEF ForkKalloc, At, ForkPCs, IndInv, ForkInv
      <3>2. UNCHANGED parent /\ (UNCHANGED state \/ state' = [state EXCEPT ![np[p]] = "UNUSED"])
        BY <2>5 DEF ForkKalloc
      <3> QED
        BY <1>t, <1>m, <3>1, <3>2 DEF TreeInv, ParentAlive, TypeOK
    <2>6. CASE ForkCopy(c, p)
      <3>1. np[p] \in Slot /\ state[np[p]] = "EMBRYO" /\ parent[np[p]] = Null
        BY <2>6, ForkChild DEF ForkCopy, At, ForkPCs, IndInv, ForkInv
      <3>2. state[p] = "RUNNING"
        BY <1>s, <2>6, Executing DEF ForkCopy, At, Runs
      <3>3. \/ UNCHANGED state /\ parent' = [parent EXCEPT ![np[p]] = p]
            \/ UNCHANGED parent /\ state' = [state EXCEPT ![np[p]] = "UNUSED"]
        BY <2>6 DEF ForkCopy
      <3>4. PICK q \in Slot : q = np[p]
        BY <3>1
      <3>5. \A r \in Slot : state[r] \in Alive => state'[r] = state[r]
        BY <1>t, <3>1, <3>3 DEF TypeOK, Alive
      <3>6. ASSUME NEW r \in Slot, r # q
            PROVE  parent'[r] = parent[r] /\ state'[r] = state[r] /\ (parent[r] # Null => parent[r] \in Slot)
        BY <1>t, <3>3, <3>4, <3>6 DEF TypeOK
      <3>7. /\ q # p /\ q # initproc
            /\ \/ state'[q] = "EMBRYO" /\ parent'[q] = p
               \/ state'[q] = "UNUSED" /\ parent'[q] = Null
        BY <1>t, <1>m, <3>1, <3>2, <3>3, <3>4 DEF TypeOK, TreeInv
      <3>8. TreeInv'
        BY <1>m, <3>2, <3>5, <3>6, <3>7 DEF TreeInv, Alive
      <3>9. ParentAlive'
        BY <1>m, <3>5, <3>6, <3>7 DEF ParentAlive, Alive
      <3> QED
        BY <3>8, <3>9
    <2>7. CASE ForkRun(c, p)
      <3>1. np[p] \in Slot /\ state[np[p]] = "EMBRYO" /\ pc[p] = "fork_run"
        BY <2>7, ForkChild DEF ForkRun, At, ForkPCs
      <3>2. parent[np[p]] = p
        BY <3>1 DEF IndInv, ForkInv
      <3>3. state[p] = "RUNNING"
        BY <1>s, <2>7, RunningAt DEF ForkRun
      <3>4. state' = [state EXCEPT ![np[p]] = "RUNNABLE"] /\ UNCHANGED parent
        BY <2>7 DEF ForkRun
      <3>5. PICK q \in Slot : q = np[p]
        BY <3>1
      <3>6. /\ \A r \in Slot \ {q} : state'[r] = state[r]
            /\ state'[q] = "RUNNABLE" /\ q # p
        BY <1>t, <3>1, <3>3, <3>4, <3>5 DEF TypeOK
      <3>7. \A r \in Slot : parent[r] # Null => parent[r] \in Slot
        BY <1>t DEF TypeOK
      <3>8. TreeInv'
        BY <1>m, <3>1, <3>4, <3>5, <3>6, <3>7 DEF TreeInv
      <3>9. ParentAlive'
        BY <1>m, <3>2, <3>3, <3>4, <3>5, <3>6, <3>7 DEF ParentAlive
      <3> QED
        BY <3>8, <3>9
    <2>8. CASE Exit(c, p)
      <3>1. state[p] = "RUNNING" /\ p # initproc
        BY <1>s, <2>8, Executing DEF Exit, At, Runs
      <3>2. /\ state' = [wakeup1(WokenByExit(p)) EXCEPT ![p] = "ZOMBIE"]
            /\ parent' = Reparented(p)
        BY <2>8 DEF Exit
      <3>3. /\ state'[p] = "ZOMBIE"
            /\ \A q \in Slot \ {p} :
                 state'[q] = state[q] \/ (state[q] \in Alive /\ state'[q] \in Alive)
        BY <1>t, <3>2 DEF TypeOK, wakeup1, Alive
      <3>4. \A q \in Slot : parent'[q] = IF parent[q] = p THEN initproc ELSE parent[q]
        BY <3>2 DEF Reparented
      <3>5. \A q \in Slot : parent[q] # Null => parent[q] \in Slot
        BY <1>t DEF TypeOK
      <3>6. \A q \in Slot \ {p} : state[q] \in Alive => state'[q] \in Alive
        BY <3>3
      <3>7. state'[initproc] \in Alive
        BY <1>m, <3>1, <3>6 DEF TreeInv, Alive
      <3>8. TreeInv'
        BY <1>m, <3>1, <3>3, <3>4, <3>5, <3>6, <3>7 DEF TreeInv, Alive
      <3>9. ParentAlive'
        BY <1>m, <3>1, <3>3, <3>4, <3>5, <3>6, <3>7 DEF ParentAlive, Alive
      <3> QED
        BY <3>8, <3>9
    <2>9. CASE Wait(c, p)
      <3>1. state[p] = "RUNNING"
        BY <1>s, <2>9, RunningAt, RunningSwitchedTo DEF Wait
      <3>2. CASE \E q \in Zombies(p) : WaitReap(p, q)
        <4>1. PICK z \in Slot : WaitReap(p, z) /\ state[z] = "ZOMBIE"
          BY <3>2 DEF Zombies
        <4>2. /\ \A q \in Slot \ {z} : state'[q] = state[q] /\ parent'[q] = parent[q]
              /\ state'[z] = "UNUSED" /\ parent'[z] = Null
          BY <1>t, <4>1 DEF TypeOK, WaitReap
        <4>3. \A q \in Slot : parent[q] # Null => parent[q] \in Slot
          BY <1>t DEF TypeOK
        <4>4. TreeInv'
          BY <1>m, <4>1, <4>2, <4>3 DEF TreeInv
        <4>5. ParentAlive'
          BY <1>m, <4>1, <4>2, <4>3 DEF ParentAlive
        <4> QED
          BY <4>4, <4>5
      <3>3. CASE WaitFail(p) \/ WaitSleep(c, p)
        <4>1. /\ UNCHANGED state \/ state' = [state EXCEPT ![p] = "SLEEPING"]
              /\ UNCHANGED parent
          BY <3>3 DEF WaitFail, WaitSleep
        <4>2. \A q \in Slot : state'[q] = state[q] \/ (state[q] \in Alive /\ state'[q] \in Alive)
          BY <1>t, <3>1, <4>1 DEF TypeOK, Alive
        <4> QED
          BY <1>t, <1>m, <4>1, <4>2, TreeFrame
      <3> QED
        BY <2>9, <3>2, <3>3 DEF Wait
    <2>10. CASE (\E ch \in Chan : Sleep(c, p, ch)) \/ Yield(c, p) \/ Pick(c, p)
      <3>1. state[p] \in {"RUNNING", "RUNNABLE"}
        BY <1>s, <2>10, RunningAt, Executing DEF Sleep, Yield, Pick, Runnable, Runs
      <3>2. UNCHANGED parent /\ \E st \in Alive : state' = [state EXCEPT ![p] = st]
        BY <2>10 DEF Sleep, Yield, Pick, Alive
      <3>3. \A q \in Slot : state'[q] = state[q] \/ (state[q] \in Alive /\ state'[q] \in Alive)
        BY <1>t, <3>1, <3>2 DEF TypeOK, Alive
      <3> QED
        BY <1>t, <1>m, <3>2, <3>3, TreeFrame
    <2>11. CASE SleepReturn(c, p) \/ SchedReturn(c, p) \/ Swtch(c, p)
      BY <1>t, <1>m, <2>11, TreeFrame DEF SleepReturn, SchedReturn, Swtch, fields
    <2>14. CASE \E n \in 0 .. MaxPid : Kill(c, p, n)
      <3>1. /\ UNCHANGED parent
            /\ \A q \in Slot : \/ state'[q] = state[q]
                               \/ state[q] = "SLEEPING" /\ state'[q] = "RUNNABLE"
        BY <1>t, <2>14 DEF Kill, StateOnceKilled, TypeOK
      <3> QED
        BY <1>t, <1>m, <3>1, TreeFrame DEF Alive
    <2> QED
      BY <1>2, <2>1, <2>4, <2>5, <2>6, <2>7, <2>8, <2>9, <2>10, <2>11, <2>14
      DEF ProcStep
  <1>3. ASSUME NEW c \in CPU, SwitchedBack(c) \/ InitExits(c) \/ Idle(c)
        PROVE  (TreeInv /\ ParentAlive)'
    BY <1>m, <1>1, <1>3 DEF TreeInv, ParentAlive, SwitchedBack, InitExits, Idle, fields
  <1>4. ASSUME NEW ch \in Chan, Wakeup(ch) PROVE (TreeInv /\ ParentAlive)'
    <2>1. /\ UNCHANGED parent
          /\ \A q \in Slot : \/ state'[q] = state[q]
                             \/ state[q] = "SLEEPING" /\ state'[q] = "RUNNABLE"
      BY <1>4 DEF Wakeup, wakeup1
    <2> QED
      BY <1>t, <1>m, <2>1, TreeFrame DEF Alive
  <1> QED
    BY <1>1, <1>2, <1>3, <1>4 DEF Next, Step
-----------------------------------------------------------------------------
(* Sleepers in wait(). *)

InWait(q) == state[q] = "SLEEPING" /\ sw[q] = "wait"

\* A step that puts nobody to sleep in wait(), makes no zombie, and neither
\* moves nor kills a sleeper, keeps the sleepers as they were.
LEMMA WaitFrame ==
  ASSUME TypeOK, WaitInv, NoMissedExit, NoMissedKill,
         \A q \in Slot : InWait(q)' => InWait(q) /\ chan'[q] = chan[q] /\ killed'[q] = killed[q],
         \A q \in Slot : state'[q] = "ZOMBIE" => state[q] = "ZOMBIE" /\ parent'[q] = parent[q]
  PROVE  (WaitInv /\ NoMissedExit /\ NoMissedKill)'
  <1>1. WaitInv' /\ NoMissedKill'
    BY DEF WaitInv, NoMissedKill, InWait
  <1>2. NoMissedExit'
    <2> SUFFICES ASSUME NEW p \in Slot, InWait(p)', NEW q \in Slot,
                        parent'[q] = p, state'[q] = "ZOMBIE"
                 PROVE  FALSE
      BY DEF NoMissedExit, Zombies, InWait
    <2>1. q \in Zombies(p)
      BY DEF Zombies
    <2> QED
      BY <2>1 DEF NoMissedExit, InWait
  <1> QED
    BY <1>1, <1>2

\* Every step keeps: a sleeper in wait() sleeps on itself, has no zombie child
\* and has not been killed.
LEMMA WaitStep == IndInv /\ [Next]_vars => (WaitInv /\ NoMissedExit /\ NoMissedKill)'
  <1> DEFINE Inv == WaitInv /\ NoMissedExit /\ NoMissedKill
  <1> SUFFICES ASSUME IndInv, [Next]_vars PROVE Inv'
    OBVIOUS
  <1> USE NullNotSlot
  <1>s. SwitchInv
    BY DEF IndInv
  <1>t. TypeOK
    BY DEF IndInv, SwitchInv
  <1>m. WaitInv /\ NoMissedExit /\ NoMissedKill
    BY DEF IndInv
  <1>f. ASSUME \A q \in Slot :
                 \/ /\ state'[q] = state[q] /\ sw'[q] = sw[q] /\ chan'[q] = chan[q]
                    /\ killed'[q] = killed[q] /\ parent'[q] = parent[q]
                 \/ ~InWait(q)' /\ state'[q] # "ZOMBIE"
        PROVE  Inv'
    BY <1>t, <1>m, <1>f, WaitFrame DEF InWait
  <1>1. CASE UNCHANGED vars
    BY <1>f, <1>1 DEF vars, fields, local
  <1>2. ASSUME NEW c \in CPU, NEW p \in Slot, ProcStep(c, p) PROVE Inv'
    <2>1. CASE Trap(c, p) \/ SysExit(c, p) \/ SysReturn(c, p)
      <3>1. state[p] = "RUNNING"
        BY <1>s, <2>1, RunningAt DEF Trap, SysExit, SysReturn
      <3>2. /\ UNCHANGED <<state, sw, chan, parent>>
            /\ \A q \in Slot \ {p} : killed'[q] = killed[q]
        BY <1>t, <2>1 DEF Trap, SysExit, SysReturn, fields, TypeOK
      <3> QED
        BY <1>f, <3>1, <3>2 DEF InWait
    <2>4. CASE ForkAlloc(c, p)
      <3>1. /\ UNCHANGED <<sw, chan, parent, killed>>
            /\ \A q \in Slot : state'[q] = state[q] \/ state'[q] = "EMBRYO"
        BY <1>t, <2>4 DEF ForkAlloc, TypeOK
      <3> QED
        BY <1>f, <3>1 DEF InWait
    <2>5. CASE ForkKalloc(c, p)
      <3>1. np[p] \in Slot /\ state[np[p]] = "EMBRYO"
        BY <2>5, ForkChild DEF ForkKalloc, At, ForkPCs
      <3>2. UNCHANGED <<chan, parent, killed>>
        BY <2>5 DEF ForkKalloc
      <3>3. \A q \in Slot : \/ state'[q] = state[q] /\ sw'[q] = sw[q]
                            \/ state'[q] \in {"EMBRYO", "UNUSED"}
        BY <1>t, <2>5, <3>1 DEF ForkKalloc, TypeOK
      <3> QED
        BY <1>f, <3>2, <3>3 DEF InWait
    <2>6. CASE ForkCopy(c, p)
      <3>1. np[p] \in Slot /\ state[np[p]] = "EMBRYO"
        BY <2>6, ForkChild DEF ForkCopy, At, ForkPCs
      <3>2. /\ UNCHANGED <<chan, killed>>
            /\ \A q \in Slot : q = np[p] \/ parent'[q] = parent[q]
        BY <1>t, <2>6 DEF ForkCopy, TypeOK
      <3>3. \A q \in Slot : \/ q # np[p] /\ state'[q] = state[q] /\ sw'[q] = sw[q]
                            \/ state'[q] \in {"EMBRYO", "UNUSED"}
        BY <1>t, <2>6, <3>1 DEF ForkCopy, TypeOK
      <3> QED
        BY <1>f, <3>2, <3>3 DEF InWait
    <2>7. CASE ForkRun(c, p)
      <3>1. /\ UNCHANGED <<sw, chan, parent, killed>>
            /\ \A q \in Slot : state'[q] = state[q] \/ state'[q] = "RUNNABLE"
        BY <1>t, <2>7 DEF ForkRun, TypeOK
      <3> QED
        BY <1>f, <3>1 DEF InWait
    <2>8. CASE Exit(c, p)
      <3>1. UNCHANGED <<chan, killed>> /\ parent' = Reparented(p)
        BY <2>8 DEF Exit
      <3>2. ASSUME NEW r \in Slot, InWait(r)'
            PROVE  r # p /\ InWait(r) /\ chan[r] = r /\ r \notin WokenByExit(p)
        <4>1. r # p /\ InWait(r) /\ chan[r] \notin WokenByExit(p)
          BY <1>t, <2>8, <3>2 DEF Exit, wakeup1, sched, TypeOK, InWait
        <4> QED
          BY <1>m, <4>1 DEF WaitInv, InWait
      <3>3. ASSUME NEW q \in Slot, q # p, state'[q] = "ZOMBIE" PROVE state[q] = "ZOMBIE"
        BY <1>t, <2>8, <3>3 DEF Exit, wakeup1, TypeOK
      <3>4. parent[p] # p
        BY DEF IndInv, TreeInv
      <3>5. ASSUME NEW r \in Slot, InWait(r)',
                   NEW q \in Slot, parent'[q] = r, state'[q] = "ZOMBIE"
            PROVE  FALSE
        <4>1. r # p /\ r \notin WokenByExit(p) /\ Zombies(r) = {}
          BY <1>m, <3>2, <3>5 DEF NoMissedExit, InWait
        <4>2. CASE q = p
          BY <3>1, <3>4, <3>5, <4>1, <4>2 DEF Reparented, WokenByExit
        <4>3. CASE q # p /\ parent[q] = p
          BY <3>1, <3>3, <3>5, <4>1, <4>3 DEF Reparented, WokenByExit
        <4>4. CASE q # p /\ parent[q] # p
          BY <3>1, <3>3, <3>5, <4>1, <4>4 DEF Reparented, Zombies
        <4> QED
          BY <4>2, <4>3, <4>4
      <3>6. NoMissedExit'
        BY <3>5 DEF NoMissedExit, Zombies, InWait
      <3>7. WaitInv' /\ NoMissedKill'
        BY <1>m, <3>1, <3>2 DEF WaitInv, NoMissedKill, InWait
      <3> QED
        BY <3>6, <3>7
    <2>9. CASE Wait(c, p)
      <3>1. state[p] = "RUNNING"
        BY <1>s, <2>9, RunningAt, RunningSwitchedTo DEF Wait
      <3>2. CASE \E q \in Zombies(p) : WaitReap(p, q)
        <4>1. PICK q \in Slot : WaitReap(p, q)
          BY <3>2 DEF Zombies
        <4>2. \A r \in Slot \ {p, q} :
                /\ state'[r] = state[r] /\ sw'[r] = sw[r] /\ chan'[r] = chan[r]
                /\ killed'[r] = killed[r] /\ parent'[r] = parent[r]
          BY <1>t, <4>1 DEF WaitReap, TypeOK
        <4>3. state'[p] \in {"RUNNING", "UNUSED"} /\ state'[q] = "UNUSED"
          BY <1>t, <3>1, <4>1 DEF WaitReap, TypeOK
        <4> QED
          BY <1>f, <4>2, <4>3 DEF InWait
      <3>3. CASE WaitFail(p)
        <4>1. /\ UNCHANGED <<state, parent, killed>>
              /\ \A r \in Slot \ {p} : sw'[r] = sw[r] /\ chan'[r] = chan[r]
          BY <1>t, <3>3 DEF TypeOK, WaitFail
        <4> QED
          BY <1>f, <3>1, <4>1 DEF InWait
      <3>4. CASE WaitSleep(c, p)
        <4>1. /\ UNCHANGED <<parent, killed>> /\ Zombies(p) = {} /\ ~killed[p]
              /\ chan' = [chan EXCEPT ![p] = p] /\ sw' = [sw EXCEPT ![p] = "wait"]
              /\ state' = [state EXCEPT ![p] = "SLEEPING"]
          BY <3>4 DEF WaitSleep, NoPointWaiting, sched
        <4>2. ASSUME NEW r \in Slot \ {p}
              PROVE  (InWait(r)' <=> InWait(r)) /\ chan'[r] = chan[r]
          BY <1>t, <4>1 DEF TypeOK, InWait
        <4>3. \A r \in Slot : state'[r] = "ZOMBIE" <=> state[r] = "ZOMBIE"
          BY <1>t, <3>1, <4>1 DEF TypeOK
        <4>4. \A r \in Slot : Zombies(r)' = Zombies(r)
          BY <4>1, <4>3 DEF Zombies
        <4>5. chan'[p] = p
          BY <1>t, <4>1 DEF TypeOK
        <4>6. WaitInv' /\ NoMissedKill'
          BY <1>m, <4>1, <4>2, <4>5 DEF WaitInv, NoMissedKill, InWait
        <4>7. NoMissedExit'
          BY <1>m, <4>1, <4>2, <4>4 DEF NoMissedExit, InWait
        <4> QED
          BY <4>6, <4>7
      <3> QED
        BY <2>9, <3>2, <3>3, <3>4 DEF Wait
    <2>10. CASE \E ch \in Chan : Sleep(c, p, ch)
      <3>1. PICK ch \in Chan : Sleep(c, p, ch)
        BY <2>10
      <3>2. /\ UNCHANGED <<parent, killed>>
            /\ chan' = [chan EXCEPT ![p] = ch] /\ sw' = [sw EXCEPT ![p] = "sleep"]
            /\ state' = [state EXCEPT ![p] = "SLEEPING"]
        BY <3>1 DEF Sleep, sched
      <3>3. /\ \A r \in Slot \ {p} :
                 state'[r] = state[r] /\ sw'[r] = sw[r] /\ chan'[r] = chan[r]
            /\ sw'[p] = "sleep" /\ state'[p] = "SLEEPING"
        BY <1>t, <3>2 DEF TypeOK
      <3> QED
        BY <1>f, <3>2, <3>3 DEF InWait
    <2>11. CASE SleepReturn(c, p) \/ SchedReturn(c, p)
      <3>1. state[p] = "RUNNING"
        BY <1>s, <2>11, RunningSwitchedTo DEF SleepReturn, SchedReturn
      <3>2. /\ UNCHANGED <<state, parent, killed>>
            /\ \A r \in Slot \ {p} : sw'[r] = sw[r] /\ chan'[r] = chan[r]
        BY <1>t, <2>11 DEF TypeOK, SleepReturn, SchedReturn, fields
      <3> QED
        BY <1>f, <3>1, <3>2 DEF InWait
    <2>12. CASE Yield(c, p) \/ Pick(c, p)
      <3>1. /\ UNCHANGED <<parent, killed, chan>>
            /\ \A r \in Slot \ {p} : state'[r] = state[r] /\ sw'[r] = sw[r]
            /\ state'[p] \in {"RUNNABLE", "RUNNING"}
        BY <1>t, <2>12 DEF TypeOK, Yield, Pick, sched, local
      <3> QED
        BY <1>f, <3>1 DEF InWait
    <2>14. CASE \E n \in 0 .. MaxPid : Kill(c, p, n)
      <3>1. PICK n \in 0 .. MaxPid : Kill(c, p, n)
        BY <2>14
      <3>2. UNCHANGED <<parent, sw, chan>>
        BY <3>1 DEF Kill
      <3>3. ASSUME NEW q \in Slot
            PROVE  \/ state'[q] = state[q] /\ killed'[q] = killed[q]
                   \/ state'[q] # "SLEEPING" /\ (state'[q] = "ZOMBIE" => state[q] = "ZOMBIE")
        BY <1>t, <3>1 DEF Kill, StateOnceKilled, TypeOK
      <3> QED
        BY <1>t, <1>m, <3>2, <3>3, WaitFrame DEF InWait
    <2>16. CASE Swtch(c, p)
      BY <1>f, <2>16 DEF Swtch, fields
    <2> QED
      BY <1>2, <2>1, <2>4, <2>5, <2>6, <2>7, <2>8, <2>9, <2>10, <2>11, <2>12,
         <2>14, <2>16 DEF ProcStep
  <1>3. ASSUME NEW c \in CPU, SwitchedBack(c) \/ InitExits(c) \/ Idle(c) PROVE Inv'
    BY <1>f, <1>1, <1>3 DEF SwitchedBack, InitExits, Idle, fields, local
  <1>4. ASSUME NEW ch \in Chan, Wakeup(ch) PROVE Inv'
    <2>1. /\ UNCHANGED <<parent, sw, chan, killed>>
          /\ \A q \in Slot : state'[q] = state[q] \/ state'[q] = "RUNNABLE"
      BY <1>4 DEF Wakeup, wakeup1, local
    <2> QED
      BY <1>f, <2>1 DEF InWait
  <1> QED
    BY <1>1, <1>2, <1>3, <1>4 DEF Next, Step

=============================================================================
