------------------------------ MODULE ProcFork ------------------------------
(***************************************************************************)
(* fork() in progress: every step keeps the part ForkInv of the inductive  *)
(* invariant. Steps outside fork() leave the EMBRYOs and where their       *)
(* parents are alone (ForkFrame).                                          *)
(***************************************************************************)
EXTENDS ProcInv

(* What a fork() in progress owns. *)

\* A step outside fork() leaves every fork() in progress alone: the EMBRYOs and
\* what they own, and where their parents are.
LEMMA ForkFrame ==
  ASSUME TypeOK, ForkInv, UNCHANGED np,
         \A q \in Slot : state'[q] = "EMBRYO" <=> state[q] = "EMBRYO",
         \A q \in Slot : state[q] = "EMBRYO" =>
           kstack'[q] = kstack[q] /\ sw'[q] = sw[q] /\ pgdir'[q] = pgdir[q] /\ parent'[q] = parent[q],
         \A q \in Slot : np[q] # Null =>
           pc'[q] = pc[q] /\ state'[q] \in {"RUNNABLE", "RUNNING"} /\ sw'[q] \in {"none", "yield"},
         \A q \in Slot : np[q] = Null => pc'[q] \notin ForkPCs
  PROVE  ForkInv'
  <1>1. ASSUME NEW p \in Slot, np[p] # Null
        PROVE  /\ pc'[p] \in ForkPCs
               /\ state'[np[p]] = "EMBRYO"
               /\ pc'[p] = "fork_kalloc" <=> ~kstack'[np[p]]
               /\ kstack'[np[p]] <=> sw'[np[p]] = "forkret"
               /\ pc'[p] = "fork_run" <=> pgdir'[np[p]] = "live"
               /\ parent'[np[p]] = IF pc'[p] = "fork_run" THEN p ELSE Null
    <2>1. np[p] \in Slot
      BY <1>1 DEF TypeOK
    <2>2. state[np[p]] = "EMBRYO"
      BY <1>1 DEF ForkInv
    <2>3. /\ pc[p] \in ForkPCs
          /\ pc[p] = "fork_kalloc" <=> ~kstack[np[p]]
          /\ kstack[np[p]] <=> sw[np[p]] = "forkret"
          /\ pc[p] = "fork_run" <=> pgdir[np[p]] = "live"
          /\ parent[np[p]] = IF pc[p] = "fork_run" THEN p ELSE Null
      BY <1>1 DEF ForkInv
    <2>4. /\ kstack'[np[p]] = kstack[np[p]] /\ sw'[np[p]] = sw[np[p]]
          /\ pgdir'[np[p]] = pgdir[np[p]] /\ parent'[np[p]] = parent[np[p]]
      BY <2>1, <2>2
    <2>5. pc'[p] = pc[p] /\ state'[np[p]] = "EMBRYO"
      BY <1>1, <2>1, <2>2
    <2> QED
      BY <2>3, <2>4, <2>5
  <1>2. \A p, q \in Slot : np[p] # Null /\ np[p] = np[q] => p = q
    BY DEF ForkInv
  <1>3. \A q \in Slot : state'[q] = "EMBRYO" => \E p \in Slot : np[p] = q
    BY DEF ForkInv
  <1> QED
    BY <1>1, <1>2, <1>3 DEF ForkInv

\* A process outside fork() has no fork() in progress, and no EMBRYO child.
LEMMA NotForking ==
  ASSUME TypeOK, ForkInv, NEW p \in Slot,
         pc[p] \notin ForkPCs \/ sw[p] \notin {"none", "yield"}
  PROVE  np[p] = Null /\ \A q \in Slot : state[q] = "EMBRYO" => parent[q] # p
  <1>1. np[p] = Null
    BY DEF ForkInv
  <1>2. ASSUME NEW q \in Slot, state[q] = "EMBRYO", parent[q] = p PROVE FALSE
    <2>1. PICK r \in Slot : np[r] = q
      BY <1>2 DEF ForkInv
    <2>2. parent[q] \in {r, Null}
      BY <2>1, NullNotSlot DEF ForkInv
    <2> QED
      BY <1>1, <1>2, <2>1, <2>2, NullNotSlot
  <1> QED
    BY <1>1, <1>2

\* A process with a fork() in progress is in the middle of it.
LEMMA Forking ==
  ASSUME ForkInv, NEW p \in Slot, np[p] # Null
  PROVE  pc[p] \in ForkPCs /\ state[p] \in {"RUNNABLE", "RUNNING"} /\ sw[p] \in {"none", "yield"}
  BY DEF ForkInv

\* Every step keeps what the forks in progress own.
LEMMA ForkStep == IndInv /\ [Next]_vars => ForkInv'
  <1> SUFFICES ASSUME IndInv, [Next]_vars PROVE ForkInv'
    OBVIOUS
  <1> USE NullNotSlot
  <1>s. SwitchInv
    BY DEF IndInv
  <1>t. TypeOK
    BY DEF IndInv, SwitchInv
  <1>f. ForkInv
    BY DEF IndInv
  <1>p. ASSUME NEW p \in Slot, np[p] = Null,
               \A q \in Slot \ {p} : sw'[q] = sw[q] /\ pc'[q] = pc[q],
               \A q \in Slot \ {p} : \/ state'[q] = state[q]
                                     \/ state[q] = "SLEEPING" /\ state'[q] = "RUNNABLE",
               state[p] # "EMBRYO", state'[p] # "EMBRYO", pc'[p] \notin ForkPCs,
               UNCHANGED <<np, kstack, pgdir, parent>>
        PROVE  ForkInv'
    <2>1. \A q \in Slot : np[q] = Null => pc[q] \notin ForkPCs
      BY <1>f DEF ForkInv
    <2> QED
      BY <1>t, <1>f, <1>p, <2>1, ForkFrame, Forking
  <1>1. CASE UNCHANGED vars
    BY <1>f, <1>1 DEF ForkInv, ForkPCs, vars, fields, local
  <1>2. ASSUME NEW c \in CPU, NEW p \in Slot, ProcStep(c, p) PROVE ForkInv'
    <2>1. CASE Trap(c, p)
      BY <1>t, <1>f, <2>1 DEF ForkInv, ForkPCs, TypeOK, Trap, At
    <2>2. CASE SysExit(c, p) \/ SysReturn(c, p)
      BY <1>t, <1>f, <2>2 DEF ForkInv, ForkPCs, TypeOK, SysExit, SysReturn, At, fields
    <2>4. CASE ForkAlloc(c, p)
      <3> DEFINE free == {q \in Slot : state[q] = "UNUSED"}
      <3>1. CASE free = {}
        BY <1>t, <1>f, <2>4, <3>1 DEF ForkInv, ForkPCs, ForkAlloc, At, TypeOK
      <3>2. CASE free # {}
        <4>1. PICK q \in free : q = First(free)
          <5> free \in SUBSET Slot
            OBVIOUS
          <5> HIDE DEF free
          <5> QED
            BY <3>2, FirstSlot
        <4>2. q \in Slot /\ state[q] = "UNUSED" /\ q # p
          BY <1>s, <2>4, <4>1, Executing DEF ForkAlloc, At, Runs
        <4>3. sw[q] = "none" /\ ~kstack[q] /\ pgdir[q] # "live" /\ parent[q] = Null
          <5>1. Off(q)
            BY <1>s, <4>2, Unborn DEF SwitchInv, TableInv
          <5> QED
            BY <4>2, <5>1 DEF IndInv, Off, MemoryOwned, TreeInv
        <4>4. /\ state' = [state EXCEPT ![q] = "EMBRYO"]
              /\ np' = [np EXCEPT ![p] = q]
              /\ pc' = [pc EXCEPT ![p] = "fork_kalloc"]
              /\ UNCHANGED <<parent, kstack, pgdir, sw>>
          BY <2>4, <3>2, <4>1 DEF ForkAlloc
        <4>5. state[p] = "RUNNING" /\ sw[p] = "none" /\ np[p] = Null /\ pc[p] = "syscall"
          BY <1>s, <1>t, <1>f, <2>4, RunningAt, NotForking DEF ForkAlloc, ForkPCs
        <4> HIDE DEF free
        <4> QED
          BY <1>t, <1>f, <4>2, <4>3, <4>4, <4>5 DEF ForkInv, ForkPCs, TypeOK
      <3> QED
        BY <3>1, <3>2
    <2>5. CASE ForkKalloc(c, p)
      <3> DEFINE q == np[p]
      <3>1. q \in Slot /\ state[q] = "EMBRYO" /\ sw[q] = "none" /\ q # p /\ np[q] = Null
        <4>1. q \in Slot /\ state[q] = "EMBRYO" /\ sw[q] = "none"
          BY <2>5, ForkChild DEF ForkPCs, ForkKalloc, At
        <4>2. state[p] = "RUNNING"
          BY <1>s, <2>5, RunningAt DEF ForkKalloc
        <4> QED
          BY <1>f, <4>1, <4>2, Forking
      <3> DEFINE Stack == /\ kstack' = [kstack EXCEPT ![q] = TRUE]
                          /\ sw' = [sw EXCEPT ![q] = "forkret"]
                          /\ pc' = [pc EXCEPT ![p] = "fork_copy", ![q] = "user"]
                          /\ UNCHANGED <<state, np>>
                 NoStack == /\ state' = [state EXCEPT ![q] = "UNUSED"]
                            /\ pc' = [pc EXCEPT ![p] = "user"]
                            /\ np' = [np EXCEPT ![p] = Null]
                            /\ UNCHANGED <<kstack, sw>>
      <3>2. /\ pc[p] = "fork_kalloc" /\ np[p] = q
            /\ Stack \/ NoStack
            /\ UNCHANGED <<pgdir, parent>>
        BY <2>5 DEF ForkKalloc, At
      <3> HIDE DEF q
      <3>3. CASE Stack
        BY <1>t, <1>f, <3>1, <3>2, <3>3 DEF ForkInv, ForkPCs, TypeOK
      <3>4. CASE NoStack
        BY <1>t, <1>f, <3>1, <3>2, <3>4 DEF ForkInv, ForkPCs, TypeOK
      <3> QED
        BY <3>2, <3>3, <3>4
    <2>6. CASE ForkCopy(c, p)
      <3> DEFINE q == np[p]
      <3>1. q \in Slot /\ state[q] = "EMBRYO" /\ sw[q] = "forkret" /\ q # p /\ np[q] = Null
        <4>1. q \in Slot /\ state[q] = "EMBRYO" /\ sw[q] = "forkret"
          BY <2>6, ForkChild DEF ForkPCs, ForkCopy, At
        <4>2. state[p] = "RUNNING"
          BY <1>s, <2>6, RunningAt DEF ForkCopy
        <4> QED
          BY <1>f, <4>1, <4>2, Forking
      <3> DEFINE Copy == /\ pgdir' = [pgdir EXCEPT ![q] = "live"]
                         /\ parent' = [parent EXCEPT ![q] = p]
                         /\ pc' = [pc EXCEPT ![p] = "fork_run"]
                         /\ UNCHANGED <<state, kstack, sw, np>>
                 NoCopy == /\ state' = [state EXCEPT ![q] = "UNUSED"]
                           /\ pgdir' = [pgdir EXCEPT ![q] = "none"]
                           /\ kstack' = [kstack EXCEPT ![q] = FALSE]
                           /\ sw' = [sw EXCEPT ![q] = "none"]
                           /\ pc' = [pc EXCEPT ![p] = "user"]
                           /\ np' = [np EXCEPT ![p] = Null]
                           /\ UNCHANGED parent
      <3>2. pc[p] = "fork_copy" /\ np[p] = q /\ (Copy \/ NoCopy)
        BY <2>6 DEF ForkCopy, At, KstackFreed
      <3> HIDE DEF q
      <3>3. CASE Copy
        BY <1>t, <1>f, <3>1, <3>2, <3>3 DEF ForkInv, ForkPCs, TypeOK
      <3>4. CASE NoCopy
        BY <1>t, <1>f, <3>1, <3>2, <3>4 DEF ForkInv, ForkPCs, TypeOK
      <3> QED
        BY <3>2, <3>3, <3>4
    <2>7. CASE ForkRun(c, p)
      <3> DEFINE q == np[p]
      <3>1. q \in Slot /\ state[q] = "EMBRYO" /\ q # p /\ np[q] = Null
        BY <1>f, <2>7, ForkChild DEF ForkInv, ForkPCs, ForkRun, At
      <3>2. /\ state' = [state EXCEPT ![q] = "RUNNABLE"]
            /\ pc' = [pc EXCEPT ![p] = "user"]
            /\ np' = [np EXCEPT ![p] = Null]
            /\ UNCHANGED <<sw, kstack, pgdir, parent>>
        BY <2>7 DEF ForkRun
      <3> HIDE DEF q
      <3> QED
        BY <1>t, <1>f, <3>1, <3>2 DEF ForkInv, ForkPCs, TypeOK, q
    <2>8. CASE Exit(c, p)
      <3>1. state[p] = "RUNNING" /\ pc[p] = "exit"
        BY <1>s, <2>8, RunningAt DEF Exit
      <3>2. np[p] = Null /\ \A q \in Slot : state[q] = "EMBRYO" => parent[q] # p
        BY <1>t, <1>f, <3>1, NotForking DEF ForkPCs
      <3>3. /\ UNCHANGED <<kstack, pgdir, pc, np>> /\ sw' = [sw EXCEPT ![p] = "exit"]
            /\ state' = [wakeup1(WokenByExit(p)) EXCEPT ![p] = "ZOMBIE"]
            /\ parent' = Reparented(p)
        BY <2>8 DEF Exit, sched
      <3>4. /\ \A q \in Slot \ {p} : /\ sw'[q] = sw[q]
                                     /\ \/ state'[q] = state[q]
                                        \/ state[q] = "SLEEPING" /\ state'[q] = "RUNNABLE"
            /\ state'[p] = "ZOMBIE"
        BY <1>t, <3>3 DEF TypeOK, wakeup1
      <3>5. \A q \in Slot : state[q] = "EMBRYO" => parent'[q] = parent[q]
        BY <3>2, <3>3 DEF Reparented
      <3>6. \A q \in Slot : np[q] = Null => pc[q] \notin ForkPCs
        BY <1>f DEF ForkInv
      <3> QED
        BY <1>t, <1>f, <3>1, <3>2, <3>3, <3>4, <3>5, <3>6, ForkFrame, Forking
    <2>9. CASE Wait(c, p)
      <3>1. state[p] = "RUNNING" /\ (pc[p] = "syscall" \/ sw[p] = "wait")
        BY <1>s, <2>9, RunningAt, RunningSwitchedTo DEF Wait
      <3>2. np[p] = Null
        BY <1>t, <1>f, <3>1, NotForking DEF ForkPCs
      <3>3. UNCHANGED np
        BY <2>9 DEF Wait
      <3>4. \A q \in Slot : np[q] = Null => pc[q] \notin ForkPCs
        BY <1>f DEF ForkInv
      <3>5. CASE \E q \in Zombies(p) : WaitReap(p, q)
        <4>1. PICK z \in Slot : WaitReap(p, z) /\ state[z] = "ZOMBIE"
          BY <3>5 DEF Zombies
        <4>2. /\ state'[z] = "UNUSED" /\ pc'[z] = "user" /\ pc'[p] = "user"
              /\ state'[p] = "RUNNING" /\ z # p
          BY <1>t, <3>1, <4>1 DEF TypeOK, WaitReap
        <4>3. ASSUME NEW q \in Slot \ {p, z}
              PROVE  /\ state'[q] = state[q] /\ sw'[q] = sw[q] /\ pc'[q] = pc[q]
                     /\ kstack'[q] = kstack[q] /\ pgdir'[q] = pgdir[q] /\ parent'[q] = parent[q]
          BY <1>t, <4>1 DEF TypeOK, WaitReap, KstackFreed
        <4>4. np[z] = Null
          BY <1>f, <4>1, Forking
        <4>5. \A q \in Slot : state'[q] = "EMBRYO" <=> state[q] = "EMBRYO"
          BY <3>1, <4>1, <4>2, <4>3
        <4>6. \A q \in Slot : np[q] = Null => pc'[q] \notin ForkPCs
          BY <3>4, <4>2, <4>3 DEF ForkPCs
        <4>7. \A q \in Slot : state[q] = "EMBRYO" =>
                 kstack'[q] = kstack[q] /\ sw'[q] = sw[q] /\ pgdir'[q] = pgdir[q] /\ parent'[q] = parent[q]
          BY <3>1, <4>1, <4>3
        <4>8. \A q \in Slot : np[q] # Null =>
                 pc'[q] = pc[q] /\ state'[q] \in {"RUNNABLE", "RUNNING"} /\ sw'[q] \in {"none", "yield"}
          BY <1>f, <3>2, <4>3, <4>4, Forking
        <4> QED
          BY <1>t, <1>f, <3>3, <4>5, <4>6, <4>7, <4>8, ForkFrame
      <3>6. CASE WaitFail(p) \/ WaitSleep(c, p)
        <4>1. /\ \E w \in {"none", "wait"} : sw' = [sw EXCEPT ![p] = w]
              /\ UNCHANGED state \/ state' = [state EXCEPT ![p] = "SLEEPING"]
              /\ UNCHANGED pc \/ pc' = [pc EXCEPT ![p] = "user"]
              /\ UNCHANGED <<kstack, pgdir, parent>>
          BY <3>6 DEF WaitFail, WaitSleep, sched
        <4>2. pc'[p] \notin ForkPCs
          BY <1>t, <3>2, <3>4, <4>1 DEF TypeOK, ForkPCs
        <4>3. /\ \A q \in Slot \ {p} : sw'[q] = sw[q] /\ pc'[q] = pc[q] /\ state'[q] = state[q]
              /\ state'[p] # "EMBRYO"
          BY <1>t, <3>1, <4>1 DEF TypeOK
        <4> QED
          BY <1>p, <3>1, <3>2, <3>3, <4>1, <4>2, <4>3
      <3> QED
        BY <2>9, <3>5, <3>6 DEF Wait
    <2>10. CASE \E ch \in Chan : Sleep(c, p, ch)
      <3>1. state[p] = "RUNNING" /\ pc[p] \in {"syscall", "exit"}
        BY <1>s, <2>10, RunningAt DEF Sleep
      <3>2. np[p] = Null /\ pc[p] \notin ForkPCs
        BY <1>t, <1>f, <3>1, NotForking DEF ForkPCs
      <3>3. /\ UNCHANGED <<parent, kstack, pgdir, pc, np>>
            /\ state' = [state EXCEPT ![p] = "SLEEPING"] /\ sw' = [sw EXCEPT ![p] = "sleep"]
        BY <2>10 DEF Sleep, sched
      <3>4. /\ \A q \in Slot \ {p} : sw'[q] = sw[q] /\ state'[q] = state[q]
            /\ state'[p] = "SLEEPING"
        BY <1>t, <3>3 DEF TypeOK
      <3> QED
        BY <1>p, <3>1, <3>2, <3>3, <3>4
    <2>11. CASE SleepReturn(c, p)
      <3>1. state[p] = "RUNNING" /\ sw[p] = "sleep"
        BY <1>s, <2>11, RunningSwitchedTo DEF SleepReturn
      <3>2. np[p] = Null
        BY <1>t, <1>f, <3>1, NotForking
      <3>3. pc[p] \notin ForkPCs
        BY <1>f, <3>2 DEF ForkInv
      <3>4. UNCHANGED <<state, parent, kstack, pgdir, pc, np>> /\ sw' = [sw EXCEPT ![p] = "none"]
        BY <2>11 DEF SleepReturn
      <3>5. \A q \in Slot \ {p} : sw'[q] = sw[q]
        BY <1>t, <3>4 DEF TypeOK
      <3> QED
        BY <1>p, <3>1, <3>2, <3>3, <3>4, <3>5
    <2>12. CASE Yield(c, p) \/ SchedReturn(c, p) \/ Pick(c, p)
      <3>1. UNCHANGED <<parent, kstack, pgdir, pc, np>> /\ state[p] \in {"RUNNABLE", "RUNNING"}
        BY <1>s, <2>12, Executing, RunningSwitchedTo
        DEF Yield, SchedReturn, Pick, Runnable, fields, local, Runs
      <3>2. /\ UNCHANGED state \/ \E st \in {"RUNNABLE", "RUNNING"} : state' = [state EXCEPT ![p] = st]
            /\ UNCHANGED sw \/ \E w \in {"yield", "none"} : sw' = [sw EXCEPT ![p] = w]
        BY <2>12 DEF Yield, SchedReturn, Pick, fields, local, sched
      <3>3. /\ \A q \in Slot \ {p} : sw'[q] = sw[q] /\ state'[q] = state[q]
            /\ state'[p] \in {"RUNNABLE", "RUNNING"}
            /\ sw'[p] = sw[p] \/ sw'[p] \in {"none", "yield"}
        BY <1>t, <3>1, <3>2 DEF TypeOK
      <3>4. \A q \in Slot : np[q] = Null => pc[q] \notin ForkPCs
        BY <1>f DEF ForkInv
      <3> QED
        BY <1>t, <1>f, <3>1, <3>3, <3>4, ForkFrame, Forking
    <2>13. CASE Swtch(c, p)
      <3>1. UNCHANGED <<state, parent, kstack, pgdir, sw, pc, np>>
        BY <2>13 DEF Swtch, fields
      <3> QED
        BY <1>f, <3>1 DEF ForkInv
    <2>14. CASE \E n \in 0 .. MaxPid : Kill(c, p, n)
      <3>1. PICK n \in 0 .. MaxPid : Kill(c, p, n)
        BY <2>14
      <3>2. state[p] = "RUNNING" /\ pc[p] = "syscall"
        BY <1>s, <3>1, RunningAt DEF Kill
      <3>3. np[p] = Null
        BY <1>t, <1>f, <3>2, NotForking DEF ForkPCs
      <3>4. /\ UNCHANGED <<np, sw, kstack, pgdir, parent>>
            /\ \A q \in Slot : \/ state'[q] = state[q]
                               \/ state[q] = "SLEEPING" /\ state'[q] = "RUNNABLE"
        BY <1>t, <3>1 DEF Kill, StateOnceKilled, TypeOK
      <3>5. pc'[p] \notin ForkPCs /\ \A q \in Slot \ {p} : pc'[q] = pc[q]
        BY <1>t, <3>1 DEF Kill, TypeOK, ForkPCs
      <3> QED
        BY <1>p, <3>2, <3>3, <3>4, <3>5
    <2> QED
      BY <1>2, <2>1, <2>2, <2>4, <2>5, <2>6, <2>7, <2>8, <2>9, <2>10, <2>11, <2>12,
         <2>13, <2>14 DEF ProcStep
  <1>3. ASSUME NEW c \in CPU, SwitchedBack(c) \/ InitExits(c) \/ Idle(c) PROVE ForkInv'
    <2>1. UNCHANGED <<state, parent, kstack, pgdir, sw, pc, np>>
      BY <1>3 DEF SwitchedBack, InitExits, Idle, vars, fields, local
    <2> QED
      BY <1>f, <2>1 DEF ForkInv
  <1>4. ASSUME NEW ch \in Chan, Wakeup(ch) PROVE ForkInv'
    <2>1. /\ UNCHANGED <<parent, kstack, pgdir, sw, pc, np>>
          /\ \A q \in Slot : \/ state'[q] = state[q]
                             \/ state[q] = "SLEEPING" /\ state'[q] = "RUNNABLE"
      BY <1>4 DEF Wakeup, wakeup1, local
    <2>2. \A q \in Slot : np[q] = Null => pc[q] \notin ForkPCs
      BY <1>f DEF ForkInv
    <2> QED
      BY <1>t, <1>f, <2>1, <2>2, ForkFrame, Forking
  <1> QED
    BY <1>1, <1>2, <1>3, <1>4 DEF Next, Step

=============================================================================
