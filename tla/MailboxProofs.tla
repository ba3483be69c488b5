--------------------------- MODULE MailboxProofs ---------------------------
(***************************************************************************)
(* Proofs about module Mailbox, for any number of processes and mailboxes  *)
(* and any messages.                                                       *)
(*                                                                         *)
(* The inductive invariant says who holds which lock, from the place each  *)
(* process is at (LockInv), how its state agrees with that place           *)
(* (SleepInv), what a full mailbox holds (BoxInv), and that a process on   *)
(* its way to sleep, or asleep, either still has to wait or is about to be *)
(* woken (WaitInv).                                                        *)
(***************************************************************************)
EXTENDS Mailbox, TLAPS

HoldsBox == {"test", "wakeup", "release", "sleep", "sleep_release"}
HoldsTable == {"sleep_release", "sleep_sched"}

CallInv == \A p \in Proc : pc[p] = "user" <=> call[p] = None

LockInv ==
  /\ \A p \in Proc, mb \in Mailbox :
       mblock[mb] = p <=> pc[p] \in HoldsBox /\ call[p].mb = mb
  /\ \A p \in Proc : ptlock = p <=> pc[p] \in HoldsTable

SleepInv ==
  \A p \in Proc :
    /\ pc[p] = "asleep" <=> state[p] # "RUNNING"
    /\ state[p] = "SLEEPING" => chan[p] = call[p].mb

BoxInv == \A mb \in Mailbox : full[mb] => msg[mb] \in Msg /\ msglen[mb] \in Len

\* Somebody holds the mailbox's lock and will call wakeup() on it.
AboutToWake(mb) == \E q \in Proc : pc[q] = "wakeup" /\ call[q].mb = mb

WaitInv ==
  \A p \in Proc :
    /\ pc[p] \in {"sleep", "sleep_release"} => MustWait(call[p])
    /\ pc[p] = "sleep_sched" \/ state[p] = "SLEEPING" =>
         MustWait(call[p]) \/ AboutToWake(call[p].mb)

IndInv == TypeOK /\ CallInv /\ LockInv /\ SleepInv /\ BoxInv /\ WaitInv

-----------------------------------------------------------------------------
\* What the argument checks leave of a call in progress.
LEMMA CallFacts ==
  ASSUME TypeOK, CallInv, NEW p \in Proc, pc[p] # "user"
  PROVE  /\ call[p] \in Calls /\ Valid(call[p]) /\ call[p] # None
         /\ call[p].mb \in Mailbox /\ call[p].len \in Len /\ call[p].len > 0
         /\ call[p].op \in {"ksend", "krecv"}
         /\ call[p].op = "ksend" => call[p].msg \in Msg /\ call[p].len \in 0 .. MSGSIZE
  <1>1. call[p] \in Calls /\ Valid(call[p]) /\ call[p] # None
    BY DEF TypeOK, CallInv
  <1>2. PICK k \in Calls : k = call[p]
    BY <1>1
  <1>3. CASE k \in [op : {"ksend"}, mb : Mailbox \cup BadMailbox, len : Len, msg : Msg]
    <2>1. k.op = "ksend" /\ k.mb \in Mailbox \cup BadMailbox /\ k.len \in Len /\ k.msg \in Msg
      BY <1>3
    <2>2. k.mb \in Mailbox /\ k.len > 0 /\ k.len <= MSGSIZE
      BY <1>1, <1>2, <2>1 DEF Valid
    <2>3. k.len \in 0 .. MSGSIZE
      <3>1. PICK n \in Len : n = k.len
        BY <2>1
      <3>2. n \in Int /\ MSGSIZE \in Int
        BY LenAssumption
      <3> QED
        BY <2>2, <3>1, <3>2
    <2> QED
      BY <1>1, <1>2, <2>1, <2>2, <2>3
  <1>4. CASE k \in [op : {"krecv"}, mb : Mailbox \cup BadMailbox, len : Len]
    BY <1>1, <1>2, <1>4 DEF Valid
  <1> QED
    BY <1>3, <1>4 DEF Calls

\* The mailboxes start empty, unlocked, and nobody waits.
LEMMA IndInit == Init => IndInv
  <1> SUFFICES ASSUME Init PROVE IndInv
    OBVIOUS
  <1> USE NoneAssumption, LenAssumption DEF Init
  <1>1. TypeOK
    BY DEF TypeOK, PCs
  <1>2. CallInv /\ LockInv /\ SleepInv /\ BoxInv /\ WaitInv
    BY DEF CallInv, LockInv, SleepInv, BoxInv, WaitInv, HoldsBox, HoldsTable
  <1> QED
    BY <1>1, <1>2 DEF IndInv

\* Every step of a sender or a receiver keeps the inductive invariant.
LEMMA IndStep == IndInv /\ [Next]_vars => IndInv'
  <1> SUFFICES ASSUME IndInv, [Next]_vars PROVE IndInv'
    OBVIOUS
  <1>t. TypeOK
    BY DEF IndInv
  <1>l. CallInv /\ LockInv
    BY DEF IndInv
  <1>b. SleepInv /\ BoxInv
    BY DEF IndInv
  <1>w. WaitInv
    BY DEF IndInv
  <1> USE NoneAssumption DEF CallInv, LockInv, SleepInv, BoxInv, HoldsBox, HoldsTable
  <1>1. CASE UNCHANGED vars
    BY <1>1, <1>t, <1>l, <1>b, <1>w
    DEF vars, boxes, sched, IndInv, TypeOK, WaitInv, AboutToWake, MustWait
  <1>2. ASSUME NEW p \in Proc, NEW k \in Calls, Enter(p, k) PROVE IndInv'
    <2>1. TypeOK'
      BY <1>t, <1>2 DEF Enter, TypeOK, boxes, sched, PCs
    <2>2. (CallInv /\ LockInv)'
      <3>1. CASE Valid(k)
        <4>1. k # None
          BY NoneAssumption
        <4> QED
          BY <1>t, <1>l, <1>2, <3>1, <4>1 DEF Enter, TypeOK, boxes, sched
      <3>2. CASE ~Valid(k)
        BY <1>t, <1>l, <1>2, <3>2 DEF Enter, TypeOK, boxes, sched
      <3> QED
        BY <3>1, <3>2
    <2>3. (SleepInv /\ BoxInv)'
      BY <1>t, <1>b, <1>2 DEF Enter, TypeOK, boxes, sched
    <2>4. WaitInv'
      BY <1>t, <1>b, <1>w, <1>2 DEF Enter, TypeOK, boxes, sched, WaitInv, AboutToWake, MustWait
    <2> QED
      BY <2>1, <2>2, <2>3, <2>4 DEF IndInv
  <1>3. ASSUME NEW p \in Proc, Acquire(p) PROVE IndInv'
    <2>0. /\ pc[p] # "user" /\ call[p] \in Calls /\ Valid(call[p]) /\ call[p] # None
          /\ call[p].mb \in Mailbox /\ call[p].len \in Len
          /\ call[p].op = "ksend" => call[p].msg \in Msg /\ call[p].len \in 0 .. MSGSIZE
      BY <1>t, <1>l, <1>3, CallFacts DEF Acquire
    <2>1. TypeOK'
      BY <1>t, <1>b, <1>3, <2>0 DEF Acquire, TypeOK, boxes, sched, PCs
    <2>2. (CallInv /\ LockInv)'
      BY <1>t, <1>l, <1>3, <2>0 DEF Acquire, TypeOK, boxes, sched
    <2>3. (SleepInv /\ BoxInv)'
      BY <1>t, <1>b, <1>3, <2>0 DEF Acquire, TypeOK, boxes, sched
    <2>4. WaitInv'
      BY <1>t, <1>l, <1>b, <1>w, <1>3, <2>0 DEF Acquire, TypeOK, boxes, sched, WaitInv, AboutToWake, MustWait
    <2> QED
      BY <2>1, <2>2, <2>3, <2>4 DEF IndInv
  <1>4. ASSUME NEW p \in Proc, Block(p) PROVE IndInv'
    <2>0. /\ pc[p] # "user" /\ call[p] \in Calls /\ Valid(call[p]) /\ call[p] # None
          /\ call[p].mb \in Mailbox /\ call[p].len \in Len
          /\ call[p].op = "ksend" => call[p].msg \in Msg /\ call[p].len \in 0 .. MSGSIZE
      BY <1>t, <1>l, <1>4, CallFacts DEF Block
    <2>1. TypeOK'
      BY <1>t, <1>b, <1>4, <2>0 DEF Block, TypeOK, boxes, sched, PCs
    <2>2. (CallInv /\ LockInv)'
      BY <1>t, <1>l, <1>4, <2>0 DEF Block, TypeOK, boxes, sched
    <2>3. (SleepInv /\ BoxInv)'
      BY <1>t, <1>b, <1>4, <2>0 DEF Block, TypeOK, boxes, sched
    <2>4. WaitInv'
      BY <1>t, <1>l, <1>b, <1>w, <1>4, <2>0 DEF Block, TypeOK, boxes, sched, WaitInv, AboutToWake, MustWait
    <2> QED
      BY <2>1, <2>2, <2>3, <2>4 DEF IndInv
  <1>5. ASSUME NEW p \in Proc, Put(p) PROVE IndInv'
    <2>0. /\ pc[p] # "user" /\ call[p] \in Calls /\ Valid(call[p]) /\ call[p] # None
          /\ call[p].mb \in Mailbox /\ call[p].len \in Len
          /\ call[p].op = "ksend" => call[p].msg \in Msg /\ call[p].len \in 0 .. MSGSIZE
      BY <1>t, <1>l, <1>5, CallFacts DEF Put
    <2>1. TypeOK'
      BY <1>t, <1>b, <1>5, <2>0 DEF Put, TypeOK, sched, PCs, MustWait
    <2>2. (CallInv /\ LockInv)'
      BY <1>t, <1>l, <1>5, <2>0 DEF Put, TypeOK, sched
    <2>3. (SleepInv /\ BoxInv)'
      BY <1>t, <1>b, <1>5, <2>0 DEF Put, TypeOK, sched
    <2>4. WaitInv'
      BY <1>t, <1>l, <1>b, <1>w, <1>5, <2>0 DEF Put, TypeOK, sched, WaitInv, AboutToWake, MustWait
    <2> QED
      BY <2>1, <2>2, <2>3, <2>4 DEF IndInv
  <1>6. ASSUME NEW p \in Proc, Take(p) PROVE IndInv'
    <2>0. /\ pc[p] # "user" /\ call[p] \in Calls /\ Valid(call[p]) /\ call[p] # None
          /\ call[p].mb \in Mailbox /\ call[p].len \in Len
          /\ call[p].op = "ksend" => call[p].msg \in Msg /\ call[p].len \in 0 .. MSGSIZE
      BY <1>t, <1>l, <1>6, CallFacts DEF Take
    <2>1. TypeOK'
      <3> DEFINE mb == call[p].mb
      <3>1. full[mb] /\ msg[mb] \in Msg /\ msglen[mb] \in Len
        BY <1>b, <1>6, <2>0 DEF Take, MustWait
      <3>2. Copied(call[p]) \in Len
        BY <2>0, <3>1 DEF Copied
      <3>3. [msg |-> msg[mb], len |-> Copied(call[p])] \in [msg : Msg, len : Len]
        BY <3>1, <3>2
      <3>4. ret' \in [Proc -> [len : {-1, 0}] \cup [msg : Msg, len : Len] \cup {None}]
        BY <1>t, <1>6, <3>3 DEF Take, TypeOK
      <3> QED
        <4>0. full' = [full EXCEPT ![mb] = FALSE] /\ msglen' = [msglen EXCEPT ![mb] = 0]
          BY <1>6 DEF Take
        <4>1. full' \in [Mailbox -> BOOLEAN]
          BY <1>t, <4>0 DEF TypeOK
        <4>3. msglen' \in [Mailbox -> 0 .. MSGSIZE]
          <5>1. 0 \in 0 .. MSGSIZE
            BY LenAssumption
          <5> QED
            BY <1>t, <4>0, <5>1 DEF TypeOK
        <4>2. pc' \in [Proc -> PCs]
          BY <1>t, <1>6 DEF Take, TypeOK, PCs
        <4> QED
          BY <1>t, <1>6, <3>4, <4>1, <4>2, <4>3 DEF Take, TypeOK, sched
    <2>2. (CallInv /\ LockInv)'
      BY <1>t, <1>l, <1>6, <2>0 DEF Take, TypeOK, sched, Copied
    <2>3. (SleepInv /\ BoxInv)'
      BY <1>t, <1>b, <1>6, <2>0 DEF Take, TypeOK, sched, Copied
    <2>4. WaitInv'
      BY <1>t, <1>l, <1>b, <1>w, <1>6, <2>0 DEF Take, TypeOK, sched, Copied, WaitInv, AboutToWake, MustWait
    <2> QED
      BY <2>1, <2>2, <2>3, <2>4 DEF IndInv
  <1>7. ASSUME NEW p \in Proc, Wakeup(p) PROVE IndInv'
    <2>0. /\ pc[p] # "user" /\ call[p] \in Calls /\ Valid(call[p]) /\ call[p] # None
          /\ call[p].mb \in Mailbox /\ call[p].len \in Len
          /\ call[p].op = "ksend" => call[p].msg \in Msg /\ call[p].len \in 0 .. MSGSIZE
      BY <1>t, <1>l, <1>7, CallFacts DEF Wakeup
    <2>1. TypeOK'
      BY <1>t, <1>b, <1>7, <2>0 DEF Wakeup, TypeOK, boxes, Woken, PCs
    <2>2. (CallInv /\ LockInv)'
      BY <1>t, <1>l, <1>7, <2>0 DEF Wakeup, TypeOK, boxes, Woken
    <2>3. (SleepInv /\ BoxInv)'
      BY <1>t, <1>b, <1>7, <2>0 DEF Wakeup, TypeOK, boxes, Woken
    <2>4. WaitInv'
      BY <1>t, <1>l, <1>b, <1>w, <1>7, <2>0 DEF Wakeup, TypeOK, boxes, Woken, WaitInv, AboutToWake, MustWait
    <2> QED
      BY <2>1, <2>2, <2>3, <2>4 DEF IndInv
  <1>8. ASSUME NEW p \in Proc, Release(p) PROVE IndInv'
    <2>0. /\ pc[p] # "user" /\ call[p] \in Calls /\ Valid(call[p]) /\ call[p] # None
          /\ call[p].mb \in Mailbox /\ call[p].len \in Len
          /\ call[p].op = "ksend" => call[p].msg \in Msg /\ call[p].len \in 0 .. MSGSIZE
      BY <1>t, <1>l, <1>8, CallFacts DEF Release
    <2>1. TypeOK'
      BY <1>t, <1>b, <1>8, <2>0 DEF Release, TypeOK, boxes, sched, PCs
    <2>2. (CallInv /\ LockInv)'
      BY <1>t, <1>l, <1>8, <2>0 DEF Release, TypeOK, boxes, sched
    <2>3. (SleepInv /\ BoxInv)'
      BY <1>t, <1>b, <1>8, <2>0 DEF Release, TypeOK, boxes, sched
    <2>4. WaitInv'
      BY <1>t, <1>l, <1>b, <1>w, <1>8, <2>0 DEF Release, TypeOK, boxes, sched, WaitInv, AboutToWake, MustWait
    <2> QED
      BY <2>1, <2>2, <2>3, <2>4 DEF IndInv
  <1>9. ASSUME NEW p \in Proc, SleepLock(p) PROVE IndInv'
    <2>0. /\ pc[p] # "user" /\ call[p] \in Calls /\ Valid(call[p]) /\ call[p] # None
          /\ call[p].mb \in Mailbox /\ call[p].len \in Len
          /\ call[p].op = "ksend" => call[p].msg \in Msg /\ call[p].len \in 0 .. MSGSIZE
      BY <1>t, <1>l, <1>9, CallFacts DEF SleepLock
    <2>1. TypeOK'
      BY <1>t, <1>b, <1>9, <2>0 DEF SleepLock, TypeOK, boxes, sched, PCs
    <2>2. (CallInv /\ LockInv)'
      BY <1>t, <1>l, <1>9, <2>0 DEF SleepLock, TypeOK, boxes, sched
    <2>3. (SleepInv /\ BoxInv)'
      BY <1>t, <1>b, <1>9, <2>0 DEF SleepLock, TypeOK, boxes, sched
    <2>4. WaitInv'
      BY <1>t, <1>l, <1>b, <1>w, <1>9, <2>0 DEF SleepLock, TypeOK, boxes, sched, WaitInv, AboutToWake, MustWait
    <2> QED
      BY <2>1, <2>2, <2>3, <2>4 DEF IndInv
  <1>10. ASSUME NEW p \in Proc, SleepRelease(p) PROVE IndInv'
    <2>0. /\ pc[p] # "user" /\ call[p] \in Calls /\ Valid(call[p]) /\ call[p] # None
          /\ call[p].mb \in Mailbox /\ call[p].len \in Len
          /\ call[p].op = "ksend" => call[p].msg \in Msg /\ call[p].len \in 0 .. MSGSIZE
      BY <1>t, <1>l, <1>10, CallFacts DEF SleepRelease
    <2>1. TypeOK'
      BY <1>t, <1>b, <1>10, <2>0 DEF SleepRelease, TypeOK, boxes, sched, PCs
    <2>2. (CallInv /\ LockInv)'
      BY <1>t, <1>l, <1>10, <2>0 DEF SleepRelease, TypeOK, boxes, sched
    <2>3. (SleepInv /\ BoxInv)'
      BY <1>t, <1>b, <1>10, <2>0 DEF SleepRelease, TypeOK, boxes, sched
    <2>4. WaitInv'
      BY <1>t, <1>l, <1>b, <1>w, <1>10, <2>0 DEF SleepRelease, TypeOK, boxes, sched, WaitInv, AboutToWake, MustWait
    <2> QED
      BY <2>1, <2>2, <2>3, <2>4 DEF IndInv
  <1>11. ASSUME NEW p \in Proc, SleepSched(p) PROVE IndInv'
    <2>0. /\ pc[p] # "user" /\ call[p] \in Calls /\ Valid(call[p]) /\ call[p] # None
          /\ call[p].mb \in Mailbox /\ call[p].len \in Len
          /\ call[p].op = "ksend" => call[p].msg \in Msg /\ call[p].len \in 0 .. MSGSIZE
      BY <1>t, <1>l, <1>11, CallFacts DEF SleepSched
    <2>1. TypeOK'
      BY <1>t, <1>b, <1>11, <2>0 DEF SleepSched, TypeOK, boxes, PCs
    <2>2. (CallInv /\ LockInv)'
      BY <1>t, <1>l, <1>11, <2>0 DEF SleepSched, TypeOK, boxes
    <2>3. (SleepInv /\ BoxInv)'
      BY <1>t, <1>b, <1>11, <2>0 DEF SleepSched, TypeOK, boxes
    <2>4. WaitInv'
      BY <1>t, <1>l, <1>b, <1>w, <1>11, <2>0 DEF SleepSched, TypeOK, boxes, WaitInv, AboutToWake, MustWait
    <2> QED
      BY <2>1, <2>2, <2>3, <2>4 DEF IndInv
  <1>12. ASSUME NEW p \in Proc, Resume(p) PROVE IndInv'
    <2>0. /\ pc[p] # "user" /\ call[p] \in Calls /\ Valid(call[p]) /\ call[p] # None
          /\ call[p].mb \in Mailbox /\ call[p].len \in Len
          /\ call[p].op = "ksend" => call[p].msg \in Msg /\ call[p].len \in 0 .. MSGSIZE
      BY <1>t, <1>l, <1>12, CallFacts DEF Resume
    <2>1. TypeOK'
      BY <1>t, <1>b, <1>12, <2>0 DEF Resume, TypeOK, boxes, PCs
    <2>2. (CallInv /\ LockInv)'
      BY <1>t, <1>l, <1>12, <2>0 DEF Resume, TypeOK, boxes
    <2>3. (SleepInv /\ BoxInv)'
      BY <1>t, <1>b, <1>12, <2>0 DEF Resume, TypeOK, boxes
    <2>4. WaitInv'
      BY <1>t, <1>l, <1>b, <1>w, <1>12, <2>0 DEF Resume, TypeOK, boxes, WaitInv, AboutToWake, MustWait
    <2> QED
      BY <2>1, <2>2, <2>3, <2>4 DEF IndInv
  <1>13. ASSUME NEW p \in Proc, Kill(p) PROVE IndInv'
    <2>1. TypeOK'
      BY <1>t, <1>b, <1>13 DEF Kill, TypeOK, boxes, PCs
    <2>2. (CallInv /\ LockInv)'
      BY <1>t, <1>l, <1>13 DEF Kill, TypeOK, boxes
    <2>3. (SleepInv /\ BoxInv)'
      BY <1>t, <1>b, <1>13 DEF Kill, TypeOK, boxes
    <2>4. WaitInv'
      BY <1>t, <1>l, <1>b, <1>w, <1>13 DEF Kill, TypeOK, boxes, WaitInv, AboutToWake, MustWait
    <2> QED
      BY <2>1, <2>2, <2>3, <2>4 DEF IndInv
  <1> QED
    BY <1>1, <1>2, <1>3, <1>4, <1>5, <1>6, <1>7, <1>8, <1>9, <1>10, <1>11, <1>12, <1>13 DEF Next, KernelStep

-----------------------------------------------------------------------------
\* The inductive invariant holds throughout.
THEOREM Invariance == Spec => []IndInv
  BY IndInit, IndStep, PTL DEF Spec

\* Type correctness: the argument checks keep every stored length within the
\* mailbox's buffer.
THEOREM TypeCorrect == Spec => []TypeOK
  BY Invariance, PTL DEF IndInv

\* Nobody sleeps in ksend() or krecv() after the reason to is gone, unless
\* the wakeup() is on its way.
THEOREM WakeupsArrive == Spec => []NoLostWakeup
  <1>1. IndInv => NoLostWakeup
    BY DEF IndInv, WaitInv, NoLostWakeup, AboutToWake
  <1> QED
    BY Invariance, <1>1, PTL

-----------------------------------------------------------------------------
(* The mailboxes implement MailboxSpec. *)

\* Every step of the locked protocol is an atomic send or receive, or none.
LEMMA RefineStep ==
  ASSUME IndInv, [Next]_vars
  PROVE  Abstract!Next \/ UNCHANGED <<slot, call, done, ret>>
  <1> DEFINE Goal == Abstract!Next \/ UNCHANGED <<slot, call, done, ret>>
  <1>t. TypeOK /\ CallInv
    BY DEF IndInv
  <1>1. CASE UNCHANGED vars
    BY <1>1 DEF vars, boxes, slot, done
  <1>2. ASSUME NEW p \in Proc, NEW k \in Calls, Enter(p, k) PROVE Goal
    <2>1. call[p] = None /\ slot' = slot /\ done' = done
      BY <1>t, <1>2 DEF Enter, CallInv, slot, done, boxes, TypeOK
    <2>2. Abstract!Invoke(p, k) \/ Abstract!Reject(p)
      BY <1>2, <2>1 DEF Enter, Abstract!Invoke, Abstract!Reject
    <2> QED
      BY <2>2 DEF Abstract!Next
  <1>3. ASSUME NEW p \in Proc, Put(p) PROVE Goal
    <2>1. call[p] # None /\ call[p].mb \in Mailbox
      BY <1>t, <1>3, CallFacts DEF Put
    <2>2. Abstract!Send(p)
      <3>1. p \notin done /\ slot[call[p].mb] = None
        BY <1>3, <2>1 DEF Put, MustWait, slot, done
      <3>2. done' = done \cup {p}
        BY <1>t, <1>3 DEF Put, done, TypeOK
      <3>3. slot' = [slot EXCEPT ![call[p].mb] = [msg |-> call[p].msg, len |-> call[p].len]]
        BY <1>t, <1>3, <2>1 DEF Put, slot, TypeOK
      <3> QED
        BY <1>3, <2>1, <3>1, <3>2, <3>3 DEF Put, Abstract!Send
    <2> QED
      BY <2>2 DEF Abstract!Next
  <1>4. ASSUME NEW p \in Proc, Take(p) PROVE Goal
    <2>1. call[p] # None /\ call[p].mb \in Mailbox
      BY <1>t, <1>4, CallFacts DEF Take
    <2>2. Abstract!Receive(p)
      <3> DEFINE mb == call[p].mb
      <3>1. full[mb] /\ call[p].op = "krecv" /\ p \notin done
        BY <1>4 DEF Take, MustWait, done
      <3>2. slot[mb] = [msg |-> msg[mb], len |-> msglen[mb]]
        BY <2>1, <3>1 DEF slot
      <3>3. slot[mb] # None
        BY <2>1, <3>1, <3>2, NoneAssumption DEF IndInv, BoxInv
      <3>4. slot' = [slot EXCEPT ![mb] = None]
        BY <1>t, <1>4, <2>1 DEF Take, slot, TypeOK
      <3>5. done' = done \cup {p}
        BY <1>t, <1>4 DEF Take, done, TypeOK
      <3>6. Copied(call[p]) = IF slot[mb].len < call[p].len THEN slot[mb].len ELSE call[p].len
        <4>1. msglen[mb] \in Int /\ call[p].len \in Int
          <5>1. msglen[mb] \in Int
            BY <1>t, <2>1, LenAssumption DEF TypeOK
          <5>2. call[p].len \in Len
            BY <1>t, <1>4, CallFacts DEF Take
          <5> QED
            BY <5>1, <5>2, LenAssumption
        <4> QED
          BY <3>2, <4>1 DEF Copied
      <3> QED
        BY <1>4, <2>1, <3>1, <3>2, <3>3, <3>4, <3>5, <3>6 DEF Take, Abstract!Receive
    <2> QED
      BY <2>2 DEF Abstract!Next
  <1>5. ASSUME NEW p \in Proc, Release(p) PROVE Goal
    <2>1. call[p] # None /\ slot' = slot
      BY <1>t, <1>5, CallFacts DEF Release, slot, boxes
    <2>2. p \in done /\ done' = done \ {p}
      BY <1>t, <1>5 DEF Release, done, TypeOK
    <2> QED
      BY <1>5, <2>1, <2>2 DEF Release, Abstract!Next, Abstract!Return
  <1>6. ASSUME NEW p \in Proc,
               Acquire(p) \/ Block(p) \/ Wakeup(p) \/ SleepLock(p) \/ SleepRelease(p)
                 \/ SleepSched(p) \/ Resume(p) \/ Kill(p)
        PROVE  Goal
    <2>1. UNCHANGED <<boxes, call, ret>>
      BY <1>6 DEF Acquire, Block, Wakeup, SleepLock, SleepRelease, SleepSched, Resume, Kill
    <2>2. done' = done
      BY <1>t, <1>6
      DEF Acquire, Block, Wakeup, SleepLock, SleepRelease, SleepSched, Resume, Kill, done, TypeOK
    <2> QED
      BY <2>1, <2>2 DEF boxes, slot
  <1> QED
    BY <1>1, <1>2, <1>3, <1>4, <1>5, <1>6 DEF Next, KernelStep

\* ksend() and krecv() deliver messages atomically: the initial mailboxes map
\* to the initial slots of MailboxSpec, and every step to one of its steps or
\* to none.
THEOREM Refinement == Spec => AtomicDelivery
  <1>1. Init => Abstract!Init
    <2> SUFFICES ASSUME Init PROVE Abstract!Init
      OBVIOUS
    <2>1. slot = [mb \in Mailbox |-> None]
      BY DEF Init, slot
    <2>2. done = {}
      BY DEF Init, done
    <2> QED
      BY <2>1, <2>2 DEF Init, Abstract!Init
  <1>2. IndInv /\ [Next]_vars => [Abstract!Next]_<<slot, call, done, ret>>
    BY RefineStep
  <1> QED
    BY <1>1, <1>2, Invariance, PTL DEF Spec, AtomicDelivery, Abstract!Spec, Abstract!vars

=============================================================================
