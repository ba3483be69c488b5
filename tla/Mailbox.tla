------------------------------ MODULE Mailbox ------------------------------
(***************************************************************************)
(* mailbox.c: ksend() and krecv() on single-slot mailboxes, at the grain   *)
(* of their locks, with sleep() and wakeup() of proc.c.  Senders and       *)
(* receivers sleep on one channel, the mailbox; each mailbox has its own   *)
(* lock, and sleep() trades it for ptable.lock.                            *)
(*                                                                         *)
(* A process that calls sched() hands ptable.lock to the scheduler, which  *)
(* releases it, and gets it back when it is picked again (module Proc):    *)
(* each half is one step here.                                             *)
(***************************************************************************)
EXTENDS Integers

CONSTANTS
  Proc,       \* processes
  Mailbox,    \* the valid mailboxes, 0 .. NUM_MAILBOXES-1
  BadMailbox, \* mailbox arguments out of range
  Msg,        \* contents of a buffer
  Len,        \* length arguments
  MSGSIZE,    \* MAILBOX_MSGSIZE
  None        \* no process, no mailbox, no call

ASSUME LenAssumption == Len \subseteq Int /\ MSGSIZE \in Nat
ASSUME MailboxAssumption == Mailbox \cap BadMailbox = {}

VARIABLES
  mblock,     \* holder of mailboxes[i].lock
  full, msg, msglen,
  ptlock,     \* holder of ptable.lock
  state,      \* p->state: RUNNING, SLEEPING or RUNNABLE
  chan,       \* p->chan
  killed,     \* p->killed
  pc,         \* where p is in ksend() or krecv()
  call,       \* its arguments
  ret         \* the result: a length and, from krecv(), the buffer

boxes == <<full, msg, msglen>>
sched == <<state, chan, killed>>
vars  == <<mblock, boxes, ptlock, sched, pc, call, ret>>

Calls ==
       [op : {"ksend"}, mb : Mailbox \cup BadMailbox, len : Len, msg : Msg]
  \cup [op : {"krecv"}, mb : Mailbox \cup BadMailbox, len : Len]

ASSUME NoneAssumption ==
  /\ None \notin Proc /\ None \notin Mailbox /\ None \notin Calls
  /\ None \notin [msg : Msg, len : Len]

\* The argument checks of ksend() and krecv().
Valid(k) ==
  /\ k.mb \in Mailbox
  /\ k.len > 0 /\ (k.op = "ksend" => k.len <= MSGSIZE)

\* The loop conditions: while(mb->full), while(!mb->full).
BugOverwrite(k) == k.op = "krecv" /\ ~full[k.mb]
MustWait(k) == IF k.op = "ksend" THEN full[k.mb] ELSE ~full[k.mb]

-----------------------------------------------------------------------------
\* mailboxinit()
Init ==
  /\ mblock = [mb \in Mailbox |-> None]
  /\ full = [mb \in Mailbox |-> FALSE]
  /\ msg = [mb \in Mailbox |-> None]
  /\ msglen = [mb \in Mailbox |-> 0]
  /\ ptlock = None
  /\ state = [p \in Proc |-> "RUNNING"]
  /\ chan = [p \in Proc |-> None]
  /\ killed = [p \in Proc |-> FALSE]
  /\ pc = [p \in Proc |-> "user"]
  /\ call = [p \in Proc |-> None]
  /\ ret = [p \in Proc |-> None]

\* Entry of the system call; trap() does not let a killed process in.
Enter(p, k) ==
  /\ pc[p] = "user" /\ ~killed[p]
  /\ \/ /\ Valid(k)
        /\ pc' = [pc EXCEPT ![p] = "acquire"]
        /\ call' = [call EXCEPT ![p] = k]
        /\ ret' = [ret EXCEPT ![p] = None]
     \/ /\ ~Valid(k)
        /\ ret' = [ret EXCEPT ![p] = [len |-> -1]]
        /\ UNCHANGED <<pc, call>>
  /\ UNCHANGED <<mblock, boxes, ptlock, sched>>

\* acquire(&mb->lock), at the start and at the end of sleep().
Acquire(p) ==
  /\ pc[p] = "acquire" /\ mblock[call[p].mb] = None
  /\ mblock' = [mblock EXCEPT ![call[p].mb] = p]
  /\ pc' = [pc EXCEPT ![p] = "test"]
  /\ UNCHANGED <<boxes, ptlock, sched, call, ret>>

\* The loop condition holds: call sleep(mb, &mb->lock).
Block(p) ==
  /\ pc[p] = "test" /\ MustWait(call[p])
  /\ pc' = [pc EXCEPT ![p] = "sleep"]
  /\ UNCHANGED <<mblock, boxes, ptlock, sched, call, ret>>

\* ksend() copies the message in.
Put(p) ==
  LET k == call[p] IN
  /\ pc[p] = "test" /\ ~MustWait(k) /\ k.op = "ksend"
  /\ msg' = [msg EXCEPT ![k.mb] = k.msg]
  /\ msglen' = [msglen EXCEPT ![k.mb] = k.len]
  /\ full' = [full EXCEPT ![k.mb] = TRUE]
  /\ ret' = [ret EXCEPT ![p] = [len |-> 0]]
  /\ pc' = [pc EXCEPT ![p] = "wakeup"]
  /\ UNCHANGED <<mblock, ptlock, sched, call>>

\* krecv() copies the message out, up to maxlen bytes.
Copied(k) == IF msglen[k.mb] > k.len THEN k.len ELSE msglen[k.mb]

Take(p) ==
  LET k == call[p] IN
  /\ pc[p] = "test" /\ ~MustWait(k) /\ k.op = "krecv"
  /\ ret' = [ret EXCEPT ![p] = [msg |-> msg[k.mb], len |-> Copied(k)]]
  /\ full' = [full EXCEPT ![k.mb] = FALSE]
  /\ msglen' = [msglen EXCEPT ![k.mb] = 0]
  /\ pc' = [pc EXCEPT ![p] = "wakeup"]
  /\ UNCHANGED <<mblock, msg, ptlock, sched, call>>

\* wakeup(mb): under ptable.lock, every sleeper on the mailbox.
Woken(mb) ==
  [q \in Proc |-> IF state[q] = "SLEEPING" /\ chan[q] = mb THEN "RUNNABLE" ELSE state[q]]

Wakeup(p) ==
  /\ pc[p] = "wakeup" /\ ptlock = None
  /\ state' = Woken(call[p].mb)
  /\ pc' = [pc EXCEPT ![p] = "release"]
  /\ UNCHANGED <<mblock, boxes, ptlock, chan, killed, call, ret>>

\* release(&mb->lock) and return.
Release(p) ==
  /\ pc[p] = "release"
  /\ mblock' = [mblock EXCEPT ![call[p].mb] = None]
  /\ pc' = [pc EXCEPT ![p] = "user"]
  /\ call' = [call EXCEPT ![p] = None]
  /\ UNCHANGED <<boxes, ptlock, sched, ret>>

-----------------------------------------------------------------------------
(* sleep(mb, &mb->lock): acquire ptable.lock, only then release the        *)
(* mailbox, mark oneself SLEEPING, and switch away.                        *)

BugNoPtableLock(p) ==
  /\ pc[p] = "sleep"
  /\ pc' = [pc EXCEPT ![p] = "sleep_release"]
  /\ UNCHANGED <<mblock, boxes, ptlock, sched, call, ret>>
SleepLock(p) ==
  /\ pc[p] = "sleep" /\ ptlock = None
  /\ ptlock' = p
  /\ pc' = [pc EXCEPT ![p] = "sleep_release"]
  /\ UNCHANGED <<mblock, boxes, sched, call, ret>>

BugKeepMailbox(p) ==
  /\ pc[p] = "sleep_release"
  /\ pc' = [pc EXCEPT ![p] = "sleep_sched"]
  /\ UNCHANGED <<mblock, boxes, ptlock, sched, call, ret>>
SleepRelease(p) ==
  /\ pc[p] = "sleep_release"
  /\ mblock' = [mblock EXCEPT ![call[p].mb] = None]
  /\ pc' = [pc EXCEPT ![p] = "sleep_sched"]
  /\ UNCHANGED <<boxes, ptlock, sched, call, ret>>

SleepSched(p) ==
  /\ pc[p] = "sleep_sched"
  /\ chan' = [chan EXCEPT ![p] = call[p].mb]
  /\ state' = [state EXCEPT ![p] = "SLEEPING"]
  /\ ptlock' = None
  /\ pc' = [pc EXCEPT ![p] = "asleep"]
  /\ UNCHANGED <<mblock, boxes, killed, call, ret>>

\* scheduler() picks p, which tidies up and goes for the mailbox lock.
Resume(p) ==
  /\ pc[p] = "asleep" /\ state[p] = "RUNNABLE" /\ ptlock = None
  /\ state' = [state EXCEPT ![p] = "RUNNING"]
  /\ chan' = [chan EXCEPT ![p] = None]
  /\ pc' = [pc EXCEPT ![p] = "acquire"]
  /\ UNCHANGED <<mblock, boxes, ptlock, killed, call, ret>>

\* kill() ends a sleep; neither loop looks at killed, so that the caller goes
\* back to sleep.  Bound: a process is killed once.
Kill(p) ==
  /\ ~killed[p] /\ ptlock = None
  /\ killed' = [killed EXCEPT ![p] = TRUE]
  /\ state' = [state EXCEPT ![p] = IF @ = "SLEEPING" THEN "RUNNABLE" ELSE @]
  /\ UNCHANGED <<mblock, boxes, ptlock, chan, pc, call, ret>>

-----------------------------------------------------------------------------
KernelStep(p) ==
  \/ Acquire(p) \/ Block(p) \/ Put(p) \/ Take(p) \/ Wakeup(p) \/ Release(p)
  \/ SleepLock(p) \/ SleepRelease(p) \/ SleepSched(p) \/ Resume(p)

Next ==
  \E p \in Proc : KernelStep(p) \/ Kill(p) \/ \E k \in Calls : Enter(p, k)

Spec == Init /\ [][Next]_vars

\* While some process in the kernel can take a step, one of them does.
FairSpec == Spec /\ WF_vars(\E p \in Proc : KernelStep(p))

PCs == {"user", "acquire", "test", "wakeup", "release",
        "sleep", "sleep_release", "sleep_sched", "asleep"}

TypeOK ==
  /\ mblock \in [Mailbox -> Proc \cup {None}]
  /\ full \in [Mailbox -> BOOLEAN]
  /\ msg \in [Mailbox -> Msg \cup {None}]
  /\ msglen \in [Mailbox -> 0 .. MSGSIZE]
  /\ ptlock \in Proc \cup {None}
  /\ state \in [Proc -> {"RUNNING", "SLEEPING", "RUNNABLE"}]
  /\ chan \in [Proc -> Mailbox \cup {None}]
  /\ killed \in [Proc -> BOOLEAN]
  /\ pc \in [Proc -> PCs]
  /\ call \in [Proc -> {k \in Calls : Valid(k)} \cup {None}]
  /\ ret \in [Proc -> [len : {-1, 0}] \cup [msg : Msg, len : Len] \cup {None}]

-----------------------------------------------------------------------------
\* "sleep() releases the lock and puts this process to sleep" without losing a
\* wakeup: if a process sleeps although its loop condition no longer holds,
\* another one is just about to wake it.
NoLostWakeup ==
  \A p \in Proc : state[p] = "SLEEPING" /\ ~MustWait(call[p]) =>
    \E q \in Proc : pc[q] = "wakeup" /\ call[q].mb = call[p].mb

\* The mailboxes as MailboxSpec sees them.  A call has taken effect once the
\* message is copied.
slot ==
  [mb \in Mailbox |-> IF full[mb] THEN [msg |-> msg[mb], len |-> msglen[mb]] ELSE None]
done == {p \in Proc : pc[p] \in {"wakeup", "release"}}

Abstract == INSTANCE MailboxSpec WITH Empty <- None, Idle <- None

\* "Atomic message delivery": ksend() and krecv() implement MailboxSpec, with
\* any number of senders and receivers on a mailbox, and kills in between.
AtomicDelivery == Abstract!Spec

\* A message that somebody waits for is taken, and room that somebody waits
\* for is filled: no wakeup is lost, none goes only to the wrong kind of
\* waiter on the shared channel, and nobody deadlocks on the two locks.
Waiting(op, mb) ==
  \E p \in Proc : pc[p] # "user" /\ call[p].op = op /\ call[p].mb = mb
                    /\ pc[p] \notin {"wakeup", "release"}

MessagesMove ==
  \A mb \in Mailbox :
    /\ (full[mb] /\ Waiting("krecv", mb)) ~> ~full[mb]
    /\ (~full[mb] /\ Waiting("ksend", mb)) ~> full[mb]

=============================================================================
