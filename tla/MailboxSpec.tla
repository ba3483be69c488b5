---------------------------- MODULE MailboxSpec ----------------------------
(***************************************************************************)
(* What the mailboxes of mailbox.c promise to their users: each is a slot  *)
(* for one message; a send takes effect at one instant, at which the slot  *)
(* is empty, and fills it; a receive takes effect at one instant, at which *)
(* the slot holds a message, and empties it.  A message therefore reaches  *)
(* exactly one receiver, unmixed, cut to the receiver's buffer.            *)
(***************************************************************************)
EXTENDS Integers

CONSTANTS Proc, Mailbox, Calls, Empty, Idle

VARIABLES
  slot,     \* the message in a mailbox, or Empty
  call,     \* the call a process is in, or Idle
  done,     \* the processes whose call has taken effect
  ret       \* what the last call returned

vars == <<slot, call, done, ret>>

Init ==
  /\ slot = [mb \in Mailbox |-> Empty]
  /\ call = [p \in Proc |-> Idle]
  /\ done = {}
  /\ ret = [p \in Proc |-> Idle]

Invoke(p, k) ==
  /\ call[p] = Idle
  /\ call' = [call EXCEPT ![p] = k]
  /\ ret' = [ret EXCEPT ![p] = Idle]
  /\ UNCHANGED <<slot, done>>

\* Bad arguments: -1, and nothing happens.
Reject(p) ==
  /\ call[p] = Idle
  /\ ret' = [ret EXCEPT ![p] = [len |-> -1]]
  /\ UNCHANGED <<slot, call, done>>

Send(p) ==
  LET k == call[p] IN
  /\ k # Idle /\ p \notin done /\ k.op = "ksend" /\ slot[k.mb] = Empty
  /\ slot' = [slot EXCEPT ![k.mb] = [msg |-> k.msg, len |-> k.len]]
  /\ ret' = [ret EXCEPT ![p] = [len |-> 0]]
  /\ done' = done \cup {p}
  /\ UNCHANGED call

Receive(p) ==
  LET k == call[p] IN
  /\ k # Idle /\ p \notin done /\ k.op = "krecv" /\ slot[k.mb] # Empty
  /\ slot' = [slot EXCEPT ![k.mb] = Empty]
  /\ ret' = [ret EXCEPT ![p] =
       [msg |-> slot[k.mb].msg,
        len |-> IF slot[k.mb].len < k.len THEN slot[k.mb].len ELSE k.len]]
  /\ done' = done \cup {p}
  /\ UNCHANGED call

Return(p) ==
  /\ call[p] # Idle /\ p \in done
  /\ call' = [call EXCEPT ![p] = Idle]
  /\ done' = done \ {p}
  /\ UNCHANGED <<slot, ret>>

Next ==
  \E p \in Proc :
    \/ Reject(p) \/ Send(p) \/ Receive(p) \/ Return(p)
    \/ \E k \in Calls : Invoke(p, k)

Spec == Init /\ [][Next]_vars
=============================================================================
