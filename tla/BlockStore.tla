----------------------------- MODULE BlockStore -----------------------------
(***************************************************************************)
(* What bread(), bwrite(), log_write() and brelse() promise: a store of    *)
(* blocks, each of which one process at a time may use, and finds as the   *)
(* last one left it.                                                       *)
(***************************************************************************)
CONSTANTS Proc, Block, Value, None

VARIABLES
  content,    \* what is in each block
  user        \* the block a process uses, or None

\* bread(): nobody else uses the block.
Get(p, k) ==
  /\ user[p] = None /\ \A q \in Proc : user[q] # k
  /\ user' = [user EXCEPT ![p] = k]
  /\ UNCHANGED content

\* The process changes the block it uses, and writes or logs it.
Put(p, v) ==
  /\ user[p] # None
  /\ content' = [content EXCEPT ![user[p]] = v]
  /\ UNCHANGED user

\* brelse()
Release(p) ==
  /\ user[p] # None
  /\ user' = [user EXCEPT ![p] = None]
  /\ UNCHANGED content

Init ==
  /\ content \in [Block -> Value]
  /\ user = [p \in Proc |-> None]

Next ==
  \E p \in Proc :
    \/ \E k \in Block : Get(p, k)
    \/ \E v \in Value : Put(p, v)
    \/ Release(p)

Spec == Init /\ [][Next]_<<content, user>>
=============================================================================
