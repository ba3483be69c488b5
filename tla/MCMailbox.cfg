CONSTANTS
  Proc = {p1, p2, p3}
  Mailbox = {a}
  BadMailbox = {x}
  Msg = {m1}
  Len = {1, 2}
  MSGSIZE = 2
  None = None
CHECK_DEADLOCK FALSE
SPECIFICATION FairSpec
INVARIANTS NoLostWakeup
PROPERTIES AtomicDelivery MessagesMove
