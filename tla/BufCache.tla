------------------------------ MODULE BufCache ------------------------------
(***************************************************************************)
(* The buffer cache (bio.c), the sleep locks of its buffers (sleeplock.c)  *)
(* and the disk driver with its request queue (ide.c).                     *)
(*                                                                         *)
(* bcache.lock, a sleep lock's lk->lk and idelock make each of their       *)
(* critical sections one step; sleep() gives its lock up and marks the     *)
(* process as a sleeper at once (module Proc).  The controller works on    *)
(* one request, and interrupts when it is done.                            *)
(*                                                                         *)
(* There is one device.  A process uses one buffer at a time; the log      *)
(* keeps at most LOGSIZE modified blocks in the cache (module Log).        *)
(***************************************************************************)
EXTENDS Integers, Sequences, FiniteSets

CONSTANTS
  Proc,
  Block, Value,  \* disk blocks and what is in a block
  Zero,          \* what is in a buffer at boot
  NBUF, LOGSIZE,
  DiskErrors,    \* whether the disk may fail to do what it is told
  None

ASSUME SizeAssumption == NBUF \in Nat /\ LOGSIZE \in Nat /\ IsFiniteSet(Proc)
ASSUME ZeroAssumption == Zero \in Value
ASSUME NoneAssumption == None \notin Proc \cup Block
ASSUME ErrorAssumption == DiskErrors \in BOOLEAN

Buf == 1 .. NBUF \* bcache.buf

VARIABLES
  list,         \* bcache.head: most recently used first
  blockno, valid, dirty, refcnt, data,   \* fields of struct buf
  holder,       \* b->lock: who holds it
  idequeue,
  active,       \* what the controller was told to do, and whether it is done
  disk,
  pc, cur,      \* where a process is, and its b (0: none)
  panicked

cache == <<list, blockno, refcnt>>
bufs  == <<valid, dirty, data>>
ide   == <<idequeue, active, disk>>
procs == <<pc, cur>>
vars  == <<cache, bufs, holder, ide, procs, panicked>>

Request ==
  [block : Block, write : BOOLEAN, value : Value, status : {"busy", "ready", "error"}]

Init ==
  /\ list = [i \in Buf |-> NBUF + 1 - i]       \* binit() inserts at the head
  /\ blockno = [b \in Buf |-> None]
  /\ valid = [b \in Buf |-> FALSE] /\ dirty = [b \in Buf |-> FALSE]
  /\ refcnt = [b \in Buf |-> 0]
  /\ data = [b \in Buf |-> Zero]
  /\ holder = [b \in Buf |-> None]
  /\ idequeue = << >> /\ active = None
  /\ disk \in [Block -> Value]
  /\ pc = [p \in Proc |-> "idle"]
  /\ cur = [p \in Proc |-> 0]
  /\ panicked = "no"

Goto(p, l) == pc' = [pc EXCEPT ![p] = l]

\* panic() freezes the machine: over bget()'s lack of buffers, or over a
\* caller that breaks the rules of brelse(), bwrite() and iderw().
PanicIf(broken) == panicked' = IF broken THEN "misuse" ELSE "no"

-----------------------------------------------------------------------------
(* bget(), under bcache.lock. *)

Cached(k) == {b \in Buf : blockno[b] = k}

\* A buffer that may be recycled: unused, and not pinned by the log.
BugIgnoreDirty(b) == refcnt[b] = 0
Unused(b) == refcnt[b] = 0 /\ ~dirty[b]

\* The scan from the least recently used end.
LeastRecent(b) ==
  \E i \in DOMAIN list :
    /\ list[i] = b /\ Unused(b)
    /\ \A j \in DOMAIN list : j > i => ~Unused(list[j])

BugFirstUse(b) == [refcnt EXCEPT ![b] = 1]
Referenced(b) == [refcnt EXCEPT ![b] = @ + 1]

\* Is the block already cached?
BgetHit(p, k, b) ==
  /\ pc[p] = "idle" /\ b \in Cached(k)
  /\ refcnt' = Referenced(b)
  /\ cur' = [cur EXCEPT ![p] = b]
  /\ Goto(p, "acquire")
  /\ UNCHANGED <<list, blockno, bufs, holder, ide, panicked>>

BgetMiss(p, k, b) ==
  /\ pc[p] = "idle" /\ Cached(k) = {} /\ LeastRecent(b)
  /\ blockno' = [blockno EXCEPT ![b] = k]
  /\ valid' = [valid EXCEPT ![b] = FALSE] /\ dirty' = [dirty EXCEPT ![b] = FALSE]
  /\ refcnt' = [refcnt EXCEPT ![b] = 1]
  /\ cur' = [cur EXCEPT ![p] = b]
  /\ Goto(p, "acquire")
  /\ UNCHANGED <<list, data, holder, ide, panicked>>

\* panic("bget: no buffers")
BgetFull(p, k) ==
  /\ pc[p] = "idle" /\ Cached(k) = {} /\ \A b \in Buf : ~Unused(b)
  /\ panicked' = "no buffers"
  /\ UNCHANGED <<cache, bufs, holder, ide, procs>>

-----------------------------------------------------------------------------
(* acquiresleep(): a step per test of lk->locked; bread() goes on to look  *)
(* at the flags of the buffer, which is now its own.                       *)

Free(b) == holder[b] = None

acquiresleep(p) ==
  /\ pc[p] = "acquire"
  /\ \/ /\ Free(cur[p])
        /\ holder' = [holder EXCEPT ![cur[p]] = p]
        /\ Goto(p, IF valid[cur[p]] THEN "have" ELSE "iderw")
     \/ /\ ~Free(cur[p])
        /\ Goto(p, "asleep")          \* sleep(lk, &lk->lk)
        /\ UNCHANGED holder
  /\ UNCHANGED <<cache, bufs, ide, cur, panicked>>

holdingsleep(p) == holder[cur[p]] = p

-----------------------------------------------------------------------------
(* What a process does with a buffer it has: modify it and leave it to the *)
(* log, which pins it; write it to the disk; release it.                   *)

\* The buffers that are dirty for the log, and not for a bwrite() at work.
Pinned ==
  {b \in Buf : dirty[b] /\ ~\E p \in Proc : cur[p] = b /\ pc[p] \in {"iderw", "io_asleep"}}

log_write(p, v) ==
  /\ pc[p] \in {"have", "synced"}
  /\ Cardinality(Pinned \cup {cur[p]}) <= LOGSIZE
  /\ data' = [data EXCEPT ![cur[p]] = v]
  /\ dirty' = [dirty EXCEPT ![cur[p]] = TRUE]
  /\ Goto(p, "have")
  /\ UNCHANGED <<cache, valid, holder, ide, cur, panicked>>

bwrite(p, v) ==
  /\ pc[p] \in {"have", "synced"}
  /\ PanicIf(~holdingsleep(p))
  /\ data' = [data EXCEPT ![cur[p]] = v]
  /\ dirty' = [dirty EXCEPT ![cur[p]] = TRUE]
  /\ Goto(p, "iderw")
  /\ UNCHANGED <<cache, valid, holder, ide, cur>>

\* releasesleep(&b->lock), which wakes everyone who waits for it.
BugWakeNobody(p) == [pc EXCEPT ![p] = "brelse"]
WokenByRelease(p) ==
  [q \in Proc |-> IF q = p THEN "brelse"
                  ELSE IF pc[q] = "asleep" /\ cur[q] = cur[p] THEN "acquire" ELSE pc[q]]

brelse(p) ==
  /\ pc[p] \in {"have", "synced"}
  /\ PanicIf(~holdingsleep(p))
  /\ holder' = [holder EXCEPT ![cur[p]] = None]
  /\ pc' = WokenByRelease(p)
  /\ UNCHANGED <<cache, bufs, ide, cur>>

\* The rest of brelse(), under bcache.lock: an unused buffer becomes the most
\* recently used one.
ToFront(b) == <<b>> \o SelectSeq(list, LAMBDA c : c # b)

Unref(p) ==
  LET b == cur[p] IN
  /\ pc[p] = "brelse"
  /\ refcnt' = [refcnt EXCEPT ![b] = @ - 1]
  /\ list' = IF refcnt'[b] = 0 THEN ToFront(b) ELSE list
  /\ cur' = [cur EXCEPT ![p] = 0]
  /\ Goto(p, "idle")
  /\ UNCHANGED <<blockno, bufs, holder, ide, panicked>>

-----------------------------------------------------------------------------
(* iderw(), the controller, and its interrupt handler. *)

\* idestart(b) with the data as it is: it sends the data of a write at once.
Started(b) ==
  [block |-> blockno[b], write |-> dirty[b], value |-> data[b], status |-> "busy"]

\* The test of iderw()'s loop.
BugOnlyValid(b) == valid[b]
Finished(b) == valid[b] /\ ~dirty[b]
Waiting(b) == IF Finished(b) THEN "synced" ELSE "io_asleep"

\* iderw() up to its first sleep(b, &idelock): the disk is started if it was
\* idle.
iderw(p) ==
  LET b == cur[p] IN
  /\ pc[p] = "iderw"
  /\ PanicIf(~holdingsleep(p) \/ (valid[b] /\ ~dirty[b]))  \* or nothing to do
  /\ idequeue' = Append(idequeue, b)
  /\ active' = IF idequeue = << >> THEN Started(b) ELSE active
  /\ Goto(p, Waiting(b))
  /\ UNCHANGED <<cache, bufs, holder, disk, cur>>

\* Back from sleep(b, &idelock).
IoWoken(p) ==
  /\ pc[p] = "io_test"
  /\ Goto(p, Waiting(cur[p]))
  /\ UNCHANGED <<cache, bufs, holder, ide, cur, panicked>>

\* The controller completes the request, latches what it has read, and
\* interrupts.
DiskDone ==
  /\ active # None /\ active.status = "busy"
  /\ \E st \in {"ready"} \cup (IF DiskErrors THEN {"error"} ELSE {}) :
       /\ disk' = IF active.write /\ st = "ready"
                  THEN [disk EXCEPT ![active.block] = active.value] ELSE disk
       /\ active' = [active EXCEPT !.status = st, !.value = disk'[active.block]]
  /\ UNCHANGED <<cache, bufs, holder, idequeue, procs, panicked>>

NextRequest == idequeue[2]

\* ideintr(): the request at the head of the queue is done.
ideintr ==
  LET b == Head(idequeue) IN
  /\ active # None /\ active.status # "busy"
  /\ data' = IF ~dirty[b] /\ active.status = "ready"
             THEN [data EXCEPT ![b] = active.value] ELSE data
  /\ valid' = [valid EXCEPT ![b] = TRUE]
  /\ dirty' = [dirty EXCEPT ![b] = FALSE]
  /\ pc' = [q \in Proc |-> IF pc[q] = "io_asleep" /\ cur[q] = b THEN "io_test" ELSE pc[q]]
  /\ idequeue' = Tail(idequeue)
  /\ active' = IF Len(idequeue) > 1 THEN Started(NextRequest) ELSE None
  /\ UNCHANGED <<cache, holder, disk, cur, panicked>>

-----------------------------------------------------------------------------
ProcStep(p) ==
  \/ \E k \in Block :
       BgetFull(p, k) \/ \E b \in Buf : BgetHit(p, k, b) \/ BgetMiss(p, k, b)
  \/ acquiresleep(p) \/ iderw(p) \/ IoWoken(p) \/ brelse(p) \/ Unref(p)
  \/ \E v \in Value : log_write(p, v) \/ bwrite(p, v)

Next == panicked = "no" /\ ((\E p \in Proc : ProcStep(p)) \/ DiskDone \/ ideintr)

Spec == Init /\ [][Next]_vars

TypeOK ==
  /\ list \in [Buf -> Buf] /\ \A b \in Buf : \E i \in Buf : list[i] = b
  /\ blockno \in [Buf -> Block \cup {None}]
  /\ valid \in [Buf -> BOOLEAN] /\ dirty \in [Buf -> BOOLEAN]
  /\ refcnt \in [Buf -> 0 .. Cardinality(Proc)]
  /\ data \in [Buf -> Value] /\ disk \in [Block -> Value]
  /\ holder \in [Buf -> Proc \cup {None}]
  /\ idequeue \in Seq(Buf) /\ active \in Request \cup {None}
  /\ pc \in [Proc -> {"idle", "acquire", "asleep", "iderw", "io_asleep", "io_test",
                      "have", "synced", "brelse"}]
  /\ cur \in [Proc -> Buf \cup {0}]
  /\ panicked \in {"no", "no buffers", "misuse"}

-----------------------------------------------------------------------------
(* Properties. *)

\* A buffer's refcnt is the number of processes between their bget() and the
\* end of their brelse(), the ones that wait for its lock included.
RefcntCounts == \A b \in Buf : refcnt[b] = Cardinality({p \in Proc : cur[p] = b})

\* Nobody sleeps for what nobody will do: who waits for a lock has a holder
\* to wake it, who waits for the disk is in the queue.
NoLostWakeup ==
  \A p \in Proc :
    /\ pc[p] = "asleep" => holder[cur[p]] # None
    /\ pc[p] = "io_asleep" => \E i \in 1 .. Len(idequeue) : idequeue[i] = cur[p]

\* When iderw() returns, buffer and disk agree: what was written is on the
\* disk, which is what the log's commit relies on, and what was read is there.
Synced ==
  \A p \in Proc : pc[p] = "synced" => disk[blockno[cur[p]]] = data[cur[p]]

\* The cache is a store of blocks: a block is as it was last left, whatever
\* buffers were recycled, written back and read again meanwhile, and has one
\* user at a time.
Resident(k) == {b \in Buf : blockno[b] = k /\ valid[b]}
Store == INSTANCE BlockStore WITH
  content <- [k \in Block |-> IF Resident(k) = {} THEN disk[k]
                              ELSE data[CHOOSE b \in Resident(k) : TRUE]],
  user <- [p \in Proc |-> IF pc[p] \in {"have", "synced"}
                             \/ (pc[p] \in {"iderw", "io_asleep", "io_test"} /\ valid[cur[p]])
                          THEN blockno[cur[p]] ELSE None]
StoreSpec == Store!Spec
=============================================================================
