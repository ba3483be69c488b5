-------------------------------- MODULE Log --------------------------------
(***************************************************************************)
(* log.c: system calls of several processes write blocks between           *)
(* begin_op() and end_op(); the last end_op() commits all of them          *)
(* together.  Every block written to the disk is a step, and the machine   *)
(* may crash before any of them; at boot, recover_from_log() runs, and may *)
(* crash as well.                                                          *)
(*                                                                         *)
(* log.lock makes the body of begin_op(), of log_write() after its checks, *)
(* and the two critical sections of end_op() one step each.  A block fits  *)
(* one sector, so that a write of it happens or does not.  Of the buffer   *)
(* cache there is what the log relies on: bread() gives the one cached     *)
(* copy, locked, and bget() may recycle a buffer that is clean and not in  *)
(* use at any time.                                                        *)
(***************************************************************************)
EXTENDS Integers, FiniteSets, Sequences

CONSTANTS
  Proc,          \* processes that make file system calls
  Block, Value,  \* home blocks and what is in a block
  None,
  LOGSIZE, MAXOPBLOCKS,
  SIZE,          \* log.size: blocks of the log on disk, the header included
  OpBlocks,      \* how many different blocks a system call writes at most
  MaxCrashes     \* bound

\* A system call leaves room for the checks of log_write(), which come before
\* it is known whether the block is in the log already; an empty log has space
\* for one call.
ASSUME SizeAssumption ==
  /\ LOGSIZE \in Nat /\ MAXOPBLOCKS \in Nat /\ SIZE \in Nat /\ OpBlocks \in Nat
  /\ OpBlocks < MAXOPBLOCKS /\ LOGSIZE - (MAXOPBLOCKS - OpBlocks) <= SIZE - 2
  /\ MAXOPBLOCKS <= LOGSIZE
ASSUME BoundAssumption == IsFiniteSet(Proc) /\ MaxCrashes \in Nat
ASSUME NoneAssumption == None \notin Block \cup Value

VARIABLES
  disk,          \* on disk: the home blocks,
  logged, head,  \* the log's data blocks, and the block numbers in its header
  cache, dirty,  \* the cached copies, and those with B_DIRTY
  lh, outstanding, committing,         \* struct log
  phase, tail,   \* where commit() or recover_from_log() is
  recovering,    \* it is the latter
  pc, buf,       \* where a process is, the buffer it holds
  wrote,         \* the blocks its system call has written
  panicked, crashes

ondisk == <<disk, logged, head>>
log    == <<lh, outstanding, committing>>
step   == <<phase, tail, recovering>>
procs  == <<pc, buf, wrote>>
vars   == <<ondisk, cache, dirty, log, step, procs, panicked, crashes>>

\* A new machine with a disk made by mkfs.
Init ==
  /\ disk \in [Block -> Value] /\ cache = disk
  /\ logged = [i \in 1 .. SIZE - 1 |-> None] /\ head = << >>
  /\ dirty = {}
  /\ lh = << >> /\ outstanding = 0 /\ committing = FALSE
  /\ phase = "read_head" /\ tail = 1 /\ recovering = TRUE
  /\ pc = [p \in Proc |-> "out"]
  /\ buf = [p \in Proc |-> None]
  /\ wrote = [p \in Proc |-> {}]
  /\ panicked = FALSE /\ crashes = 0

\* Block b is one of those a header names.
InLog(h, b) == \E i \in 1 .. Len(h) : h[i] = b

\* wakeup(&log)
Woken(f) == [q \in Proc |-> IF f[q] = "asleep" THEN "begin" ELSE f[q]]

-----------------------------------------------------------------------------
(* System calls. *)

\* Mutant: a call does not count itself among those it leaves room for.
BugRoomForOthers ==
  ~committing /\ Len(lh) + outstanding * MAXOPBLOCKS <= LOGSIZE
CanBegin ==
  ~committing /\ Len(lh) + (outstanding + 1) * MAXOPBLOCKS <= LOGSIZE

\* begin_op(), at the call or back from sleep(&log, &log.lock).
begin_op(p) ==
  /\ pc[p] \in {"out", "begin"} /\ ~recovering
  /\ \/ /\ CanBegin
        /\ outstanding' = outstanding + 1
        /\ pc' = [pc EXCEPT ![p] = "in"]
        /\ wrote' = [wrote EXCEPT ![p] = {}]
     \/ /\ ~CanBegin
        /\ pc' = [pc EXCEPT ![p] = "asleep"]
        /\ UNCHANGED <<outstanding, wrote>>
  /\ UNCHANGED <<ondisk, cache, dirty, lh, committing, step, buf, panicked, crashes>>

\* The log is full, as log_write() sees it.
TooBig == Len(lh) >= LOGSIZE \/ Len(lh) >= SIZE - 1

\* bp = bread(b), modify bp->data, call log_write(bp): its checks, without
\* log.lock, and panic("too big a transaction").
Modify(p, b, v) ==
  /\ pc[p] = "in"
  /\ \A q \in Proc : buf[q] # b
  /\ Cardinality(wrote[p] \cup {b}) <= OpBlocks
  /\ cache' = [cache EXCEPT ![b] = v]
  /\ panicked' = TooBig
  /\ buf' = [buf EXCEPT ![p] = b]
  /\ pc' = [pc EXCEPT ![p] = "log_write"]
  /\ UNCHANGED <<ondisk, dirty, log, step, wrote, crashes>>

\* Log absorption: a block is in the log once.
WithBlock(b) == IF InLog(lh, b) THEN lh ELSE Append(lh, b)

BugNotPinned(b) == dirty
Pinned(b) == dirty \cup {b}

\* The rest of log_write(bp), and brelse(bp).
log_write(p) ==
  /\ pc[p] = "log_write"
  /\ lh' = WithBlock(buf[p])
  /\ dirty' = Pinned(buf[p])
  /\ wrote' = [wrote EXCEPT ![p] = @ \cup {buf[p]}]
  /\ buf' = [buf EXCEPT ![p] = None]
  /\ pc' = [pc EXCEPT ![p] = "in"]
  /\ UNCHANGED <<ondisk, cache, outstanding, committing, step, panicked, crashes>>

\* end_op() up to commit(): the last one commits, the others wake a waiting
\* begin_op(), for which they have freed reserved space.
end_op(p) ==
  /\ pc[p] = "in"
  /\ outstanding' = outstanding - 1
  /\ panicked' = committing
  /\ \/ /\ outstanding' # 0
        /\ pc' = Woken([pc EXCEPT ![p] = "out"])
        /\ UNCHANGED <<committing, phase, tail>>
     \/ /\ outstanding' = 0
        /\ committing' = TRUE
        /\ pc' = [pc EXCEPT ![p] = "commit"]
        /\ phase' = IF lh = << >> THEN "done" ELSE "write_log"
        /\ tail' = 1
  /\ UNCHANGED <<ondisk, cache, dirty, lh, recovering, buf, wrote, crashes>>

\* The end of end_op(), after commit().
BugNoWakeup(f) == f
WokenByCommit(f) == Woken(f)

committed(p) ==
  /\ pc[p] = "commit" /\ phase = "done"
  /\ committing' = FALSE
  /\ phase' = "idle"
  /\ pc' = WokenByCommit([pc EXCEPT ![p] = "out"])
  /\ UNCHANGED <<ondisk, cache, dirty, lh, outstanding, tail, recovering,
                 buf, wrote, panicked, crashes>>

-----------------------------------------------------------------------------
(* commit() and recover_from_log(), a disk write at a time. *)

write_log ==
  /\ phase = "write_log"
  /\ logged' = [logged EXCEPT ![tail] = cache[lh[tail]]]
  /\ \/ tail < Len(lh) /\ tail' = tail + 1 /\ UNCHANGED phase
     \/ tail = Len(lh) /\ tail' = 1 /\ phase' = "write_head"
  /\ UNCHANGED <<disk, head, cache, dirty, log, recovering, procs, panicked, crashes>>

\* The true point at which the transaction commits.
write_head ==
  /\ phase = "write_head"
  /\ head' = lh
  /\ phase' = "install"
  /\ UNCHANGED <<disk, logged, cache, dirty, log, tail, recovering, procs,
                 panicked, crashes>>

\* recover_from_log() starts with read_head().
read_head ==
  /\ phase = "read_head"
  /\ lh' = head
  /\ phase' = IF head = << >> THEN "erase" ELSE "install"
  /\ UNCHANGED <<ondisk, cache, dirty, outstanding, committing, tail, recovering,
                 procs, panicked, crashes>>

install_trans ==
  LET b == lh[tail] IN
  /\ phase = "install"
  /\ cache' = [cache EXCEPT ![b] = logged[tail]]
  /\ disk' = [disk EXCEPT ![b] = logged[tail]]
  /\ dirty' = dirty \ {b}
  /\ \/ tail < Len(lh) /\ tail' = tail + 1 /\ UNCHANGED phase
     \/ tail = Len(lh) /\ tail' = 1 /\ phase' = "erase"
  /\ UNCHANGED <<logged, head, log, recovering, procs, panicked, crashes>>

\* log.lh.n = 0 and the second write_head().
erase ==
  /\ phase = "erase"
  /\ lh' = << >> /\ head' = << >>
  /\ phase' = IF recovering THEN "idle" ELSE "done"
  /\ recovering' = FALSE
  /\ UNCHANGED <<disk, logged, cache, dirty, outstanding, committing, tail,
                 procs, panicked, crashes>>

-----------------------------------------------------------------------------
\* bget() recycles the buffer of a block; the next bread() reads it again.
Recycle(b) ==
  /\ b \notin dirty /\ \A p \in Proc : buf[p] # b
  /\ cache' = [cache EXCEPT ![b] = disk[b]]
  /\ UNCHANGED <<ondisk, dirty, log, step, procs, panicked, crashes>>

\* Power failure and reboot: what is in memory is lost.
Crash ==
  /\ crashes < MaxCrashes
  /\ crashes' = crashes + 1
  /\ cache' = disk /\ dirty' = {}
  /\ lh' = << >> /\ outstanding' = 0 /\ committing' = FALSE
  /\ phase' = "read_head" /\ tail' = 1 /\ recovering' = TRUE
  /\ pc' = [p \in Proc |-> "out"]
  /\ buf' = [p \in Proc |-> None]
  /\ wrote' = [p \in Proc |-> {}]
  /\ panicked' = FALSE
  /\ UNCHANGED ondisk

Running ==
  \/ \E p \in Proc :
       \/ begin_op(p) \/ log_write(p) \/ end_op(p) \/ committed(p)
       \/ \E b \in Block, v \in Value : Modify(p, b, v)
  \/ write_log \/ write_head \/ read_head \/ install_trans \/ erase
  \/ \E b \in Block : Recycle(b)

Next == (~panicked /\ Running) \/ Crash

Spec == Init /\ [][Next]_vars

TypeOK ==
  /\ disk \in [Block -> Value] /\ cache \in [Block -> Value]
  /\ logged \in [1 .. SIZE - 1 -> Value \cup {None}]
  /\ dirty \subseteq Block
  /\ \A h \in {lh, head} :
       /\ h \in Seq(Block) /\ Len(h) <= SIZE - 1
       /\ \A i, j \in 1 .. Len(h) : h[i] = h[j] => i = j
  /\ outstanding \in 0 .. Cardinality(Proc) /\ committing \in BOOLEAN
  /\ phase \in {"idle", "read_head", "write_log", "write_head", "install", "erase", "done"}
  /\ tail \in 1 .. SIZE - 1 /\ recovering \in BOOLEAN
  /\ pc \in [Proc -> {"out", "begin", "asleep", "in", "log_write", "commit"}]
  /\ buf \in [Proc -> Block \cup {None}]
  /\ wrote \in [Proc -> SUBSET Block]
  /\ panicked \in BOOLEAN /\ crashes \in 0 .. MaxCrashes

-----------------------------------------------------------------------------
\* What begin_op() reserves is enough: system calls that keep to their share
\* never make log_write() panic, although it checks the log's length without
\* the lock, and end_op() never finds a commit in progress.
NoPanic == ~panicked

\* "It sleeps until the last outstanding end_op() commits": whoever sleeps in
\* begin_op() does so while a call or a commit is in progress that will wake it.
WaiterHasWaker ==
  (\E p \in Proc : pc[p] = "asleep") => outstanding > 0 \/ committing

\* The disk as recovery would leave it, and the file system as system calls
\* see it.
stable ==
  [b \in Block |-> IF InLog(head, b)
                   THEN logged[CHOOSE i \in 1 .. Len(head) : head[i] = b]
                   ELSE disk[b]]
current == IF recovering THEN stable ELSE cache
open == {p \in Proc : pc[p] \in {"in", "log_write"}}

Tx == INSTANCE Transactions WITH busy <- committing

\* "There is never any reasoning required about whether a commit might write
\* an uncommitted system call's updates to disk": with crashes anywhere, also
\* in recovery, the log implements the atomic groups of Transactions.
CrashAtomic == Tx!Spec
=============================================================================
