----------------------------- MODULE LogProofs -----------------------------
(***************************************************************************)
(* Log for any number of processes, blocks and crashes: begin_op()         *)
(* reserves enough, nobody sleeps without a waker, and the log implements  *)
(* Transactions.                                                           *)
(***************************************************************************)
EXTENDS LogInv

-----------------------------------------------------------------------------
(* Steps of commit() and recover_from_log() *)

\* A step that moves no process keeps what depends on the processes alone.
LEMMA Unmoved ==
  ASSUME UNCHANGED <<pc, wrote>>
  PROVE  open' = open /\ Room' = Room
  BY DEF open, Room

\* The empty log is a log.
LEMMA EmptyLog ==
  ASSUME NEW h, h = << >>
  PROVE  /\ h \in Seq(Block) /\ Len(h) <= SIZE - 1
         /\ \A i, j \in 1 .. Len(h) : h[i] = h[j] => i = j
  <1>1. h \in Seq(Block) /\ Len(h) = 0
    OBVIOUS
  <1>2. 1 .. Len(h) = {} /\ Len(h) <= SIZE - 1
    BY <1>1, SizeAssumption
  <1> QED
    BY <1>1, <1>2

\* A step that changes nothing keeps the invariant.
LEMMA StutterStep ==
  ASSUME IndInv, UNCHANGED vars
  PROVE  IndInv'
  <1>1. open' = open /\ Room' = Room
    BY Unmoved DEF vars, procs
  <1> QED
    BY <1>1 DEF IndInv, TypeOK, PlaceInv, SpaceInv, Share, CacheInv, DiskInv, WaiterHasWaker,
                InLog, vars, ondisk, log, step, procs

\* Writing a block of the log on disk.
LEMMA WriteLogStep ==
  ASSUME IndInv, write_log
  PROVE  IndInv'
  <1> USE DEF log, procs
  <1>1. /\ phase = "write_log" /\ logged' = [logged EXCEPT ![tail] = cache[lh[tail]]]
        /\ UNCHANGED <<disk, head, cache, dirty, log, recovering, procs, panicked, crashes>>
    BY DEF write_log
  <1>2. ~recovering /\ committing /\ head = << >> /\ tail <= Len(lh)
    BY <1>1 DEF IndInv, TypeOK, PlaceInv, DiskInv
  <1>3. /\ Len(lh) \in Nat /\ tail \in 1 .. Len(lh) /\ lh[tail] \in Block
        /\ \A i \in 1 .. Len(lh) : i \in 1 .. SIZE - 1
    BY <1>2, SizeAssumption DEF IndInv, TypeOK
  <1>4. /\ logged' \in [1 .. SIZE - 1 -> Value \cup {None}]
        /\ logged'[tail] = cache[lh[tail]]
        /\ \A i \in 1 .. Len(lh) : i # tail => logged'[i] = logged[i]
    BY <1>1, <1>3 DEF IndInv, TypeOK
  <1>5. open' = open /\ Room' = Room
    BY <1>1, Unmoved
  <1>6. tail' \in 1 .. SIZE - 1 /\ phase' \in {"write_log", "write_head"}
    BY <1>1, <1>3, SizeAssumption DEF write_log, IndInv, TypeOK
  <1>7. TypeOK'
    BY <1>1, <1>4, <1>6 DEF IndInv, TypeOK
  <1>8. PlaceInv' /\ WaiterHasWaker'
    BY <1>1, <1>2, <1>5, <1>6 DEF IndInv, PlaceInv, WaiterHasWaker
  <1>9. SpaceInv'
    BY <1>1, <1>5 DEF IndInv, SpaceInv, Share, InLog
  <1>10. CacheInv'
    BY <1>1, <1>2, <1>6 DEF IndInv, CacheInv, InLog
  <1>11. DiskInv'
    <2>1. \A i \in 1 .. tail - 1 : logged[i] = cache[lh[i]]
      BY <1>1 DEF IndInv, DiskInv
    <2>2. CASE tail < Len(lh) /\ tail' = tail + 1 /\ phase' = phase
      BY <1>1, <1>2, <1>3, <1>4, <2>1, <2>2 DEF DiskInv
    <2>3. CASE tail = Len(lh) /\ tail' = 1 /\ phase' = "write_head"
      BY <1>1, <1>2, <1>3, <1>4, <2>1, <2>3 DEF DiskInv
    <2> QED
      BY <2>2, <2>3 DEF write_log
  <1> QED
    BY <1>7, <1>8, <1>9, <1>10, <1>11 DEF IndInv

\* The commit point: the header names what has been copied.
LEMMA WriteHeadStep ==
  ASSUME IndInv, write_head
  PROVE  IndInv'
  <1> USE DEF log, procs
  <1>1. /\ phase = "write_head" /\ head' = lh /\ phase' = "install"
        /\ UNCHANGED <<disk, logged, cache, dirty, log, tail, recovering, procs, panicked, crashes>>
    BY DEF write_head
  <1>2. ~recovering /\ committing /\ tail = 1 /\ tail <= Len(lh)
    BY <1>1 DEF IndInv, TypeOK, PlaceInv, DiskInv
  <1>3. open' = open /\ Room' = Room
    BY <1>1, Unmoved
  <1>4. TypeOK'
    BY <1>1 DEF IndInv, TypeOK
  <1>5. PlaceInv' /\ WaiterHasWaker'
    BY <1>1, <1>2, <1>3 DEF IndInv, PlaceInv, WaiterHasWaker
  <1>6. SpaceInv'
    BY <1>1, <1>3 DEF IndInv, SpaceInv, Share, InLog
  <1>7. CacheInv'
    BY <1>1, <1>2 DEF IndInv, CacheInv, InLog
  <1>8. \A i \in 1 .. Len(lh) : logged[i] = cache[lh[i]] /\ cache[lh[i]] \in Value
    BY <1>1 DEF IndInv, TypeOK, DiskInv
  <1>9. DiskInv'
    BY <1>1, <1>2, <1>8 DEF DiskInv
  <1> QED
    BY <1>4, <1>5, <1>6, <1>7, <1>9 DEF IndInv

\* Recovery reads the header.
LEMMA ReadHeadStep ==
  ASSUME IndInv, read_head
  PROVE  IndInv'
  <1> USE DEF ondisk, procs
  <1>1. /\ phase = "read_head" /\ lh' = head
        /\ phase' = IF head = << >> THEN "erase" ELSE "install"
        /\ UNCHANGED <<ondisk, cache, dirty, outstanding, committing, tail, recovering,
                       procs, panicked, crashes>>
    BY DEF read_head
  <1>2. recovering /\ ~committing /\ tail = 1 /\ \A p \in Proc : pc[p] = "out"
    BY <1>1 DEF IndInv, TypeOK, PlaceInv, DiskInv
  <1>3. open' = open /\ open = {}
    BY <1>1, <1>2 DEF open
  <1>4. TypeOK'
    BY <1>1 DEF IndInv, TypeOK
  <1>5. PlaceInv' /\ WaiterHasWaker'
    BY <1>1, <1>2, <1>3 DEF IndInv, PlaceInv, WaiterHasWaker
  <1>6. SpaceInv'
    BY <1>1, <1>2, <1>3 DEF IndInv, SpaceInv
  <1>7. CacheInv'
    BY <1>1, <1>2 DEF IndInv, CacheInv
  <1>8. DiskInv'
    <2>1. head # << >> => 1 <= Len(head)
      BY DEF IndInv, TypeOK
    <2> QED
      BY <1>1, <1>2, <2>1 DEF IndInv, DiskInv
  <1> QED
    BY <1>4, <1>5, <1>6, <1>7, <1>8 DEF IndInv

\* Copying a block of the log to its place, in a commit or in a recovery.
LEMMA InstallStep ==
  ASSUME IndInv, install_trans
  PROVE  IndInv'
  <1> USE DEF log, procs
  <1> DEFINE b == lh[tail]
             v == logged[tail]
  <1>1. /\ phase = "install"
        /\ cache' = [cache EXCEPT ![b] = v] /\ disk' = [disk EXCEPT ![b] = v]
        /\ dirty' = dirty \ {b}
        /\ UNCHANGED <<logged, head, log, recovering, procs, panicked, crashes>>
    BY DEF install_trans
  <1>2. /\ head = lh /\ tail \in 1 .. Len(lh) /\ Len(lh) \in Nat
        /\ b \in Block /\ v \in Value
    BY <1>1 DEF IndInv, TypeOK, DiskInv
  <1>3. \A i \in 1 .. Len(lh) : lh[i] \in Block /\ (lh[i] = b => i = tail)
    BY <1>2 DEF IndInv, TypeOK
  <1>4. open' = open /\ Room' = Room
    BY <1>1, Unmoved
  <1>5. \/ tail < Len(lh) /\ tail' = tail + 1 /\ phase' = "install"
        \/ tail = Len(lh) /\ tail' = 1 /\ phase' = "erase"
    BY <1>1 DEF install_trans
  <1>6. /\ cache' \in [Block -> Value] /\ disk' \in [Block -> Value]
        /\ cache'[b] = v /\ disk'[b] = v
        /\ \A x \in Block : x # b => cache'[x] = cache[x] /\ disk'[x] = disk[x]
    BY <1>1, <1>2 DEF IndInv, TypeOK
  <1> HIDE DEF b, v
  <1>7. TypeOK'
    <2>1. tail' \in 1 .. SIZE - 1
      BY <1>2, <1>5, SizeAssumption DEF IndInv, TypeOK
    <2>2. phase' \in {"install", "erase"} /\ dirty' \subseteq Block
      BY <1>1, <1>5 DEF IndInv, TypeOK
    <2> QED
      BY <1>1, <1>6, <2>1, <2>2 DEF IndInv, TypeOK
  <1>8. PlaceInv' /\ WaiterHasWaker'
    <2>1. recovering \/ committing
      BY <1>1 DEF IndInv, PlaceInv
    <2> QED
      BY <1>1, <1>4, <1>5, <2>1 DEF IndInv, PlaceInv, WaiterHasWaker
  <1>9. SpaceInv'
    BY <1>1, <1>4 DEF IndInv, SpaceInv, Share, InLog
  <1>10. CacheInv'
    <2>1. ASSUME NEW x \in Block, x \notin dirty', \A p \in Proc : buf'[p] # x
          PROVE  cache'[x] = disk'[x]
      <3>1. CASE x = b
        BY <1>6, <3>1
      <3>2. CASE x # b
        BY <1>1, <1>6, <2>1, <3>2 DEF IndInv, CacheInv
      <3> QED
        BY <3>1, <3>2
    <2>2. CASE recovering
      BY <1>1, <1>5, <2>1, <2>2 DEF IndInv, CacheInv
    <2>3. CASE ~recovering
      <3>1. \A x \in Block : x \in dirty <=> \E i \in tail .. Len(lh) : lh[i] = x
        BY <1>1, <2>3 DEF IndInv, CacheInv
      <3>2. \A x \in Block : x \in dirty' <=> \E i \in tail + 1 .. Len(lh) : lh[i] = x
        BY <1>1, <1>2, <1>3, <3>1 DEF b
      <3>3. tail = Len(lh) => dirty' = {}
        BY <1>1, <1>2, <3>2 DEF IndInv, TypeOK
      <3> QED
        BY <1>1, <1>5, <2>1, <2>3, <3>2, <3>3 DEF CacheInv
    <2> QED
      BY <2>2, <2>3
  <1>11. DiskInv'
    <2>1. \A i \in 1 .. tail : disk'[lh[i]] = logged[i]
      <3>1. \A i \in 1 .. tail - 1 : disk[lh[i]] = logged[i]
        BY <1>1 DEF IndInv, DiskInv
      <3> QED
        BY <1>2, <1>3, <1>6, <3>1 DEF b, v
    <2>2. ~recovering => \A i \in 1 .. Len(lh) : cache'[lh[i]] = logged[i]
      <3>1. ~recovering => \A i \in 1 .. Len(lh) : cache[lh[i]] = logged[i]
        BY <1>1 DEF IndInv, DiskInv
      <3> QED
        BY <1>2, <1>3, <1>6, <3>1 DEF b, v
    <2> QED
      BY <1>1, <1>2, <1>5, <2>1, <2>2 DEF IndInv, DiskInv
  <1> QED
    BY <1>7, <1>8, <1>9, <1>10, <1>11 DEF IndInv

\* The log is emptied, at the end of a commit or of a recovery.
LEMMA EraseStep ==
  ASSUME IndInv, erase
  PROVE  IndInv'
  <1> USE DEF procs
  <1>1. /\ phase = "erase" /\ lh' = << >> /\ head' = << >>
        /\ phase' = (IF recovering THEN "idle" ELSE "done") /\ recovering' = FALSE
        /\ UNCHANGED <<disk, logged, cache, dirty, outstanding, committing, tail,
                       procs, panicked, crashes>>
    BY DEF erase
  <1>2. dirty = {} /\ open = {} /\ (recovering \/ committing) /\ (recovering => ~committing)
    BY <1>1 DEF IndInv, PlaceInv, CacheInv, open
  <1>3. open' = open /\ Room' = Room
    BY <1>1, Unmoved
  <1>4. Len(lh') = 0 /\ lh' \in Seq(Block)
    BY <1>1
  <1>5. TypeOK'
    <2>1. \A h \in {lh', head'} :
            /\ h \in Seq(Block) /\ Len(h) <= SIZE - 1
            /\ \A i, j \in 1 .. Len(h) : h[i] = h[j] => i = j
      BY <1>1, EmptyLog
    <2> QED
      BY <1>1, <2>1 DEF IndInv, TypeOK
  <1>6. PlaceInv' /\ WaiterHasWaker'
    BY <1>1, <1>2, <1>3 DEF IndInv, PlaceInv, WaiterHasWaker
  <1>7. SpaceInv'
    <2>1. Room = {} /\ Cardinality(Room) = 0
      BY <1>2, FS_EmptySet DEF Room
    <2> QED
      BY <1>1, <1>2, <1>3, <1>4, <2>1, SizeAssumption DEF IndInv, SpaceInv
  <1>8. CacheInv'
    BY <1>1, <1>2, <1>4 DEF IndInv, CacheInv, InLog
  <1>9. DiskInv'
    BY <1>1, <1>4 DEF DiskInv
  <1> QED
    BY <1>5, <1>6, <1>7, <1>8, <1>9 DEF IndInv

-----------------------------------------------------------------------------
(* The buffer cache and crashes *)

\* A buffer that bget() may recycle is as on disk.
LEMMA RecycleStep ==
  ASSUME IndInv, NEW b \in Block, Recycle(b)
  PROVE  IndInv' /\ UNCHANGED vars
  <1>1. cache[b] = disk[b]
    BY DEF IndInv, CacheInv, Recycle
  <1>2. cache' = cache
    BY <1>1 DEF IndInv, TypeOK, Recycle
  <1>3. UNCHANGED vars
    BY <1>2 DEF Recycle, vars
  <1> QED
    BY <1>3, StutterStep

\* A crash at any time.
LEMMA CrashStep ==
  ASSUME IndInv, Crash
  PROVE  IndInv'
  <1> USE DEF ondisk
  <1>1. open' = {}
    BY DEF Crash, open
  <1>2. TypeOK'
    <2>1. 0 \in 0 .. Cardinality(Proc) /\ 1 \in 1 .. SIZE - 1
      BY FS_CardinalityType, BoundAssumption, SizeAssumption
    <2>2. crashes' \in 0 .. MaxCrashes
      BY BoundAssumption DEF Crash, IndInv, TypeOK
    <2>3. lh' = << >> /\ head' = head
      BY DEF Crash
    <2>4. /\ pc' \in [Proc -> {"out", "begin", "asleep", "in", "log_write", "commit"}]
          /\ buf' \in [Proc -> Block \cup {None}] /\ wrote' \in [Proc -> SUBSET Block]
      BY DEF Crash
    <2>5. \A h \in {lh', head'} :
            /\ h \in Seq(Block) /\ Len(h) <= SIZE - 1
            /\ \A i, j \in 1 .. Len(h) : h[i] = h[j] => i = j
      BY <2>3, EmptyLog DEF IndInv, TypeOK
    <2> QED
      BY <2>1, <2>2, <2>4, <2>5 DEF Crash, IndInv, TypeOK
  <1>3. PlaceInv' /\ WaiterHasWaker'
    BY <1>1, FS_EmptySet DEF Crash, PlaceInv, WaiterHasWaker
  <1>4. SpaceInv'
    BY <1>1 DEF Crash, SpaceInv
  <1>5. CacheInv'
    BY DEF Crash, CacheInv
  <1>6. DiskInv'
    BY DEF Crash, IndInv, DiskInv
  <1> QED
    BY <1>2, <1>3, <1>4, <1>5, <1>6 DEF IndInv

-----------------------------------------------------------------------------
(* Invariance *)

\* Every step of the log keeps the invariant.
LEMMA IndStep ==
  ASSUME IndInv, [Next]_vars
  PROVE  IndInv'
  <1>1. CASE Running
    BY <1>1, BeginStep, ModifyStep, LogWriteStep, EndStep, CommittedStep, WriteLogStep, WriteHeadStep,
       ReadHeadStep, InstallStep, EraseStep, RecycleStep DEF Running
  <1> QED
    BY <1>1, CrashStep, StutterStep DEF Next

\* The invariant holds at all times.
THEOREM Invariance == Spec => []IndInv
  BY IndInit, IndStep, PTL DEF Spec

\* What begin_op() reserves is enough: with calls that keep to their share
\* neither log_write() nor end_op() panics, whatever the number of processes.
THEOREM LogNeverPanics == Spec => []NoPanic
  <1>1. IndInv => NoPanic
    BY DEF IndInv, SpaceInv, NoPanic
  <1> QED
    BY <1>1, Invariance, PTL

\* Whoever sleeps in begin_op() has a call or a commit in progress to wake it.
THEOREM SleepersHaveWakers == Spec => []WaiterHasWaker
  <1>1. IndInv => WaiterHasWaker
    BY DEF IndInv
  <1> QED
    BY <1>1, Invariance, PTL

-----------------------------------------------------------------------------
(* The log implements Transactions *)

\* Recovery puts the blocks that header h names back from the log.
Recovered(d, l, h) ==
  [b \in Block |-> IF InLog(h, b) THEN l[CHOOSE i \in 1 .. Len(h) : h[i] = b] ELSE d[b]]

\* A block that the header names once is recovered from its place in the log.
LEMMA RecoveredAt ==
  ASSUME NEW d, NEW l, NEW h, \A i, j \in 1 .. Len(h) : h[i] = h[j] => i = j
  PROVE  /\ \A i \in 1 .. Len(h) : h[i] \in Block => Recovered(d, l, h)[h[i]] = l[i]
         /\ \A b \in Block : ~InLog(h, b) => Recovered(d, l, h)[b] = d[b]
  <1>1. ASSUME NEW i \in 1 .. Len(h), h[i] \in Block
        PROVE  Recovered(d, l, h)[h[i]] = l[i]
    <2>1. (CHOOSE j \in 1 .. Len(h) : h[j] = h[i]) = i
      OBVIOUS
    <2> QED
      BY <1>1, <2>1 DEF Recovered, InLog
  <1> QED
    BY <1>1 DEF Recovered

\* Two contents are the same when they agree on each block of the header and
\* on each other block.
LEMMA SameContents ==
  ASSUME NEW d, NEW l, NEW h, NEW f,
         \A i, j \in 1 .. Len(h) : h[i] = h[j] => i = j,
         f = [b \in Block |-> f[b]],
         \A i \in 1 .. Len(h) : h[i] \in Block /\ f[h[i]] = l[i],
         \A b \in Block : ~InLog(h, b) => f[b] = d[b]
  PROVE  Recovered(d, l, h) = f
  <1>1. ASSUME NEW b \in Block PROVE Recovered(d, l, h)[b] = f[b]
    <2>1. CASE InLog(h, b)
      BY <2>1, RecoveredAt DEF InLog
    <2>2. CASE ~InLog(h, b)
      BY <2>2, RecoveredAt
    <2> QED
      BY <2>1, <2>2
  <1>2. Recovered(d, l, h) = [b \in Block |-> Recovered(d, l, h)[b]]
    BY DEF Recovered
  <1> HIDE DEF Recovered
  <1> QED
    BY <1>1, <1>2

\* The contents that survive a crash, now and after a step.
LEMMA StableIs ==
  /\ stable = Recovered(disk, logged, head)
  /\ stable' = Recovered(disk', logged', head')
  BY DEF stable, Recovered, InLog

\* Without a header the disk is what survives.
LEMMA NothingLogged ==
  ASSUME NEW d \in [Block -> Value], NEW l
  PROVE  Recovered(d, l, << >>) = d
  BY DEF Recovered, InLog

\* While no call is under way a clean block is as on disk.
LEMMA Quiet ==
  ASSUME IndInv, open = {}, NEW b \in Block, b \notin dirty
  PROVE  cache[b] = disk[b]
  <1>1. \A p \in Proc : buf[p] = None
    BY DEF IndInv, PlaceInv, open
  <1> QED
    BY <1>1, NoneAssumption DEF IndInv, CacheInv

\* The first state is a first state of Transactions.
LEMMA TxInit == Init => Tx!Init
  <1> SUFFICES ASSUME Init PROVE Tx!Init
    OBVIOUS
  <1>1. stable = disk
    BY StableIs, NothingLogged DEF Init
  <1> QED
    BY <1>1 DEF Init, Tx!Init, current, open

\* What a system call does is what Transactions lets it do.
LEMMA TxCall ==
  ASSUME IndInv, NEW p \in Proc,
         \/ begin_op(p) \/ log_write(p) \/ end_op(p)
         \/ \E b \in Block, v \in Value : Modify(p, b, v)
  PROVE  Tx!Next \/ UNCHANGED Tx!vars
  <1>1. UNCHANGED ondisk /\ UNCHANGED recovering /\ ~recovering
    <2>1. UNCHANGED ondisk /\ UNCHANGED recovering
      BY DEF begin_op, log_write, end_op, Modify, step
    <2>2. ~recovering
      BY DEF begin_op, log_write, end_op, Modify, IndInv, TypeOK, PlaceInv
    <2> QED
      BY <2>1, <2>2
  <1>2. stable' = stable /\ current = cache /\ current' = cache'
    BY <1>1, StableIs DEF ondisk, current
  <1>3. CASE begin_op(p) /\ CanBegin
    <2>1. open' = open \cup {p} /\ p \notin open
      BY <1>3 DEF begin_op, open, IndInv, TypeOK
    <2>2. ~committing /\ committing' = committing /\ cache' = cache
      BY <1>3 DEF begin_op, CanBegin
    <2>3. Tx!Begin(p)
      BY <1>2, <2>1, <2>2 DEF Tx!Begin
    <2> QED
      BY <2>3 DEF Tx!Next
  <1>4. CASE begin_op(p) /\ ~CanBegin
    <2>1. open' = open /\ committing' = committing /\ cache' = cache
      BY <1>4 DEF begin_op, open, IndInv, TypeOK
    <2> QED
      BY <1>2, <2>1 DEF Tx!vars
  <1>5. CASE log_write(p)
    <2>1. open' = open /\ committing' = committing /\ cache' = cache
      BY <1>5 DEF log_write, open, IndInv, TypeOK
    <2> QED
      BY <1>2, <2>1 DEF Tx!vars
  <1>6. CASE end_op(p)
    <2>1. p \in open /\ ~committing
      <3>1. p \in open
        BY <1>6 DEF end_op, open
      <3> QED
        BY <3>1, Inside
    <2>2. open' = open \ {p}
      <3>1. CASE outstanding' # 0
        <4>1. pc' = Woken([pc EXCEPT ![p] = "out"])
          BY <1>6, <3>1 DEF end_op
        <4> QED
          BY <4>1, WakeUp DEF IndInv, open
      <3>2. CASE outstanding' = 0
        <4>1. pc' = [pc EXCEPT ![p] = "commit"]
          BY <1>6, <3>2 DEF end_op
        <4> QED
          BY <4>1 DEF IndInv, TypeOK, open
      <3> QED
        BY <3>1, <3>2
    <2>3. Cardinality(open') = Cardinality(open) - 1 /\ IsFiniteSet(open')
      BY <2>1, <2>2, OpenFinite, FS_RemoveElement
    <2>4. outstanding' = 0 <=> open' = {}
      <3>1. outstanding' = Cardinality(open')
        BY <1>6, <2>3 DEF end_op, IndInv, PlaceInv
      <3> QED
        BY <2>3, <3>1, FS_EmptySet
    <2>5. committing' = (open' = {}) /\ cache' = cache
      BY <1>6, <2>1, <2>4 DEF end_op, IndInv, TypeOK
    <2>6. Tx!End(p)
      BY <1>2, <2>1, <2>2, <2>5 DEF Tx!End
    <2> QED
      BY <2>6 DEF Tx!Next
  <1>7. CASE \E b \in Block, v \in Value : Modify(p, b, v)
    <2>1. PICK b \in Block, v \in Value : Modify(p, b, v)
      BY <1>7
    <2>2. p \in open /\ open' = open
      BY <2>1 DEF Modify, open, IndInv, TypeOK
    <2>3. cache' = [cache EXCEPT ![b] = v] /\ committing' = committing
      BY <2>1 DEF Modify, log
    <2>4. Tx!Write(p, b, v)
      BY <1>2, <2>2, <2>3 DEF Tx!Write
    <2> QED
      BY <2>4 DEF Tx!Next
  <1> QED
    BY <1>3, <1>4, <1>5, <1>6, <1>7

\* commit() makes the writes stable when it writes the header, at once; the
\* last end_op() returns afterwards.
LEMMA TxCommit ==
  ASSUME IndInv, write_head \/ (\E p \in Proc : committed(p))
  PROVE  Tx!Next
  <1>1. CASE write_head
    <2>1. /\ phase = "write_head" /\ head' = lh
          /\ UNCHANGED <<disk, logged, cache, committing, recovering, pc>>
      BY <1>1 DEF write_head, log, procs
    <2>2. ~recovering /\ committing /\ open = {}
      BY <2>1 DEF IndInv, TypeOK, PlaceInv
    <2>3. Recovered(disk, logged, lh) = cache
      <3>1. \A i, j \in 1 .. Len(lh) : lh[i] = lh[j] => i = j
        BY DEF IndInv, TypeOK
      <3>2. cache = [b \in Block |-> cache[b]] /\ \A i \in 1 .. Len(lh) : lh[i] \in Block
        BY DEF IndInv, TypeOK
      <3>3. \A i \in 1 .. Len(lh) : cache[lh[i]] = logged[i]
        BY <2>1 DEF IndInv, DiskInv
      <3>4. \A b \in Block : ~InLog(lh, b) => cache[b] = disk[b]
        BY <2>1, <2>2, Quiet DEF IndInv, CacheInv
      <3> QED
        BY <3>1, <3>2, <3>3, <3>4, SameContents
    <2>4. stable' = cache
      BY <2>1, <2>3, StableIs
    <2>5. open' = open /\ current = cache /\ current' = cache
      BY <2>1, <2>2 DEF open, current
    <2> QED
      BY <2>1, <2>2, <2>4, <2>5 DEF Tx!Commit, Tx!Next
  <1>2. CASE \E p \in Proc : committed(p)
    <2>1. PICK p \in Proc : committed(p)
      BY <1>2
    <2>2. /\ phase = "done" /\ pc[p] = "commit" /\ committing' = FALSE
          /\ UNCHANGED <<ondisk, cache, recovering>>
          /\ pc' = Woken([pc EXCEPT ![p] = "out"])
      BY <2>1 DEF committed, WokenByCommit
    <2>3. ~recovering /\ committing /\ open = {} /\ head = << >> /\ dirty = {}
      BY <2>2 DEF IndInv, TypeOK, PlaceInv, CacheInv, DiskInv
    <2>4. cache = disk
      BY <2>3, Quiet DEF IndInv, TypeOK
    <2>5. stable = cache /\ stable' = stable
      BY <2>2, <2>3, <2>4, StableIs, NothingLogged DEF IndInv, TypeOK, ondisk
    <2>6. open' = open
      BY <2>2, WakeUp DEF IndInv, open
    <2>7. current = cache /\ current' = cache
      BY <2>2, <2>3 DEF current
    <2> QED
      BY <2>2, <2>3, <2>5, <2>6, <2>7 DEF Tx!Return, Tx!Next
  <1> QED
    BY <1>1, <1>2

\* The other steps of a commit or a recovery change nothing that a system
\* call sees or a crash leaves.
LEMMA TxHidden ==
  ASSUME IndInv, write_log \/ read_head \/ install_trans \/ erase
  PROVE  UNCHANGED Tx!vars
  <1>1. open' = open /\ committing' = committing
    BY DEF write_log, read_head, install_trans, erase, log, procs, open
  <1>2. CASE write_log
    <2>1. head = << >> /\ UNCHANGED <<disk, head, cache, recovering>>
      BY <1>2 DEF write_log, IndInv, DiskInv
    <2>2. stable = disk /\ stable' = disk
      BY <2>1, StableIs, NothingLogged DEF IndInv, TypeOK
    <2> QED
      BY <1>1, <2>1, <2>2 DEF current, Tx!vars
  <1>3. CASE read_head
    <2>1. UNCHANGED <<disk, logged, head, cache, recovering>>
      BY <1>3 DEF read_head, ondisk
    <2>2. stable' = stable
      BY <2>1, StableIs
    <2> QED
      BY <1>1, <2>1, <2>2 DEF current, Tx!vars
  <1>4. CASE install_trans
    <2> DEFINE b == lh[tail]
               v == logged[tail]
    <2>1. /\ phase = "install" /\ UNCHANGED <<logged, head, recovering>>
          /\ cache' = [cache EXCEPT ![b] = v] /\ disk' = [disk EXCEPT ![b] = v]
      BY <1>4 DEF install_trans
    <2>2. head = lh /\ tail \in 1 .. Len(head) /\ b \in Block /\ b = head[tail]
      BY <2>1 DEF IndInv, TypeOK, DiskInv
    <2>3. stable' = stable
      <3>1. \A x \in Block : ~InLog(head, x) => disk'[x] = disk[x]
        BY <2>1, <2>2 DEF InLog, IndInv, TypeOK
      <3>2. Recovered(disk', logged, head) = Recovered(disk, logged, head)
        BY <3>1 DEF Recovered
      <3> QED
        BY <2>1, <3>2, StableIs
    <2>4. ~recovering => cache' = cache
      <3>1. ~recovering => cache[b] = v
        BY <2>1, <2>2 DEF IndInv, DiskInv
      <3> QED
        BY <2>1, <3>1 DEF IndInv, TypeOK
    <2> QED
      BY <1>1, <2>1, <2>3, <2>4 DEF current, Tx!vars
  <1>5. CASE erase
    <2>1. /\ phase = "erase" /\ head' = << >> /\ recovering' = FALSE
          /\ UNCHANGED <<disk, cache>>
      BY <1>5 DEF erase
    <2>2. dirty = {} /\ open = {} /\ head = lh
      BY <2>1 DEF IndInv, PlaceInv, CacheInv, DiskInv, open
    <2>3. cache = disk
      BY <2>2, Quiet DEF IndInv, TypeOK
    <2>4. stable' = disk
      BY <2>1, StableIs, NothingLogged DEF IndInv, TypeOK
    <2>5. stable = disk
      <3>1. \A i, j \in 1 .. Len(head) : head[i] = head[j] => i = j
        BY DEF IndInv, TypeOK
      <3>2. disk = [b \in Block |-> disk[b]] /\ \A i \in 1 .. Len(head) : head[i] \in Block
        BY DEF IndInv, TypeOK
      <3>3. \A i \in 1 .. Len(head) : disk[head[i]] = logged[i]
        BY <2>1, <2>2 DEF IndInv, DiskInv
      <3> QED
        BY <3>1, <3>2, <3>3, SameContents, StableIs
    <2> QED
      BY <1>1, <2>1, <2>3, <2>4, <2>5 DEF current, Tx!vars
  <1> QED
    BY <1>2, <1>3, <1>4, <1>5

\* A crash loses what is not stable.
LEMMA TxCrash ==
  ASSUME Crash
  PROVE  Tx!Crash
  <1>1. stable' = stable
    BY StableIs DEF Crash, ondisk
  <1> QED
    BY <1>1 DEF Crash, Tx!Crash, current, open

\* Every step of the log is a step of Transactions, or changes nothing of it.
LEMMA TxStep ==
  ASSUME IndInv, [Next]_vars
  PROVE  [Tx!Next]_Tx!vars
  <1>1. CASE UNCHANGED vars
    <2>1. stable' = stable
      BY <1>1, StableIs DEF vars, ondisk
    <2> QED
      BY <1>1, <2>1 DEF vars, step, log, procs, current, open, Tx!vars
  <1>2. CASE \E b \in Block : Recycle(b)
    BY <1>1, <1>2, RecycleStep
  <1>3. CASE Crash
    BY <1>3, TxCrash DEF Tx!Next
  <1> QED
    BY <1>1, <1>2, <1>3, TxCall, TxCommit, TxHidden DEF Next, Running

\* With crashes anywhere, also in recovery, the log implements the atomic
\* groups of Transactions: for all processes, blocks and sizes.
THEOREM LogIsCrashAtomic == Spec => CrashAtomic
  BY TxInit, TxStep, Invariance, PTL DEF Spec, CrashAtomic, Tx!Spec
=============================================================================
