------------------------------- MODULE LogInv -------------------------------
(***************************************************************************)
(* The inductive invariant of Log: where everybody is, that the space      *)
(* begin_op() reserves suffices, and what is where in each phase of a      *)
(* commit or a recovery.                                                   *)
(***************************************************************************)
EXTENDS Log, TLAPS, FiniteSetTheorems

\* Where processes and commit() are.
PlaceInv ==
  /\ outstanding = Cardinality(open)
  /\ \A p \in Proc : pc[p] = "log_write" <=> buf[p] # None
  /\ \A p, q \in Proc : pc[p] = "commit" /\ pc[q] = "commit" => p = q
  /\ recovering => /\ phase \in {"read_head", "install", "erase"}
                   /\ ~committing /\ \A p \in Proc : pc[p] = "out"
  /\ ~recovering /\ ~committing => phase = "idle" /\ \A p \in Proc : pc[p] # "commit"
  /\ committing => /\ phase \in {"write_log", "write_head", "install", "erase", "done"}
                   /\ open = {}

\* The blocks that open calls have reserved and not used, one pair for each.
Room ==
  {x \in open \X (1 .. MAXOPBLOCKS) : x[2] <= MAXOPBLOCKS - Cardinality(wrote[x[1]])}

\* A call writes no more than its share, and what it wrote is in the log.
Share(p) ==
  /\ IsFiniteSet(wrote[p]) /\ Cardinality(wrote[p]) <= OpBlocks
  /\ \A b \in wrote[p] : InLog(lh, b)
  /\ buf[p] # None => Cardinality(wrote[p] \cup {buf[p]}) <= OpBlocks

\* The log has space for what is reserved.
SpaceInv ==
  /\ \A p \in open : Share(p)
  /\ ~recovering => Len(lh) + Cardinality(Room) <= LOGSIZE
  /\ ~recovering /\ ~committing /\ open = {} => lh = << >>
  /\ ~panicked

\* Which blocks are dirty in the cache; the others are as on disk.
CacheInv ==
  /\ \A b \in Block : b \notin dirty /\ (\A p \in Proc : buf[p] # b) => cache[b] = disk[b]
  /\ recovering \/ phase \in {"erase", "done"} => dirty = {}
  /\ phase \in {"idle", "write_log", "write_head"} => \A b \in Block : b \in dirty <=> InLog(lh, b)
  /\ phase = "install" /\ ~recovering =>
       \A b \in Block : b \in dirty <=> \E i \in tail .. Len(lh) : lh[i] = b

\* How far the log's blocks are copied.
DiskInv ==
  /\ \A i \in 1 .. Len(head) : logged[i] \in Value
  /\ phase \in {"idle", "write_log", "write_head", "done"} => head = << >>
  /\ phase \in {"install", "erase"} => head = lh
  /\ phase \in {"write_log", "write_head", "install"} => tail <= Len(lh)
  /\ phase \in {"read_head", "write_head"} => tail = 1
  /\ phase = "done" => lh = << >>
  /\ phase = "write_log" => \A i \in 1 .. tail - 1 : logged[i] = cache[lh[i]]
  /\ phase = "write_head" => \A i \in 1 .. Len(lh) : logged[i] = cache[lh[i]]
  /\ phase = "install" => \A i \in 1 .. tail - 1 : disk[lh[i]] = logged[i]
  /\ phase = "install" /\ ~recovering => \A i \in 1 .. Len(lh) : cache[lh[i]] = logged[i]
  /\ phase = "erase" => \A i \in 1 .. Len(lh) : disk[lh[i]] = logged[i]

IndInv == TypeOK /\ PlaceInv /\ SpaceInv /\ CacheInv /\ DiskInv /\ WaiterHasWaker

-----------------------------------------------------------------------------
(* Counting *)

\* The calls under way are counted by outstanding.
LEMMA OpenFinite ==
  /\ IsFiniteSet(open) /\ Cardinality(open) \in 0 .. Cardinality(Proc)
  /\ Cardinality(open) = 0 <=> open = {}
  <1>1. open \in SUBSET Proc
    BY DEF open
  <1> QED
    BY <1>1, FS_Subset, FS_CardinalityType, FS_EmptySet, BoundAssumption

\* What is reserved is no more than MAXOPBLOCKS for each call, and at least
\* what each single call has left.
LEMMA RoomBounds ==
  /\ IsFiniteSet(Room) /\ Cardinality(Room) \in Nat
  /\ Cardinality(Room) <= Cardinality(open) * MAXOPBLOCKS
  <1>1. IsFiniteSet(1 .. MAXOPBLOCKS) /\ Cardinality(1 .. MAXOPBLOCKS) = MAXOPBLOCKS
    BY FS_Interval, SizeAssumption
  <1>2. /\ IsFiniteSet(open \X (1 .. MAXOPBLOCKS))
        /\ Cardinality(open \X (1 .. MAXOPBLOCKS)) = Cardinality(open) * MAXOPBLOCKS
    BY <1>1, OpenFinite, FS_Product
  <1>3. Room \in SUBSET (open \X (1 .. MAXOPBLOCKS))
    BY DEF Room
  <1>4. IsFiniteSet(Room) /\ Cardinality(Room) <= Cardinality(open \X (1 .. MAXOPBLOCKS))
    BY <1>2, <1>3, FS_Subset
  <1> QED
    BY <1>2, <1>4, FS_CardinalityType

\* One process and k numbers make k pairs.
LEMMA PairsCounted ==
  ASSUME NEW p, NEW k \in Nat
  PROVE  IsFiniteSet({p} \X (1 .. k)) /\ Cardinality({p} \X (1 .. k)) = k
  <1>1. IsFiniteSet(1 .. k) /\ Cardinality(1 .. k) = k
    BY FS_Interval
  <1>2. IsFiniteSet({p}) /\ Cardinality({p}) = 1
    BY FS_Singleton
  <1>3. /\ IsFiniteSet({p} \X (1 .. k))
        /\ Cardinality({p} \X (1 .. k)) = Cardinality({p}) * Cardinality(1 .. k)
    BY <1>1, <1>2, FS_Product
  <1> QED
    BY <1>1, <1>2, <1>3

\* A call in progress has at least MAXOPBLOCKS - OpBlocks blocks left.
LEMMA RoomLeft ==
  ASSUME NEW p \in open, Cardinality(wrote[p]) \in 0 .. OpBlocks
  PROVE  MAXOPBLOCKS - Cardinality(wrote[p]) <= Cardinality(Room)
  <1> DEFINE k == MAXOPBLOCKS - Cardinality(wrote[p])
  <1>1. k \in Nat /\ k <= MAXOPBLOCKS
    BY SizeAssumption
  <1>2. {p} \X (1 .. k) \in SUBSET Room
    BY <1>1, SizeAssumption DEF Room
  <1>3. Cardinality({p} \X (1 .. k)) <= Cardinality(Room)
    BY <1>2, RoomBounds, FS_Subset
  <1> QED
    BY <1>1, <1>3, PairsCounted

-----------------------------------------------------------------------------
(* The first state *)

LEMMA IndInit == Init => IndInv
  <1> SUFFICES ASSUME Init PROVE IndInv
    OBVIOUS
  <1>1. open = {}
    BY DEF Init, open
  <1>2. TypeOK
    <2>1. Cardinality(Proc) \in Nat
      BY FS_CardinalityType, BoundAssumption
    <2>2. SIZE >= 2
      BY SizeAssumption
    <2>3. lh \in Seq(Block) /\ Len(lh) = 0 /\ head = lh
      BY DEF Init
    <2>4. tail \in 1 .. SIZE - 1 /\ outstanding \in 0 .. Cardinality(Proc) /\ crashes \in 0 .. MaxCrashes
      BY <2>1, <2>2, SizeAssumption, BoundAssumption DEF Init
    <2>5. \A h \in {lh, head} :
            /\ h \in Seq(Block) /\ Len(h) <= SIZE - 1
            /\ \A i, j \in 1 .. Len(h) : h[i] = h[j] => i = j
      <3>1. 1 .. Len(lh) = {} /\ Len(lh) <= SIZE - 1
        BY <2>2, <2>3, SizeAssumption
      <3> QED
        BY <2>3, <3>1
    <2>6. /\ logged \in [1 .. SIZE - 1 -> Value \cup {None}]
          /\ pc \in [Proc -> {"out", "begin", "asleep", "in", "log_write", "commit"}]
          /\ buf \in [Proc -> Block \cup {None}] /\ wrote \in [Proc -> SUBSET Block]
      BY DEF Init
    <2>7. /\ disk \in [Block -> Value] /\ cache \in [Block -> Value] /\ dirty \subseteq Block
          /\ committing \in BOOLEAN /\ recovering \in BOOLEAN /\ panicked \in BOOLEAN
          /\ phase \in {"idle", "read_head", "write_log", "write_head", "install", "erase", "done"}
      BY DEF Init
    <2> QED
      BY <2>4, <2>5, <2>6, <2>7 DEF TypeOK
  <1>3. PlaceInv
    BY <1>1, FS_EmptySet DEF Init, PlaceInv
  <1>4. SpaceInv /\ WaiterHasWaker
    BY <1>1 DEF Init, SpaceInv, WaiterHasWaker
  <1>5. CacheInv
    BY DEF Init, CacheInv
  <1>6. DiskInv
    BY DEF Init, DiskInv
  <1> QED
    BY <1>2, <1>3, <1>4, <1>5, <1>6 DEF IndInv

-----------------------------------------------------------------------------
(* System calls *)

\* A call that begins: its MAXOPBLOCKS fit into the log.
LEMMA BeginStep ==
  ASSUME IndInv, NEW p \in Proc, begin_op(p)
  PROVE  IndInv'
  <1> USE DEF ondisk, step
  <1>1. p \notin open /\ ~recovering /\ buf[p] = None
    BY DEF IndInv, TypeOK, PlaceInv, begin_op, open
  <1>2. CASE ~CanBegin
    <2>1. /\ pc' = [pc EXCEPT ![p] = "asleep"]
          /\ UNCHANGED <<ondisk, cache, dirty, log, step, buf, wrote, panicked, crashes>>
      BY <1>2 DEF begin_op, log
    <2>2. open' = open /\ Room' = Room
      BY <1>1, <2>1 DEF IndInv, TypeOK, open, Room
    <2>3. TypeOK'
      BY <2>1 DEF IndInv, TypeOK, log
    <2>4. PlaceInv'
      BY <1>1, <2>1, <2>2 DEF IndInv, TypeOK, PlaceInv, log
    <2>5. SpaceInv'
      BY <2>1, <2>2 DEF IndInv, SpaceInv, Share, log, InLog
    <2>6. CacheInv' /\ DiskInv'
      BY <2>1 DEF IndInv, CacheInv, DiskInv, log, InLog
    <2>7. outstanding > 0 \/ committing
      <3> SUFFICES ASSUME outstanding = 0, ~committing PROVE FALSE
        BY DEF IndInv, TypeOK
      <3>1. lh = << >>
        BY <1>1, OpenFinite DEF IndInv, PlaceInv, SpaceInv
      <3> QED
        BY <1>2, <3>1, SizeAssumption DEF CanBegin
    <2>8. WaiterHasWaker'
      BY <2>1, <2>7 DEF WaiterHasWaker, log
    <2> QED
      BY <2>3, <2>4, <2>5, <2>6, <2>8 DEF IndInv
  <1>3. CASE CanBegin
    <2>1. /\ pc' = [pc EXCEPT ![p] = "in"] /\ outstanding' = outstanding + 1
          /\ wrote' = [wrote EXCEPT ![p] = {}]
          /\ UNCHANGED <<ondisk, cache, dirty, lh, committing, step, buf, panicked, crashes>>
          /\ ~committing
      BY <1>3 DEF begin_op, CanBegin
    <2>2. open' = open \cup {p}
      BY <1>1, <2>1 DEF IndInv, TypeOK, open
    <2>3. Cardinality(open') = Cardinality(open) + 1
      BY <1>1, <2>2, OpenFinite, FS_AddElement
    <2>4. open' \in SUBSET Proc /\ Cardinality(open') <= Cardinality(Proc)
      BY <2>2, FS_Subset, BoundAssumption DEF open
    <2>5. TypeOK'
      <3>1. outstanding' \in 0 .. Cardinality(Proc)
        BY <2>1, <2>3, <2>4, OpenFinite, FS_CardinalityType, BoundAssumption DEF IndInv, TypeOK, PlaceInv
      <3> QED
        BY <2>1, <3>1 DEF IndInv, TypeOK
    <2>6. PlaceInv'
      BY <1>1, <2>1, <2>2, <2>3 DEF IndInv, TypeOK, PlaceInv
    <2>7. Len(lh) + Cardinality(Room)' <= LOGSIZE
      <3> DEFINE New == {p} \X (1 .. MAXOPBLOCKS)
      <3>1. Room' = Room \cup New
        BY <1>1, <2>1, <2>2, FS_EmptySet, SizeAssumption DEF IndInv, TypeOK, Room, open
      <3>2. IsFiniteSet(New) /\ Cardinality(New) = MAXOPBLOCKS
        BY PairsCounted, SizeAssumption
      <3>3. Cardinality(Room') = Cardinality(Room) + Cardinality(New) - Cardinality(Room \cap New)
        BY <3>1, <3>2, RoomBounds, FS_Union
      <3>4. Cardinality(Room \cap New) \in Nat
        BY <3>2, RoomBounds, FS_Intersection, FS_CardinalityType
      <3>5. Len(lh) + (Cardinality(open) + 1) * MAXOPBLOCKS <= LOGSIZE
        BY <1>3 DEF CanBegin, IndInv, PlaceInv
      <3>6. (Cardinality(open) + 1) * MAXOPBLOCKS = Cardinality(open) * MAXOPBLOCKS + MAXOPBLOCKS
        BY OpenFinite, SizeAssumption
      <3>7. Cardinality(open) * MAXOPBLOCKS \in Nat /\ Len(lh) \in Nat
        BY OpenFinite, SizeAssumption DEF IndInv, TypeOK
      <3> HIDE DEF New
      <3> QED
        BY <3>2, <3>3, <3>4, <3>5, <3>6, <3>7, RoomBounds, SizeAssumption
    <2>8. SpaceInv'
      <3>1. wrote'[p] = {} /\ IsFiniteSet({}) /\ Cardinality({}) = 0 /\ buf'[p] = None
        BY <1>1, <2>1, FS_EmptySet DEF IndInv, TypeOK
      <3>2. \A q \in open : wrote'[q] = wrote[q] /\ buf'[q] = buf[q]
        BY <1>1, <2>1 DEF IndInv, TypeOK, open
      <3>3. ASSUME NEW q \in open'
            PROVE  Share(q)'
        <4>1. CASE q = p
          BY <3>1, <4>1, SizeAssumption DEF Share
        <4>2. CASE q \in open
          BY <2>1, <3>2, <4>2 DEF IndInv, SpaceInv, Share, InLog
        <4> QED
          BY <2>2, <3>3, <4>1, <4>2
      <3>4. ~(open = {})' /\ ~panicked'
        BY <2>1, <2>2 DEF IndInv, SpaceInv
      <3> QED
        BY <2>1, <2>7, <3>3, <3>4 DEF SpaceInv
    <2>9. CacheInv' /\ DiskInv'
      BY <2>1 DEF IndInv, CacheInv, DiskInv, InLog
    <2>10. WaiterHasWaker'
      BY <2>1 DEF IndInv, TypeOK, WaiterHasWaker
    <2> QED
      BY <2>5, <2>6, <2>8, <2>9, <2>10 DEF IndInv
  <1> QED
    BY <1>2, <1>3

\* While a call is under way nothing is committed, and a log_write() of it
\* finds space in the log.
LEMMA Inside ==
  ASSUME IndInv, NEW p \in open
  PROVE  /\ ~recovering /\ ~committing /\ phase = "idle" /\ head = << >>
         /\ Len(lh) \in Nat /\ Len(lh) <= SIZE - 2 /\ ~TooBig
         /\ Cardinality(wrote[p]) \in 0 .. OpBlocks
  <1>1. p \in Proc /\ pc[p] \in {"in", "log_write"}
    BY DEF open
  <1>2. ~recovering /\ ~committing
    BY <1>1 DEF IndInv, TypeOK, PlaceInv
  <1>3. phase = "idle" /\ head = << >>
    BY <1>2 DEF IndInv, PlaceInv, DiskInv
  <1>4. Cardinality(wrote[p]) \in 0 .. OpBlocks
    <2>1. IsFiniteSet(wrote[p]) /\ Cardinality(wrote[p]) <= OpBlocks
      BY DEF IndInv, SpaceInv, Share
    <2>2. Cardinality(wrote[p]) \in Nat
      BY <2>1, FS_CardinalityType
    <2> QED
      BY <2>1, <2>2, SizeAssumption
  <1>5. Len(lh) + Cardinality(Room) <= LOGSIZE
    BY <1>2 DEF IndInv, SpaceInv
  <1>6. Len(lh) \in Nat
    BY DEF IndInv, TypeOK
  <1>7. Len(lh) <= LOGSIZE - (MAXOPBLOCKS - OpBlocks)
    BY <1>4, <1>5, <1>6, RoomLeft, RoomBounds, SizeAssumption
  <1> QED
    BY <1>2, <1>3, <1>4, <1>6, <1>7, SizeAssumption DEF TooBig

\* A system call changes a block in the cache; log_write()'s checks pass.
LEMMA ModifyStep ==
  ASSUME IndInv, NEW p \in Proc, NEW b \in Block, NEW v \in Value, Modify(p, b, v)
  PROVE  IndInv'
  <1> USE DEF ondisk, step, log
  <1>1. p \in open /\ pc[p] = "in" /\ buf[p] = None /\ b # None
    BY NoneAssumption DEF IndInv, PlaceInv, Modify, open
  <1>2. /\ cache' = [cache EXCEPT ![b] = v] /\ buf' = [buf EXCEPT ![p] = b]
        /\ pc' = [pc EXCEPT ![p] = "log_write"] /\ panicked' = FALSE
        /\ UNCHANGED <<ondisk, dirty, log, step, wrote, crashes>>
        /\ Cardinality(wrote[p] \cup {b}) <= OpBlocks
    BY <1>1, Inside DEF Modify
  <1>3. open' = open
    BY <1>1, <1>2 DEF IndInv, TypeOK, open
  <1>4. Room' = Room
    BY <1>2, <1>3 DEF Room
  <1>5. TypeOK'
    BY <1>2 DEF IndInv, TypeOK
  <1>6. PlaceInv'
    BY <1>1, <1>2, <1>3, Inside DEF IndInv, TypeOK, PlaceInv
  <1>7. SpaceInv'
    <2>1. ASSUME NEW q \in open PROVE Share(q)'
      <3>1. buf'[q] = IF q = p THEN b ELSE buf[q]
        BY <1>2, <2>1 DEF IndInv, TypeOK, open
      <3> QED
        BY <1>2, <2>1, <3>1 DEF IndInv, SpaceInv, Share, InLog
    <2> QED
      BY <1>2, <1>3, <1>4, <2>1 DEF IndInv, SpaceInv
  <1>8. CacheInv'
    <2>1. ASSUME NEW x \in Block, x \notin dirty, \A q \in Proc : buf'[q] # x
          PROVE  cache'[x] = disk[x]
      <3>1. x # b /\ \A q \in Proc : buf[q] # x
        BY <1>1, <1>2, <2>1, NoneAssumption DEF IndInv, TypeOK
      <3> QED
        BY <1>2, <2>1, <3>1 DEF IndInv, TypeOK, CacheInv
    <2> QED
      BY <1>1, <1>2, <2>1, Inside DEF IndInv, CacheInv, InLog
  <1>9. DiskInv'
    BY <1>1, <1>2, Inside DEF IndInv, DiskInv
  <1>10. WaiterHasWaker'
    BY <1>1, <1>2 DEF IndInv, TypeOK, WaiterHasWaker
  <1> QED
    BY <1>5, <1>6, <1>7, <1>8, <1>9, <1>10 DEF IndInv

\* Absorption: the log gains block b, at its end, unless it is there.
LEMMA Absorption ==
  ASSUME TypeOK, NEW b \in Block
  PROVE  /\ WithBlock(b) \in Seq(Block)
         /\ Len(WithBlock(b)) = IF InLog(lh, b) THEN Len(lh) ELSE Len(lh) + 1
         /\ \A i, j \in 1 .. Len(WithBlock(b)) : WithBlock(b)[i] = WithBlock(b)[j] => i = j
         /\ \A x \in Block : InLog(WithBlock(b), x) <=> InLog(lh, x) \/ x = b
  <1>1. /\ lh \in Seq(Block) /\ Len(lh) \in Nat
        /\ \A i, j \in 1 .. Len(lh) : lh[i] = lh[j] => i = j
    BY DEF TypeOK
  <1>2. CASE InLog(lh, b)
    BY <1>1, <1>2 DEF WithBlock
  <1>3. CASE ~InLog(lh, b)
    <2> DEFINE g == Append(lh, b)
    <2>1. /\ g \in Seq(Block) /\ Len(g) = Len(lh) + 1 /\ g[Len(lh) + 1] = b
          /\ \A i \in 1 .. Len(lh) : g[i] = lh[i]
      BY <1>1
    <2>2. \A i \in 1 .. Len(lh) : lh[i] # b
      BY <1>3 DEF InLog
    <2>3. WithBlock(b) = g
      BY <1>3 DEF WithBlock
    <2> HIDE DEF g
    <2>4. \A i, j \in 1 .. Len(g) : g[i] = g[j] => i = j
      BY <1>1, <2>1, <2>2
    <2>5. ASSUME NEW x \in Block PROVE InLog(g, x) <=> InLog(lh, x) \/ x = b
      <3>1. 1 .. Len(g) = 1 .. Len(lh) \cup {Len(lh) + 1}
        BY <1>1, <2>1
      <3> QED
        BY <2>1, <3>1 DEF InLog
    <2> QED
      BY <1>3, <2>1, <2>3, <2>4, <2>5
  <1> QED
    BY <1>2, <1>3

\* log_write() takes the space of a block from what its call has reserved, or
\* finds the block in the log.
LEMMA LogWriteStep ==
  ASSUME IndInv, NEW p \in Proc, log_write(p)
  PROVE  IndInv'
  <1> USE DEF ondisk, step
  <1> DEFINE b == buf[p]
             w == wrote[p]
             k == Cardinality(w)
  <1>1. p \in open /\ pc[p] = "log_write" /\ b \in Block /\ b # None
    BY DEF IndInv, TypeOK, PlaceInv, log_write, open
  <1>2. /\ lh' = WithBlock(b) /\ dirty' = dirty \cup {b}
        /\ wrote' = [wrote EXCEPT ![p] = w \cup {b}] /\ buf' = [buf EXCEPT ![p] = None]
        /\ pc' = [pc EXCEPT ![p] = "in"]
        /\ UNCHANGED <<ondisk, cache, outstanding, committing, step, panicked, crashes>>
    BY DEF log_write, Pinned
  <1>3. /\ open' = open
        /\ \A q \in Proc : q # p => wrote'[q] = wrote[q] /\ buf'[q] = buf[q] /\ pc'[q] = pc[q]
        /\ wrote'[p] = w \cup {b} /\ buf'[p] = None /\ pc'[p] = "in"
    BY <1>1, <1>2 DEF IndInv, TypeOK, open
  <1>4. /\ ~recovering /\ ~committing /\ phase = "idle" /\ head = << >>
        /\ Len(lh) \in Nat /\ Len(lh) <= SIZE - 2 /\ k \in 0 .. OpBlocks
    BY <1>1, Inside
  <1>5. /\ lh' \in Seq(Block)
        /\ Len(lh') = IF InLog(lh, b) THEN Len(lh) ELSE Len(lh) + 1
        /\ \A i, j \in 1 .. Len(lh') : lh'[i] = lh'[j] => i = j
        /\ \A x \in Block : InLog(lh, x)' <=> InLog(lh, x) \/ x = b
    <2>1. ASSUME NEW c \in Block, c = b
          PROVE  /\ lh' = WithBlock(c)
                 /\ WithBlock(c) \in Seq(Block)
                 /\ Len(WithBlock(c)) = IF InLog(lh, c) THEN Len(lh) ELSE Len(lh) + 1
                 /\ \A i, j \in 1 .. Len(WithBlock(c)) : WithBlock(c)[i] = WithBlock(c)[j] => i = j
                 /\ \A x \in Block : InLog(WithBlock(c), x) <=> InLog(lh, x) \/ x = c
      BY <1>2, <2>1, Absorption DEF IndInv
    <2>2. \A x : InLog(lh, x)' <=> InLog(lh', x)
      BY DEF InLog
    <2> QED
      BY <1>1, <2>1, <2>2
  <1>6. /\ \A x \in w : InLog(lh, x) /\ x \in Block
        /\ IsFiniteSet(w) /\ Cardinality(w \cup {b}) <= OpBlocks
    BY <1>1 DEF IndInv, TypeOK, SpaceInv, Share
  <1> HIDE DEF b, w, k
  <1>7. TypeOK'
    <2>1. Len(lh') <= SIZE - 1
      BY <1>4, <1>5, SizeAssumption
    <2>2. wrote' \in [Proc -> SUBSET Block] /\ dirty' \subseteq Block
      BY <1>1, <1>2 DEF IndInv, TypeOK, w
    <2>3. pc' \in [Proc -> {"out", "begin", "asleep", "in", "log_write", "commit"}]
          /\ buf' \in [Proc -> Block \cup {None}]
      BY <1>2 DEF IndInv, TypeOK
    <2> QED
      BY <1>2, <1>5, <2>1, <2>2, <2>3 DEF IndInv, TypeOK
  <1>8. PlaceInv'
    BY <1>1, <1>2, <1>3, <1>4 DEF IndInv, PlaceInv
  <1>9. Len(lh') + Cardinality(Room)' <= LOGSIZE
    <2>1. Len(lh) + Cardinality(Room) <= LOGSIZE
      BY <1>4 DEF IndInv, SpaceInv
    <2>2. CASE b \in w
      <3>1. wrote' = wrote
        BY <1>2, <2>2 DEF IndInv, TypeOK, w
      <3>2. Room' = Room
        BY <1>3, <3>1 DEF Room
      <3> QED
        BY <1>5, <1>6, <2>1, <2>2, <3>2
    <2>3. CASE b \notin w
      <3> DEFINE last == <<p, MAXOPBLOCKS - k>>
      <3>1. Cardinality(w \cup {b}) = k + 1
        BY <1>6, <2>3, FS_AddElement DEF k
      <3>2. last \in Room
        BY <1>1, <1>4, SizeAssumption DEF Room, k, w
      <3>3. Room' \subseteq Room \ {last}
        <4> SUFFICES ASSUME NEW x \in Room' PROVE x \in Room /\ x # last
          OBVIOUS
        <4>1. /\ x \in open \X (1 .. MAXOPBLOCKS)
              /\ x[2] <= MAXOPBLOCKS - Cardinality(wrote'[x[1]])
          BY <1>3 DEF Room
        <4>2. CASE x[1] = p
          <5>1. x[2] <= MAXOPBLOCKS - (k + 1)
            BY <1>3, <3>1, <4>1, <4>2
          <5>2. x[2] <= MAXOPBLOCKS - k /\ x[2] # MAXOPBLOCKS - k
            BY <1>4, <4>1, <5>1, SizeAssumption
          <5> QED
            BY <4>1, <4>2, <5>2 DEF Room, k, w
        <4>3. CASE x[1] # p
          BY <1>3, <4>1, <4>3 DEF Room, open
        <4> QED
          BY <4>2, <4>3
      <3>4. IsFiniteSet(Room \ {last}) /\ Cardinality(Room \ {last}) = Cardinality(Room) - 1
        BY <3>2, RoomBounds, FS_RemoveElement
      <3>5. Cardinality(Room') <= Cardinality(Room) - 1 /\ Cardinality(Room') \in Nat
        BY <3>3, <3>4, FS_Subset, FS_CardinalityType
      <3> QED
        BY <1>4, <1>5, <2>1, <3>5, RoomBounds, SizeAssumption
    <2> QED
      BY <2>2, <2>3
  <1>10. SpaceInv'
    <2>1. ASSUME NEW q \in open PROVE Share(q)'
      <3>1. CASE q = p
        <4>1. IsFiniteSet(w \cup {b})
          BY <1>6, FS_AddElement
        <4>2. \A x \in w \cup {b} : InLog(lh, x)'
          BY <1>1, <1>5, <1>6
        <4> QED
          BY <1>3, <1>6, <3>1, <4>1, <4>2 DEF Share
      <3>2. CASE q # p
        <4>1. \A x \in wrote[q] : InLog(lh, x)'
          BY <1>5, <2>1 DEF IndInv, TypeOK, SpaceInv, Share, open
        <4>2. wrote'[q] = wrote[q] /\ buf'[q] = buf[q] /\ Share(q)
          BY <1>3, <2>1, <3>2 DEF IndInv, SpaceInv, open
        <4> QED
          BY <4>1, <4>2 DEF Share
      <3> QED
        BY <3>1, <3>2
    <2> QED
      BY <1>1, <1>2, <1>3, <1>9, <2>1 DEF IndInv, SpaceInv
  <1>11. CacheInv'
    <2>1. ASSUME NEW x \in Block, x \notin dirty', \A q \in Proc : buf'[q] # x
          PROVE  cache[x] = disk[x]
      <3>1. x \notin dirty /\ \A q \in Proc : buf[q] # x
        BY <1>2, <1>3, <2>1 DEF b
      <3> QED
        BY <3>1 DEF IndInv, CacheInv
    <2>2. \A x \in Block : x \in dirty' <=> InLog(lh, x)'
      BY <1>2, <1>4, <1>5 DEF IndInv, CacheInv
    <2> QED
      BY <1>2, <1>4, <2>1, <2>2 DEF CacheInv
  <1>12. DiskInv'
    BY <1>2, <1>4 DEF IndInv, DiskInv
  <1>13. WaiterHasWaker'
    BY <1>1, <1>2, <1>3 DEF IndInv, WaiterHasWaker
  <1> QED
    BY <1>7, <1>8, <1>10, <1>11, <1>12, <1>13 DEF IndInv

\* wakeup(&log) by p, which leaves end_op(): nobody is asleep after it.
LEMMA WakeUp ==
  ASSUME TypeOK, NEW p \in Proc, pc' = Woken([pc EXCEPT ![p] = "out"])
  PROVE  /\ pc' \in [Proc -> {"out", "begin", "asleep", "in", "log_write", "commit"}]
         /\ pc'[p] = "out" /\ \A q \in Proc : pc'[q] # "asleep"
         /\ \A q \in Proc : q # p => (pc'[q] = pc[q] \/ (pc[q] = "asleep" /\ pc'[q] = "begin"))
  <1> DEFINE g == [pc EXCEPT ![p] = "out"]
  <1>1. /\ g \in [Proc -> {"out", "begin", "asleep", "in", "log_write", "commit"}]
        /\ g[p] = "out" /\ \A q \in Proc : q # p => g[q] = pc[q]
    BY DEF TypeOK
  <1>2. pc' = [q \in Proc |-> IF g[q] = "asleep" THEN "begin" ELSE g[q]]
    BY DEF Woken
  <1> HIDE DEF g
  <1>3. \A q \in Proc : pc'[q] = IF g[q] = "asleep" THEN "begin" ELSE g[q]
    BY <1>2
  <1>4. pc' \in [Proc -> {"out", "begin", "asleep", "in", "log_write", "commit"}]
    BY <1>1, <1>2
  <1> QED
    BY <1>1, <1>3, <1>4

\* end_op(): the call's reserved space is free again; the last one commits.
LEMMA EndStep ==
  ASSUME IndInv, NEW p \in Proc, end_op(p)
  PROVE  IndInv'
  <1> USE DEF ondisk
  <1>1. p \in open /\ pc[p] = "in" /\ buf[p] = None
    BY DEF IndInv, PlaceInv, end_op, open
  <1>2. ~recovering /\ ~committing /\ phase = "idle" /\ head = << >> /\ Len(lh) \in Nat
    BY <1>1, Inside
  <1>3. /\ outstanding' = outstanding - 1 /\ panicked' = FALSE
        /\ UNCHANGED <<ondisk, cache, dirty, lh, recovering, buf, wrote, crashes>>
    BY <1>2 DEF end_op, IndInv, TypeOK
  <1>4. /\ \A q \in Proc : q # p => (pc'[q] = pc[q] \/ (pc[q] = "asleep" /\ pc'[q] = "begin"))
        /\ pc'[p] = IF outstanding' = 0 THEN "commit" ELSE "out"
        /\ pc' \in [Proc -> {"out", "begin", "asleep", "in", "log_write", "commit"}]
    <2>1. CASE outstanding' # 0
      <3>1. pc' = Woken([pc EXCEPT ![p] = "out"])
        BY <2>1 DEF end_op
      <3> QED
        BY <2>1, <3>1, WakeUp DEF IndInv
    <2>2. CASE outstanding' = 0
      <3>1. pc' = [pc EXCEPT ![p] = "commit"]
        BY <2>2 DEF end_op
      <3> QED
        BY <2>2, <3>1 DEF IndInv, TypeOK
    <2> QED
      BY <2>1, <2>2
  <1>5. open' = open \ {p}
    BY <1>4 DEF open
  <1>6. Cardinality(open') = Cardinality(open) - 1 /\ Cardinality(open') \in Nat
    BY <1>1, <1>5, OpenFinite, FS_RemoveElement, FS_CardinalityType
  <1>7. outstanding' = Cardinality(open')
    BY <1>3, <1>6 DEF IndInv, PlaceInv
  <1>8. outstanding' = 0 <=> open' = {}
    BY <1>5, <1>7, OpenFinite, FS_EmptySet, FS_Subset
  <1>9. SpaceInv'
    <2>1. \A q \in open' : Share(q)'
      BY <1>3, <1>5 DEF IndInv, SpaceInv, Share, InLog
    <2>2. Room' \subseteq Room
      BY <1>3, <1>5 DEF Room
    <2>3. Cardinality(Room') <= Cardinality(Room) /\ Cardinality(Room') \in Nat
      BY <2>2, RoomBounds, FS_Subset, FS_CardinalityType
    <2>4. Len(lh') + Cardinality(Room') <= LOGSIZE
      BY <1>2, <1>3, <2>3, RoomBounds, SizeAssumption DEF IndInv, SpaceInv
    <2>5. open' = {} => committing'
      BY <1>8 DEF end_op
    <2> QED
      BY <1>3, <2>1, <2>4, <2>5 DEF SpaceInv
  <1>10. CASE outstanding' # 0
    <2>1. UNCHANGED <<committing, phase, tail>>
      BY <1>10 DEF end_op
    <2>2. TypeOK'
      <3>1. outstanding' \in 0 .. Cardinality(Proc)
        BY <1>6, <1>7, OpenFinite, FS_CardinalityType, BoundAssumption
      <3> QED
        BY <1>3, <1>4, <2>1, <3>1 DEF IndInv, TypeOK
    <2>3. PlaceInv'
      <3>1. \A q \in Proc : pc'[q] = "log_write" <=> buf'[q] # None
        BY <1>1, <1>3, <1>4, <1>10 DEF IndInv, PlaceInv
      <3>2. \A q \in Proc : pc'[q] # "commit"
        BY <1>2, <1>4, <1>10 DEF IndInv, PlaceInv
      <3> QED
        BY <1>2, <1>3, <1>7, <2>1, <3>1, <3>2 DEF PlaceInv
    <2>4. CacheInv' /\ DiskInv'
      BY <1>3, <2>1 DEF IndInv, CacheInv, DiskInv, InLog
    <2>5. WaiterHasWaker'
      <3>1. outstanding' \in Nat
        BY <1>6, <1>7
      <3>2. outstanding' > 0
        BY <1>10, <3>1
      <3> QED
        BY <3>2 DEF WaiterHasWaker
    <2> QED
      BY <1>9, <2>2, <2>3, <2>4, <2>5 DEF IndInv
  <1>11. CASE outstanding' = 0
    <2>1. /\ committing' = TRUE /\ tail' = 1
          /\ phase' = IF lh = << >> THEN "done" ELSE "write_log"
      BY <1>11 DEF end_op
    <2>2. TypeOK'
      <3>1. 0 \in 0 .. Cardinality(Proc) /\ 1 \in 1 .. SIZE - 1
        BY FS_CardinalityType, BoundAssumption, SizeAssumption
      <3>2. phase' \in {"idle", "read_head", "write_log", "write_head", "install", "erase", "done"}
        BY <2>1
      <3> QED
        BY <1>3, <1>4, <1>11, <2>1, <3>1, <3>2 DEF IndInv, TypeOK
    <2>3. PlaceInv'
      <3>1. \A q \in Proc : pc'[q] = "log_write" <=> buf'[q] # None
        BY <1>1, <1>3, <1>4, <1>11 DEF IndInv, PlaceInv
      <3>2. \A q \in Proc : pc'[q] = "commit" => q = p
        BY <1>2, <1>4 DEF IndInv, PlaceInv
      <3> QED
        BY <1>2, <1>3, <1>7, <1>8, <1>11, <2>1, <3>1, <3>2 DEF PlaceInv
    <2>4. CacheInv'
      <3>1. \A x \in Block : x \in dirty <=> InLog(lh, x)
        BY <1>2 DEF IndInv, CacheInv
      <3>2. lh = << >> => dirty = {}
        BY <3>1 DEF IndInv, TypeOK, InLog
      <3> QED
        BY <1>2, <1>3, <2>1, <3>1, <3>2 DEF IndInv, CacheInv, InLog
    <2>5. DiskInv'
      <3>1. phase' = "write_log" => 1 <= Len(lh)
        BY <1>2, <2>1 DEF IndInv, TypeOK
      <3> QED
        BY <1>2, <1>3, <2>1, <3>1 DEF IndInv, DiskInv
    <2>6. WaiterHasWaker'
      BY <2>1 DEF WaiterHasWaker
    <2> QED
      BY <1>9, <2>2, <2>3, <2>4, <2>5, <2>6 DEF IndInv
  <1> QED
    BY <1>10, <1>11

\* After commit(): the log is empty, and everybody who waits is woken.
LEMMA CommittedStep ==
  ASSUME IndInv, NEW p \in Proc, committed(p)
  PROVE  IndInv'
  <1> USE DEF ondisk
  <1>1. pc[p] = "commit" /\ phase = "done"
    BY DEF committed
  <1>2. ~recovering /\ committing /\ open = {} /\ lh = << >> /\ dirty = {} /\ head = << >>
    BY <1>1 DEF IndInv, TypeOK, PlaceInv, CacheInv, DiskInv
  <1>3. /\ committing' = FALSE /\ phase' = "idle"
        /\ UNCHANGED <<ondisk, cache, dirty, lh, outstanding, tail, recovering,
                       buf, wrote, panicked, crashes>>
    BY DEF committed
  <1>4. /\ \A q \in Proc : q # p => (pc'[q] = pc[q] \/ (pc[q] = "asleep" /\ pc'[q] = "begin"))
        /\ pc'[p] = "out" /\ \A q \in Proc : pc'[q] # "asleep"
        /\ pc' \in [Proc -> {"out", "begin", "asleep", "in", "log_write", "commit"}]
    BY WakeUp DEF IndInv, committed, WokenByCommit
  <1>5. open' = open /\ \A q \in Proc : pc'[q] # "commit"
    BY <1>1, <1>4 DEF IndInv, PlaceInv, open
  <1>6. TypeOK'
    BY <1>3, <1>4 DEF IndInv, TypeOK
  <1>7. PlaceInv'
    <2>1. \A q \in Proc : pc'[q] = "log_write" <=> buf'[q] # None
      BY <1>1, <1>3, <1>4 DEF IndInv, PlaceInv
    <2> QED
      BY <1>2, <1>3, <1>5, <2>1 DEF IndInv, PlaceInv
  <1>8. SpaceInv'
    <2>1. Room' = Room
      BY <1>3, <1>5 DEF Room
    <2> QED
      BY <1>2, <1>3, <1>5, <2>1 DEF IndInv, SpaceInv
  <1>9. CacheInv'
    BY <1>2, <1>3 DEF IndInv, CacheInv, InLog
  <1>10. DiskInv'
    BY <1>2, <1>3 DEF IndInv, DiskInv
  <1>11. WaiterHasWaker'
    BY <1>4 DEF WaiterHasWaker
  <1> QED
    BY <1>6, <1>7, <1>8, <1>9, <1>10, <1>11 DEF IndInv
=============================================================================
