------------------------------ MODULE FileData ------------------------------
(***************************************************************************)
(* The content of a file: the block bitmap, direct and indirect blocks,    *)
(* readi(), writei() and itrunc() (fs.c), the transactions filewrite()     *)
(* splits a write into (file.c), and the files mkfs puts on the disk       *)
(* (mkfs.c).  The caller has locked the inode, so these are functions.     *)
(*                                                                         *)
(* A block has BSIZE cells; a cell holds a byte, or a block number of an   *)
(* indirect block.  The operators carry a record v: the bitmap, the        *)
(* blocks, the inode's addrs and size, the blocks logged since begin_op(), *)
(* and whether the code has panicked.                                      *)
(***************************************************************************)
EXTENDS Integers, Sequences, FiniteSets, SequencesExt

CONSTANTS
  BSIZE,
  NDIRECT,
  NBlocks,       \* data blocks of the disk
  BPB,           \* blocks whose bits are in one block of the bitmap
  MAXOPBLOCKS,
  WORD           \* offsets are counted modulo WORD (2^32)

NINDIRECT == BSIZE
MAXFILE   == NDIRECT + NINDIRECT
Block     == 1 .. NBlocks

Least(S) == CHOOSE x \in S : \A y \in S : x <= y
Zeroes == [c \in 0 .. BSIZE - 1 |-> 0]

Empty == [used |-> {}, data |-> [b \in Block |-> Zeroes],
          addrs |-> [i \in 0 .. NDIRECT |-> 0], size |-> 0,
          logged |-> {}, panicked |-> FALSE]

\* log_write() of a data block, a block of the bitmap, or the inode's block.
Log(v, kind, b) == [v EXCEPT !.logged = @ \cup {<<kind, b>>}]
LogBit(v, b) == Log(v, "bitmap", b \div BPB)
iupdate(v) == Log(v, "inode", 0)

\* The first free block, zeroed.  Returns the new v and the block.
Balloc(v) ==
  LET Free == Block \ v.used  b == Least(Free) IN
  IF Free = {} THEN <<[v EXCEPT !.panicked = TRUE], 1>>
  ELSE <<Log(LogBit([v EXCEPT !.used = @ \cup {b}, !.data[b] = Zeroes], b), "data", b), b>>

Bfree(v, b) ==
  LogBit([v EXCEPT !.used = @ \ {b}, !.panicked = @ \/ b \notin v.used], b)

\* The bn-th block of the file, allocated if there is none.
Direct(v, bn) ==
  LET Point(x) == <<[x[1] EXCEPT !.addrs[bn] = x[2]], x[2]>>
  IN IF v.addrs[bn] # 0 THEN <<v, v.addrs[bn]>> ELSE Point(Balloc(v))

\* The i-th block that the indirect block t[2] of t[1] names.
\* Mutant: the indirect block is not written back.
BugIndirect(t, i) ==
  LET b == t[1].data[t[2]][i] IN IF b # 0 THEN <<t[1], b>> ELSE Balloc(t[1])

Indirect(t, i) ==
  LET b == t[1].data[t[2]][i]
      Point(x) == <<Log([x[1] EXCEPT !.data[t[2]][i] = x[2]], "data", t[2]), x[2]>>
  IN IF b # 0 THEN <<t[1], b>> ELSE Point(Balloc(t[1]))

Bmap(v, bn) ==
  IF bn < NDIRECT THEN Direct(v, bn) ELSE Indirect(Direct(v, NDIRECT), bn - NDIRECT)

\* Every block of the file is freed, the indirect one last.
ITrunc(v) ==
  LET FreeAll(u, S) == FoldLeft(LAMBDA w, b : IF b # 0 THEN Bfree(w, b) ELSE w, u, S)
      t == v.addrs[NDIRECT]
      v1 == FreeAll(v, [i \in 1 .. NDIRECT |-> v.addrs[i - 1]])
      v2 == IF t = 0 THEN v1
            ELSE Bfree(FreeAll(v1, [i \in 1 .. NINDIRECT |-> v.data[t][i - 1]]), t)
  IN iupdate([v2 EXCEPT !.addrs = Empty.addrs, !.size = 0])

-----------------------------------------------------------------------------

Piece(n, off) == Least({n, BSIZE - (off % BSIZE)})
Wraps(off, n) == (off + n) % WORD < off

\* memmove(block + o, s, Len(s))
Patch(block, o, s) ==
  [c \in DOMAIN block |-> IF c \in o .. o + Len(s) - 1 THEN s[c - o + 1] ELSE block[c]]

RECURSIVE ReadLoop(_, _, _)
ReadLoop(v, off, n) ==
  LET m == Piece(n, off)
      Copied(x) == [c \in 1 .. m |-> x[1].data[x[2]][(off % BSIZE) + c - 1]]
  IN IF n = 0 THEN <<>>
     ELSE Copied(Bmap(v, off \div BSIZE))
          \o ReadLoop(Bmap(v, off \div BSIZE)[1], off + m, n - m)

\* readi(): what it copies, or -1.
ReadI(v, off, n) ==
  IF off > v.size \/ Wraps(off, n) THEN -1
  ELSE ReadLoop(v, off, IF off + n > v.size THEN v.size - off ELSE n)

RECURSIVE WriteLoop(_, _, _)
WriteLoop(v, off, s) ==
  LET m == Piece(Len(s), off)
      Copied(x) == Log([x[1] EXCEPT !.data[x[2]] = Patch(@, off % BSIZE, SubSeq(s, 1, m))],
                       "data", x[2])
  IN IF s = <<>> THEN v
     ELSE WriteLoop(Copied(Bmap(v, off \div BSIZE)), off + m, SubSeq(s, m + 1, Len(s)))

\* writei() refuses to leave a hole, and to go beyond the largest file.
Refused(v, off, n) ==
  off > v.size \/ Wraps(off, n) \/ off + n > MAXFILE * BSIZE

WriteI(v, off, s) ==
  LET end == off + Len(s)
      Sized(w) == IF Len(s) > 0 /\ end > w.size THEN iupdate([w EXCEPT !.size = end]) ELSE w
  IN IF Refused(v, off, Len(s)) THEN v ELSE Sized(WriteLoop(v, off, s))

\* The most filewrite() writes in one transaction.
WriteMax == ((MAXOPBLOCKS - 1 - 1 - 2) \div 2) * BSIZE

-----------------------------------------------------------------------------
(* mkfs: an image m has the next unused block, the blocks, and the inodes. *)

MkfsEmpty == [free |-> 1, data |-> [b \in Block |-> Zeroes], file |-> <<>>]

RSect(m, b) == m.data[b]
WSect(m, b, block) == [m EXCEPT !.data[b] = block]
RInode(m, f) == m.file[f]
WInode(m, f, din) == [m EXCEPT !.file[f] = din]
MkfsIAlloc(m) == [m EXCEPT !.file = Append(@, [addrs |-> Empty.addrs, size |-> 0])]

\* A block number, or the next unused block if it is 0.
MkfsBlock(m, b) == IF b # 0 THEN <<m, b>> ELSE <<[m EXCEPT !.free = @ + 1], m.free>>

\* The loop of iappend(), with the inode in din.
RECURSIVE AppendLoop(_, _, _)
AppendLoop(m, din, s) ==
  IF s = <<>> THEN <<m, din>>
  ELSE LET fbn == din.size \div BSIZE
           slot == IF fbn < NDIRECT THEN fbn ELSE NDIRECT
           d == MkfsBlock(m, din.addrs[slot])
           indirect == RSect(m, d[2])
           i == MkfsBlock(d[1], indirect[fbn - NDIRECT])
           x == IF fbn < NDIRECT THEN d
                ELSE <<WSect(i[1], d[2], [indirect EXCEPT ![fbn - NDIRECT] = i[2]]), i[2]>>
           n1 == Piece(Len(s), din.size)
           block == Patch(RSect(x[1], x[2]), din.size % BSIZE, SubSeq(s, 1, n1))
       IN AppendLoop(WSect(x[1], x[2], block),
                     [din EXCEPT !.addrs[slot] = d[2], !.size = @ + n1],
                     SubSeq(s, n1 + 1, Len(s)))
IAppend(m, f, s) ==
  LET x == AppendLoop(m, RInode(m, f), s) IN WInode(x[1], f, x[2])

\* main(): a root directory with its dots; every file gets an inode, an entry
\* in the root, and its content in pieces of a block; the size of the root is
\* rounded up.  A directory entry is a cell.
Root == 1
MkfsRoot == IAppend(MkfsIAlloc(MkfsEmpty), Root, <<Root, Root>>)
MkfsAdd(m, s) ==
  LET f == Len(m.file) + 1
      m1 == IAppend(MkfsIAlloc(m), Root, <<f>>)
      Part(i) == SubSeq(s, i * BSIZE + 1, Least({Len(s), (i + 1) * BSIZE}))
  IN FoldLeft(LAMBDA w, i : IAppend(w, f, Part(i - 1)), m1,
              [i \in 1 .. (Len(s) + BSIZE - 1) \div BSIZE |-> i])
MkfsRounded(m) ==
  WInode(m, Root, [RInode(m, Root) EXCEPT !.size = ((@ \div BSIZE) + 1) * BSIZE])

\* balloc(): the blocks that the bitmap marks.  Mutant: a bit is assigned to its
\* byte instead of or-ed into it.
BugMkfsUsed(m) == {b \in 1 .. m.free - 1 : b % 8 = 7 \/ b = m.free - 1}
MkfsUsed(m) == 1 .. m.free - 1

\* A file of the image as the kernel finds it.
Mounted(m, f) ==
  [Empty EXCEPT !.used = MkfsUsed(m), !.data = m.data,
                !.addrs = m.file[f].addrs, !.size = m.file[f].size]

-----------------------------------------------------------------------------
(* A file that is written and truncated, and an image that gets files. *)

VARIABLES
  inode,      \* v, between two transactions
  off, todo,  \* f->off and what is left of the buffer, in the loop of filewrite()
  bytes,      \* what should be in the file
  fits,       \* every transaction so far had at most MAXOPBLOCKS blocks
  image,
  made        \* the files put into the image

fileVars  == <<inode, off, todo, bytes, fits>>
imageVars == <<image, made>>

\* What is in a free block is never told apart: it is junk.
Junk == 9
Junked(v) == [v EXCEPT !.logged = {},
                       !.data = [b \in Block |-> IF b \in v.used THEN v.data[b]
                                                 ELSE [c \in DOMAIN Zeroes |-> Junk]]]

DataInit ==
  inode = Junked(Empty) /\ off = 0 /\ todo = <<>> /\ bytes = <<>> /\ fits = TRUE
MkfsInit == image = MkfsRoot /\ made = <<>>

\* Bounds: the lengths of writes, the longest of which take several
\* transactions; and what they write: 1s, and then once 2s.
Lengths == {1, BSIZE + 1, NDIRECT * BSIZE, MAXFILE * BSIZE - 1}
sys_write ==
  /\ todo = <<>>
  /\ \A i \in DOMAIN bytes : bytes[i] = 1
  /\ \E o \in 0 .. inode.size + 1, n \in Lengths, byte \in {1, 2} :
       off' = o /\ todo' = [i \in 1 .. n |-> byte]
  /\ UNCHANGED <<inode, bytes, fits>>

\* The file after a write of s at o, by definition.
Over(c, o, s) ==
  [i \in 1 .. (IF o + Len(s) > Len(c) THEN o + Len(s) ELSE Len(c)) |->
     IF i \in o + 1 .. o + Len(s) THEN s[i - o] ELSE c[i]]

\* One round of the loop, which is one transaction; the loop ends when writei()
\* refuses.
filewrite ==
  LET n1 == Least({Len(todo), WriteMax})
      s == SubSeq(todo, 1, n1)
      r == Refused(inode, off, n1)
      v == WriteI(inode, off, s)
  IN /\ todo # <<>>
     /\ inode' = Junked(v)
     /\ fits' = (Cardinality(v.logged) <= MAXOPBLOCKS)
     /\ bytes' = IF r THEN bytes ELSE Over(bytes, off, s)
     /\ todo' = IF r THEN <<>> ELSE SubSeq(todo, n1 + 1, Len(todo))
     /\ off' = IF r \/ todo' = <<>> THEN 0 ELSE off + n1

\* O_TRUNC is not supported: iput() truncates, after the last close.
truncate ==
  /\ todo = <<>>
  /\ inode' = Junked(ITrunc(inode)) /\ bytes' = <<>>
  /\ UNCHANGED <<off, todo, fits>>

DataNext == sys_write \/ filewrite \/ truncate

\* Bound: two files, a byte of which is its number.
MkfsNext ==
  \E n \in 0 .. MAXFILE * BSIZE :
    LET s == [i \in 1 .. n |-> Len(made) + 1] IN
    /\ Len(made) < 2
    /\ made' = Append(made, s)
    /\ image' = MkfsAdd(image, s)

-----------------------------------------------------------------------------
(* Properties *)

\* The blocks of a file, with repetitions.
Table(v) == IF v.addrs[NDIRECT] = 0 THEN Zeroes ELSE v.data[v.addrs[NDIRECT]]
Pointers(v) == SelectSeq([i \in 1 .. NDIRECT + 1 |-> v.addrs[i - 1]]
                         \o [i \in 1 .. NINDIRECT |-> Table(v)[i - 1]],
                         LAMBDA b : b # 0)
Owned(v) == {Pointers(v)[i] : i \in DOMAIN Pointers(v)}

\* Reading finds what was written, across direct and indirect blocks and up to
\* the last byte a file can have: readi() of any piece agrees with a file that
\* is a sequence of bytes.  A file has no block twice and no block that is not
\* marked in the bitmap; itrunc() frees them all, and none twice.  And no
\* transaction of filewrite() logs more than the MAXOPBLOCKS blocks that
\* begin_op() reserved for it, even if the write is not aligned, reaches into
\* the indirect block and finds the bit of each new block in another block of
\* the bitmap.
FileBytes ==
  /\ ~inode.panicked
  /\ inode.size = Len(bytes)
  /\ \A o \in 0 .. inode.size + 1, n \in {1, BSIZE, inode.size, WORD - 1} :
       ReadI(inode, o, n) = IF o > inode.size \/ o + n >= WORD THEN -1
                            ELSE SubSeq(bytes, o + 1, Least({o + n, inode.size}))
  /\ inode.used = Owned(inode) /\ Len(Pointers(inode)) = Cardinality(Owned(inode))
  /\ fits

\* The kernel reads from an image what mkfs put there, and its bitmap marks
\* every block of every file: a file that grows takes none of another's.  A scan
\* of the root directory up to its rounded size finds every file, and it finds
\* no block missing, unless the entries fill their last block: then readi()
\* allocates one.
MkfsMounts ==
  LET m == MkfsRounded(image)
      v(f) == Mounted(m, f)
      root == v(Root)
      All == 1 .. Len(made) + 1
      d == ReadLoop(root, 0, root.size)
      x(r) == WriteI(v(2), v(2).size, [i \in 1 .. r |-> 3])
  IN /\ \A f \in All \ {Root} : ReadI(v(f), 0, v(f).size) = made[f - 1]
     /\ \A i \in DOMAIN d : d[i] = IF i = 1 THEN Root ELSE IF i - 1 \in All THEN i - 1 ELSE 0
     /\ Bmap(root, (root.size - 1) \div BSIZE)[1].used = MkfsUsed(m)
          <=> (Len(made) + 2) % BSIZE # 0
     /\ UNION {Owned(v(f)) : f \in All} = MkfsUsed(m)
     /\ \A f, g \in All : f # g => Owned(v(f)) \cap Owned(v(g)) = {}
     /\ 2 \in All => \A r \in 1 .. WriteMax, f \in All \ {2} : Owned(x(r)) \cap Owned(v(f)) = {}
=============================================================================
