-------------------------------- MODULE Heap --------------------------------
(***************************************************************************)
(* The allocator of user programs, umalloc.c: malloc(), free() and         *)
(* morecore() on a circular list of free blocks in the order of their      *)
(* addresses.  An address counts Headers; a block begins with its Header.  *)
(***************************************************************************)
EXTENDS Naturals, FiniteSets

CONSTANTS
  HEADER,     \* sizeof(Header)
  MinCore,    \* Headers got at a time (4096)
  MaxHeap,    \* bound: end of the memory that sbrk() gives
  Sizes       \* bound: arguments of malloc(), in bytes

base  == 0    \* lies below the heap
First == 1
Addr  == base .. MaxHeap - 1

VARIABLES
  hdr,        \* ptr and size of the Header at each address
  freep,      \* an address, or NULL
  brk,
  live,       \* blocks handed out, with the bytes asked for
  failed      \* the Headers that the last malloc() asked for in vain, or 0

vars == <<hdr, freep, brk, live, failed>>

NULL == MaxHeap
Blank == [ptr |-> NULL, size |-> 0]
Init ==
  /\ hdr = [a \in Addr |-> Blank]
  /\ freep = NULL /\ brk = First /\ live = {} /\ failed = 0

-----------------------------------------------------------------------------
(* free().  A Header that is one no more, and the ptr of a block that is     *)
(* handed out, are blanked: nothing reads them.                              *)

\* Where bp belongs: after p, or at either end of the list.
RECURSIVE Place(_, _, _)
Place(h, p, bp) ==
  LET q == h[p].ptr IN
  IF (p < bp /\ bp < q) \/ (p >= q /\ (bp > p \/ bp < q)) THEN p ELSE Place(h, q, bp)

\* bp takes in the block after it.
JoinUpper(h, q, bp) ==
  IF bp + h[bp].size = q
  THEN [h EXCEPT ![bp] = [ptr |-> h[q].ptr, size |-> h[bp].size + h[q].size], ![q] = Blank]
  ELSE [h EXCEPT ![bp].ptr = q]

\* bp is taken in by the block before it.
\* Mutant: it is linked in, and not joined.
BugJoinLower(h, p, bp) == [h EXCEPT ![p].ptr = bp]
JoinLower(h, p, bp) ==
  IF p + h[p].size = bp
  THEN [h EXCEPT ![p] = [ptr |-> h[bp].ptr, size |-> h[p].size + h[bp].size], ![bp] = Blank]
  ELSE [h EXCEPT ![p].ptr = bp]

\* The Headers and freep after free(bp + 1).
Freed(h, start, bp) ==
  LET At(p) == [h |-> JoinLower(JoinUpper(h, h[p].ptr, bp), p, bp), freep |-> p]
  IN At(Place(h, start, bp))

free ==
  \E b \in live :
    LET x == Freed(hdr, freep, b.at) IN
    /\ hdr' = x.h /\ freep' = x.freep
    /\ live' = live \ {b}
    /\ failed' = 0
    /\ UNCHANGED brk

-----------------------------------------------------------------------------
(* malloc() *)

nunits(nbytes) == (nbytes + HEADER - 1) \div HEADER + 1

\* morecore(): the new memory is freed.
CoreSize(n) == IF n < MinCore THEN MinCore ELSE n
Cored(h, p, n) == Freed([h EXCEPT ![brk].size = CoreSize(n)], p, brk)

\* The first block that is large enough, from prevp on, and the one before it;
\* NULL once the list has been walked around.
RECURSIVE Fit(_, _, _, _)
Fit(h, start, prevp, n) ==
  LET p == h[prevp].ptr IN
  IF h[p].size >= n THEN [prevp |-> prevp, p |-> p]
  ELSE IF p = start THEN [prevp |-> prevp, p |-> NULL]
  ELSE Fit(h, start, p, n)

\* Take all of block f.p, or its end.
Taken(h, f, n) ==
  LET rest == h[f.p].size - n IN
  IF rest = 0 THEN [h EXCEPT ![f.prevp].ptr = h[f.p].ptr, ![f.p].ptr = NULL]
  ELSE [h EXCEPT ![f.p].size = rest, ![f.p + rest] = [Blank EXCEPT !.size = n]]
Take(h, f, nbytes) ==
  LET n == nunits(nbytes) IN
  /\ hdr' = Taken(h, f, n)
  /\ freep' = f.prevp
  /\ live' = live \cup {[at |-> f.p + h[f.p].size - n, nbytes |-> nbytes]}
  /\ failed' = 0

\* The first call makes a list of base.
from == IF freep = NULL THEN base ELSE freep
Listed == IF freep = NULL THEN [hdr EXCEPT ![base].ptr = base] ELSE hdr

malloc ==
  \E nbytes \in Sizes :
    LET n == nunits(nbytes)
        f == Fit(Listed, from, from, n)
        x == Cored(Listed, from, n)
    IN \/ f.p # NULL /\ Take(Listed, f, nbytes) /\ UNCHANGED brk
       \/ /\ f.p = NULL /\ brk + CoreSize(n) <= MaxHeap
          /\ Take(x.h, Fit(x.h, x.freep, x.freep, n), nbytes)
          /\ brk' = brk + CoreSize(n)
       \* sbrk() may fail at any time: the kernel's memory is shared.
       \/ /\ f.p = NULL
          /\ hdr' = Listed /\ freep' = from /\ failed' = n
          /\ UNCHANGED <<brk, live>>

Next == malloc \/ free

-----------------------------------------------------------------------------
(* Properties *)

\* The list, walked once from base.
RECURSIVE Walk(_, _)
Walk(p, seen) == IF p \in seen THEN seen ELSE Walk(hdr[p].ptr, seen \cup {p})
List == IF freep = NULL THEN {base} ELSE Walk(base, {})
FreeBlocks == List \ {base}
Units(a) == a .. a + hdr[a].size - 1
Starts == FreeBlocks \cup {b.at : b \in live}

\* The heap is cut into blocks, each free or handed out and none both: nothing
\* overlaps and nothing is lost, and a block has room for what was asked.  The
\* list is in order and nothing in it could be joined, whatever was freed in
\* which order; malloc() fails only if no free block is large enough.
HeapSound ==
  /\ freep # NULL => freep \in List
  /\ FreeBlocks \cap {b.at : b \in live} = {}
  /\ \A a, c \in Starts : a # c => Units(a) \cap Units(c) = {}
  /\ UNION {Units(a) : a \in Starts} = First .. brk - 1
  /\ \A b \in live : (hdr[b.at].size - 1) * HEADER >= b.nbytes
  /\ \A p \in FreeBlocks :
       /\ hdr[p].ptr = base \/ hdr[p].ptr > p + hdr[p].size
       /\ failed # 0 => hdr[p].size < failed
=============================================================================
