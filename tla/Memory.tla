------------------------------- MODULE Memory -------------------------------
(***************************************************************************)
(* Pages and address spaces: kalloc.c, vm.c, exec.c, growproc() and what   *)
(* fork(), wait() and userinit() do with memory (proc.c), and the checks   *)
(* of pointers that user programs pass to system calls (syscall.c).        *)
(*                                                                         *)
(* Pages are counted: what matters is that each is free or in one place.   *)
(* An address space is a page directory, its page tables, and an entry for *)
(* each user page.  A process changes only its own, and kalloc() and       *)
(* kfree() of different processes commute, but for one thing: the others   *)
(* may leave nothing to allocate, for a while if it is pages of pipes.  So *)
(* a system call is one step, in which the first fuel allocations succeed. *)
(***************************************************************************)
EXTENDS Integers, Sequences, FiniteSets, FiniteSetsExt

CONSTANTS
  NPROC,
  KernelEnd,    \* end of the kernel's image in physical memory
  EntryTop,     \* physical memory that the first page directory maps (4 MB)
  PHYSTOP,      \* end of physical memory
  DEVSPACE,     \* devices are from here on
  PGSIZE,       \* bytes of a page
  NPTENTRIES,   \* entries of a page table
  KERNBASE,     \* end of user memory
  KernelTables, \* page tables of the kernel part of an address space
  WORD,         \* addresses are modulo WORD (2^32)
  WordSize,     \* bytes of an int and of a pointer
  MAXARG,
  Grow,         \* bound: arguments of sbrk()
  Program       \* bound: files and lengths of argument strings given to exec()

P2V(a) == a + KERNBASE

\* A page table is of user memory, of physical memory, of devices or of none.
ASSUME SizeAssumption ==
  /\ 2 * KERNBASE <= WORD /\ P2V(PHYSTOP) <= DEVSPACE /\ DEVSPACE < WORD
  /\ \A a \in {KERNBASE, P2V(PHYSTOP), DEVSPACE, WORD} : a % (PGSIZE * NPTENTRIES) = 0
  /\ EntryTop % PGSIZE = 0 /\ KernelEnd <= EntryTop /\ EntryTop <= PHYSTOP

Slot == 1 .. NPROC
Vpn  == 0 .. (KERNBASE \div PGSIZE) - 1
PDX(v) == v \div NPTENTRIES
PGROUNDUP(a) == ((a + PGSIZE - 1) \div PGSIZE) * PGSIZE

VARIABLES
  free,      \* length of the free list
  state, kstack, sz,
  as,        \* p->pgdir and what it leads to
  panicked,
  stray      \* the kernel has written to memory that no page table names

vars == <<free, state, kstack, sz, as, panicked, stray>>

\* The entry of a page is not present, for the user, or for the kernel only.
NoSpace == [dir |-> 0, kern |-> 0, tab |-> {}, pte |-> [v \in Vpn |-> "none"]]

\* The functions below take and return a record: the free pages, the
\* allocations that will succeed, the address space worked on, the result of
\* the last call (0: failure), and whether there was a panic or a stray write.
Machine(n, fuel, a) ==
  [free |-> n, fuel |-> fuel, a |-> a, ret |-> 1, panic |-> FALSE, stray |-> FALSE]

kalloc(m) ==
  IF m.fuel = 0 THEN [m EXCEPT !.ret = 0]
  ELSE [m EXCEPT !.ret = 1, !.fuel = @ - 1, !.free = @ - 1]
kfree(m, n) == [m EXCEPT !.free = @ + n]

\* Memory is freed in two parts: what the first page directory maps, from the
\* end of the kernel on, and the rest.  Nobody else allocates yet.
freerange(m, vstart, vend) ==
  LET x == kfree(m, Cardinality({a \in PGROUNDUP(vstart) .. vend - PGSIZE : a % PGSIZE = 0}))
  IN [x EXCEPT !.fuel = x.free]
kinit1 == freerange(Machine(0, 0, NoSpace), P2V(KernelEnd), P2V(EntryTop))
kinit2(m) == freerange(m, P2V(EntryTop), P2V(PHYSTOP))
NPages == kinit2(kinit1).free

-----------------------------------------------------------------------------
(* vm.c *)

\* The page table of a page; a missing one is made if alloc.
walkpgdir(m, v, alloc) ==
  IF PDX(v) \in m.a.tab THEN [m EXCEPT !.ret = 1]
  ELSE LET x == kalloc(m) IN
       IF ~alloc THEN [m EXCEPT !.ret = 0]
       ELSE IF x.ret = 0 THEN x
       ELSE [x EXCEPT !.a.tab = @ \cup {PDX(v)}]

mappages(m, v, perm) ==
  LET x == walkpgdir(m, v, TRUE) IN
  IF x.ret = 0 THEN x
  ELSE [x EXCEPT !.a.pte[v] = perm, !.panic = @ \/ x.a.pte[v] # "none"]

\* From the page after newsz to the page before oldsz; an address range without
\* a page table is skipped.
RECURSIVE DeallocLoop(_, _, _)
DeallocLoop(m, a, oldsz) ==
  LET v == a \div PGSIZE IN
  IF a >= oldsz THEN m
  ELSE IF walkpgdir(m, v, FALSE).ret = 0
  THEN DeallocLoop(m, (PDX(v) + 1) * NPTENTRIES * PGSIZE, oldsz)
  ELSE IF m.a.pte[v] = "none" THEN DeallocLoop(m, a + PGSIZE, oldsz)
  ELSE DeallocLoop(kfree([m EXCEPT !.a.pte[v] = "none"], 1), a + PGSIZE, oldsz)
\* Mutant: the page that newsz is in is freed as well.
BugDealloc(m, oldsz, newsz) ==
  IF newsz >= oldsz THEN [m EXCEPT !.ret = oldsz]
  ELSE [DeallocLoop(m, newsz - (newsz % PGSIZE), oldsz) EXCEPT !.ret = newsz]
deallocuvm(m, oldsz, newsz) ==
  IF newsz >= oldsz THEN [m EXCEPT !.ret = oldsz]
  ELSE [DeallocLoop(m, PGROUNDUP(newsz), oldsz) EXCEPT !.ret = newsz]

\* One page at a time; what was allocated is given back when memory runs out,
\* for a page or for a page table.
RECURSIVE AllocLoop(_, _, _, _)
\* Mutant: the page that there is no table for is lost.
RECURSIVE BugAllocLoop(_, _, _, _)
BugAllocLoop(m, a, oldsz, newsz) ==
  LET mem == kalloc(m)
      x == mappages(mem, a \div PGSIZE, "user")
  IN IF a >= newsz THEN [m EXCEPT !.ret = newsz]
     ELSE IF mem.ret = 0 \/ x.ret = 0 THEN [deallocuvm(x, newsz, oldsz) EXCEPT !.ret = 0]
     ELSE BugAllocLoop(x, a + PGSIZE, oldsz, newsz)
AllocLoop(m, a, oldsz, newsz) ==
  LET mem == kalloc(m)
      x == mappages(mem, a \div PGSIZE, "user")
  IN IF a >= newsz THEN [m EXCEPT !.ret = newsz]
     ELSE IF mem.ret = 0 THEN [deallocuvm(mem, newsz, oldsz) EXCEPT !.ret = 0]
     ELSE IF x.ret = 0 THEN [kfree(deallocuvm(x, newsz, oldsz), 1) EXCEPT !.ret = 0]
     ELSE AllocLoop(x, a + PGSIZE, oldsz, newsz)
allocuvm(m, oldsz, newsz) ==
  IF newsz >= KERNBASE THEN [m EXCEPT !.ret = 0]
  ELSE IF newsz < oldsz THEN [m EXCEPT !.ret = oldsz]
  ELSE AllocLoop(m, PGROUNDUP(oldsz), oldsz, newsz)

freevm(m) ==
  LET x == deallocuvm(m, KERNBASE, 0) IN
  [kfree(x, Cardinality(x.a.tab) + x.a.kern + 1) EXCEPT !.a = NoSpace]

\* The kernel part of an address space.
RECURSIVE MapKernel(_)
MapKernel(m) ==
  LET x == kalloc(m) IN
  IF m.a.kern = KernelTables THEN [m EXCEPT !.ret = 1]
  ELSE IF x.ret = 0 THEN [freevm(x) EXCEPT !.ret = 0]
  ELSE MapKernel([x EXCEPT !.a.kern = @ + 1])
setupkvm(m) ==
  LET x == kalloc(m) IN
  IF x.ret = 0 THEN x ELSE MapKernel([x EXCEPT !.a = [NoSpace EXCEPT !.dir = 1]])

\* The kernel's own address space, which is kept.
kvmalloc(m) == setupkvm(m)

inituvm(m) == mappages(kalloc(m), 0, "user")

clearpteu(m, v) ==
  [m EXCEPT !.a.pte[v] = "kernel", !.panic = @ \/ PDX(v) \notin m.a.tab]

\* A copy of the pages below size of address space a.
RECURSIVE CopyLoop(_, _, _, _)
CopyLoop(m, a, size, i) ==
  LET v == i \div PGSIZE
      mem == kalloc(m)
      x == mappages(mem, v, a.pte[v])
  IN IF i >= size \/ m.panic THEN [m EXCEPT !.ret = 1]
     ELSE IF a.pte[v] = "none" THEN [m EXCEPT !.panic = TRUE]
     ELSE IF mem.ret = 0 THEN [freevm(mem) EXCEPT !.ret = 0]
     ELSE IF x.ret = 0 THEN [freevm(kfree(x, 1)) EXCEPT !.ret = 0]
     ELSE CopyLoop(x, a, size, i + PGSIZE)
copyuvm(m, a, size) ==
  LET x == setupkvm(m) IN IF x.ret = 0 THEN x ELSE CopyLoop(x, a, size, 0)

\* The kernel maps physical memory and devices, and nothing between them.
KernelPart(va) == va \in KERNBASE .. P2V(PHYSTOP) - 1 \/ va >= DEVSPACE

\* The entry that allows the user a page, or not.  That there is no page table
\* is not tested for: then the entry is the word at address 0 of the process
\* that calls, or a page fault.
uva2ka(m, va, word) ==
  IF KernelPart(va) THEN "kernel"
  ELSE IF va >= KERNBASE \/ walkpgdir(m, va \div PGSIZE, FALSE).ret = 0 THEN word
  ELSE m.a.pte[va \div PGSIZE]

\* Page by page, up to the first that is not the user's.
copyout(m, va, len, word) ==
  LET Entry(w, k) == uva2ka(m, (va + k * PGSIZE) % WORD, w)
      last == ((va % PGSIZE) + len - 1) \div PGSIZE
      refused == {k \in 0 .. last : Entry(word, k) # "user"}
      n == IF refused = {} THEN last + 1 ELSE Min(refused)
  IN [m EXCEPT !.ret = IF refused = {} THEN 1 ELSE 0,
               !.panic = @ \/ (refused # {} /\ Entry(word, n) = "fault"),
               !.stray = @ \/ \E k \in 0 .. n - 1 : Entry("none", k) # "user"]

\* The file is read into pages that must exist.
loaduvm(m, addr, ph) ==
  [m EXCEPT !.ret = IF ph.short THEN 0 ELSE 1,
            !.panic = @ \/ \E i \in 0 .. ph.filesz - 1 :
                            m.a.pte[(addr + i) \div PGSIZE] = "none"]

-----------------------------------------------------------------------------
(* exec.c; the record has the size and the stack pointer so far as well, *)
(* and how the word at address 0 of the caller reads as an entry.        *)

Failed(x) == [x EXCEPT !.m.ret = 0]

\* One program header.
ExecSegment(x, ph) ==
  LET end == (ph.vaddr + ph.memsz) % WORD
      grown == allocuvm(x.m, x.sz, end)
  IN IF x.m.ret = 0 \/ ~ph.load THEN x
     ELSE IF ph.memsz < ph.filesz \/ end < ph.vaddr THEN Failed(x)
     ELSE IF grown.ret = 0 \/ ph.vaddr % PGSIZE # 0 THEN Failed([x EXCEPT !.m = grown])
     ELSE [x EXCEPT !.m = loaduvm(grown, ph.vaddr, ph), !.sz = grown.ret]

\* Two pages at the next page boundary, the first as a guard.
ExecStack(x) ==
  LET base == PGROUNDUP(x.sz)
      grown == allocuvm(x.m, base, base + 2 * PGSIZE)
      top == grown.ret
  IN IF x.m.ret = 0 THEN x
     ELSE IF top = 0 THEN Failed([x EXCEPT !.m = grown])
     ELSE [x EXCEPT !.m = clearpteu(grown, (top - 2 * PGSIZE) \div PGSIZE),
                    !.sz = top, !.sp = top]

\* Push n bytes, word-aligned; strings first, then the words that point to them.
Push(x, n) ==
  LET sp == (((x.sp - n) % WORD) \div WordSize) * WordSize IN
  IF x.m.ret = 0 THEN x ELSE [x EXCEPT !.m = copyout(x.m, sp, n, x.word), !.sp = sp]

RECURSIVE PushAll(_, _)
PushAll(x, args) ==
  IF args = <<>> THEN x ELSE PushAll(Push(x, Head(args) + 1), Tail(args))

RECURSIVE Segments(_, _)
Segments(x, phs) ==
  IF phs = <<>> THEN x ELSE Segments(ExecSegment(x, Head(phs)), Tail(phs))

\* A new address space with the image and its arguments, or none.
exec(n, fuel, prog, word) ==
  LET x0 == [m |-> setupkvm(Machine(n, fuel, NoSpace)), sz |-> 0, sp |-> 0, word |-> word]
      x == Push(PushAll(ExecStack(Segments(x0, prog.ph)), prog.args),
                (Len(prog.args) + 4) * WordSize)
  IN IF ~prog.elf THEN Failed([x0 EXCEPT !.m = Machine(n, fuel, NoSpace)])
     ELSE IF x0.m.ret = 0 THEN x0
     ELSE IF x.m.ret = 0 THEN Failed([x EXCEPT !.m = freevm(x.m)])
     ELSE x

-----------------------------------------------------------------------------
(* Arguments of system calls *)

fetchint(p, addr) == addr < sz[p] /\ (addr + WordSize) % WORD <= sz[p]
argptr(p, i, size) == size >= 0 /\ i < sz[p] /\ (i + size) % WORD <= sz[p]
\* A string of len bytes and its end, wherever it starts.
fetchstr(p, len) == len < sz[p]

-----------------------------------------------------------------------------
(* System calls *)

\* userinit(): the first process has one page.
Init ==
  /\ LET m == inituvm(setupkvm(kalloc(kinit2(kvmalloc(kinit1))))) IN
     free = m.free /\ as = [p \in Slot |-> IF p = 1 THEN m.a ELSE NoSpace]
  /\ state = [p \in Slot |-> IF p = 1 THEN "RUNNABLE" ELSE "UNUSED"]
  /\ kstack = [p \in Slot |-> IF p = 1 THEN 1 ELSE 0]
  /\ sz = [p \in Slot |-> IF p = 1 THEN PGSIZE ELSE 0]
  /\ panicked = FALSE /\ stray = FALSE

growproc(m, p, n) ==
  IF n > 0 THEN allocuvm(m, sz[p], (sz[p] + n) % WORD)
  ELSE IF n < 0 THEN deallocuvm(m, sz[p], (sz[p] + n) % WORD)
  ELSE [m EXCEPT !.ret = sz[p]]

\* sbrk(n).  A shrink to nothing frees every page, but looks like a failure,
\* and leaves sz as it was.
Sbrk(p) ==
  /\ state[p] = "RUNNABLE"
  /\ \E n \in Grow \cup {-sz[p]}, fuel \in 0 .. free :
       LET m == growproc(Machine(free, fuel, as[p]), p, n) IN
       /\ free' = m.free
       /\ as' = [as EXCEPT ![p] = m.a]
       /\ sz' = IF m.ret = 0 THEN sz ELSE [sz EXCEPT ![p] = m.ret]
       /\ panicked' = m.panic
  /\ UNCHANGED <<state, kstack, stray>>

\* allocproc() finds a slot and allocates a kernel stack; copyuvm() the rest.
Fork(p) ==
  /\ state[p] = "RUNNABLE"
  /\ \E q \in Slot, fuel \in 0 .. free :
       LET stack == kalloc(Machine(free, fuel, NoSpace))
           m == copyuvm(stack, as[p], sz[p])
       IN /\ state[q] = "UNUSED" /\ \A r \in 1 .. q - 1 : state[r] # "UNUSED"
          /\ stack.ret = 1
          /\ panicked' = m.panic
          /\ IF m.ret = 0
             THEN free' = kfree(m, 1).free /\ UNCHANGED <<state, kstack, sz, as>>
             ELSE /\ free' = m.free
                  /\ as' = [as EXCEPT ![q] = m.a]
                  /\ sz' = [sz EXCEPT ![q] = sz[p]]
                  /\ kstack' = [kstack EXCEPT ![q] = 1]
                  /\ state' = [state EXCEPT ![q] = "RUNNABLE"]
  /\ UNCHANGED stray

\* sbrk(-sz) has taken all memory away, and reported a failure.
Emptied(p) == as[p].pte[0] = "none"

\* What the word at address 0 of a process allows, read as an entry: whatever the
\* program has there.  Without arguments exec() does not leave the stack's page.
WordAt0(p, args) ==
  IF args = <<>> THEN {"none"}
  ELSE IF Emptied(p) THEN {"none", "user", "fault"} ELSE {"none", "user"}

\* The old address space is freed once the new one is complete.
Exec(p) ==
  /\ state[p] = "RUNNABLE"
  /\ \E prog \in Program, fuel \in 0 .. free : \E word \in WordAt0(p, prog.args) :
       LET x == exec(free, fuel, prog, word) IN
       /\ Len(prog.args) < MAXARG /\ \A i \in DOMAIN prog.args : fetchstr(p, prog.args[i])
       /\ panicked' = x.m.panic /\ stray' = x.m.stray
       /\ IF x.m.ret = 0 THEN free' = x.m.free /\ UNCHANGED <<as, sz>>
          ELSE /\ free' = freevm([x.m EXCEPT !.a = as[p]]).free
               /\ as' = [as EXCEPT ![p] = x.m.a]
               /\ sz' = [sz EXCEPT ![p] = x.sz]
  /\ UNCHANGED <<state, kstack>>

\* exit() keeps the memory that it still runs on, wait() frees it.
Exit(p) ==
  /\ state[p] = "RUNNABLE" /\ p # 1
  /\ state' = [state EXCEPT ![p] = "ZOMBIE"]
  /\ UNCHANGED <<free, kstack, sz, as, panicked, stray>>

Wait(p) ==
  LET m == freevm(kfree(Machine(free, 0, as[p]), 1)) IN
  /\ state[p] = "ZOMBIE"
  /\ free' = m.free
  /\ as' = [as EXCEPT ![p] = NoSpace]
  /\ kstack' = [kstack EXCEPT ![p] = 0]
  /\ state' = [state EXCEPT ![p] = "UNUSED"]
  /\ UNCHANGED <<sz, panicked, stray>>

Next ==
  /\ ~panicked /\ ~stray
  /\ \E p \in Slot : Sbrk(p) \/ Fork(p) \/ Exec(p) \/ Exit(p) \/ Wait(p)

Spec == Init /\ [][Next]_vars

-----------------------------------------------------------------------------
(* Properties *)

Used(p) == kstack[p] + as[p].dir + as[p].kern + Cardinality(as[p].tab)
         + Cardinality({v \in Vpn : as[p].pte[v] # "none"})

\* Every page is free or in exactly one place, however the call ended, the pages
\* of the kernel's own address space included: no path
\* of fork(), exec(), sbrk() and wait() on which memory runs out, after a page
\* or after half of the page tables, loses a page or frees one twice.
PagesAccounted ==
  ~panicked /\ ~stray =>
    free + 1 + KernelTables + MapThenSumSet(Used, Slot) = NPages

Mapped(p, a, n) ==
  \A v \in a \div PGSIZE .. (a + n - 1) \div PGSIZE : as[p].pte[v] # "none"

\* The pages of a process are those below its sz, in page tables that exist, so
\* that fork() finds each of them and whatever fetchint() and argptr() accept
\* can be read.  The exception is a process whose sbrk() gave back all of its
\* memory, and a panic needs one: to load a segment or to copy an address space
\* never causes it otherwise.  exec() succeeds only with all arguments in the
\* page of the stack, past neither the guard page nor the end of the address
\* space; and only a string longer than the device space has copyout() write
\* where uva2ka() found no page table.
UserMemory ==
  /\ ~stray => \A p \in Slot : state[p] = "RUNNABLE" => Emptied(p) \/
       /\ \A v \in Vpn : /\ as[p].pte[v] # "none" <=> v * PGSIZE < sz[p]
                         /\ as[p].pte[v] # "none" => PDX(v) \in as[p].tab
       /\ sz[p] <= KERNBASE
       /\ \A a \in 0 .. KERNBASE - 1 :
            /\ fetchint(p, a) => Mapped(p, a, WordSize)
            /\ \A n \in {-1, 0, 1, PGSIZE, KERNBASE, (WORD \div 2) - 1} :
                 argptr(p, a, n) => Mapped(p, a, n)
  /\ panicked => \E p \in Slot : Emptied(p) /\ state[p] = "RUNNABLE"
  /\ \A prog \in Program :
       LET x == exec(free, free, prog, "user") IN
       /\ x.m.ret # 0 => x.sp \in x.sz - PGSIZE .. x.sz
       /\ x.m.stray => \E i \in DOMAIN prog.args : prog.args[i] > WORD - DEVSPACE
=============================================================================
