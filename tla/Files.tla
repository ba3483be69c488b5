------------------------------- MODULE Files -------------------------------
(***************************************************************************)
(* Inodes, directories and path names (fs.c) and the system calls that     *)
(* change them: open(), mkdir(), mknod(), link(), unlink(), chdir()        *)
(* (sysfile.c) and close() (file.c).                                       *)
(*                                                                         *)
(* A process's call stack is its record k[p]: the label it is at, and the  *)
(* inodes its local variables refer to.  One step is what happens under    *)
(* one acquisition of icache.lock or of the sleeplock of an inode; where   *)
(* the code keeps an inode locked over several steps, lock[i] says so.     *)
(*                                                                         *)
(* The cache is write-through: every change of a cached inode is followed  *)
(* by iupdate() under the same lock.  So an inode has one type, nlink and  *)
(* content, on disk and in the cache, and its cache entry is ref and       *)
(* valid.  A directory is a function from names to inode numbers; its      *)
(* blocks are in module FileData.  begin_op() and end_op() are in module   *)
(* Log: a call is one transaction.                                         *)
(***************************************************************************)
EXTENDS Naturals, Sequences, FiniteSets, FiniteSetsExt, TLC

CONSTANTS
  Proc,
  Name,      \* names of files, "." and ".." apart
  NInodes,   \* inodes on disk: sb.ninodes - 1
  NINODE,    \* entries of the inode cache
  Call,      \* the system calls made, with their arguments
  MaxLink,   \* bound: link() is not called when a file has that many links
  None

Inum    == 1 .. NInodes
ROOTINO == 1
Entry   == Name \cup {".", ".."}

\* A path: where it starts, and its elements.
Path == [abs : BOOLEAN, elems : Seq(Entry)]
WithPath == {"open", "openw", "create", "mkdir", "mknod", "unlink", "chdir"}
ASSUME CallAssumption ==
  \A c \in Call : \/ c.op \in WithPath /\ c.path \in Path
                  \/ c.op = "link" /\ c.old \in Path /\ c.path \in Path
                  \/ c.op = "close"

VARIABLES
  type, nlink,   \* of each inode; type 0 is a free inode
  dir,           \* content of a directory
  ref, valid,    \* the cache entry of an inode
  lock,          \* who keeps ip->lock
  cwd,
  ofile,         \* the inode a process has open (it may open one), or 0
  k,             \* what a process is doing in the kernel
  panicked,
  stray          \* a name has been put into a removed directory

disk  == <<type, nlink, dir>>
cache == <<ref, valid>>
vars  == <<disk, cache, lock, cwd, ofile, k, panicked, stray>>

NoEntries == [n \in Entry |-> 0]
User == [pc |-> "user", op |-> "", to |-> None, rest |-> <<>>, cur |-> 0,
         ip |-> 0, dp |-> 0, put |-> 0, ret |-> "", new |-> 0]

\* mkfs makes a root directory that is its own parent; the processes start
\* there.
Init ==
  /\ type = [i \in Inum |-> IF i = ROOTINO THEN "dir" ELSE "free"]
  /\ nlink = [i \in Inum |-> IF i = ROOTINO THEN 1 ELSE 0]
  /\ dir = [i \in Inum |-> IF i = ROOTINO
                           THEN [NoEntries EXCEPT !["."] = 1, ![".."] = 1]
                           ELSE NoEntries]
  /\ ref = [i \in Inum |-> IF i = ROOTINO THEN Cardinality(Proc) ELSE 0]
  /\ valid = [i \in Inum |-> i = ROOTINO]
  /\ lock = [i \in Inum |-> None]
  /\ cwd = [p \in Proc |-> ROOTINO]
  /\ ofile = [p \in Proc |-> 0]
  /\ k = [p \in Proc |-> User]
  /\ panicked = FALSE
  /\ stray = FALSE

-----------------------------------------------------------------------------
(* The pieces of a step. *)

At(p, l) == k[p].pc = l /\ ~panicked
Op(p) == k[p].op
Go(p, r) == k' = [k EXCEPT ![p] = r @@ @]
Done(p) == k' = [k EXCEPT ![p] = User]

\* iput(i), and then go to l.
Put(i, l) == [pc |-> "iput", put |-> i, ret |-> l]

\* iget(i): a free entry of the cache is taken over, and holds nothing yet.
NoEntry(i) == ref[i] = 0 /\ Cardinality({j \in Inum : ref[j] > 0}) >= NINODE
IGet(i) == ref' = [ref EXCEPT ![i] = @ + 1]
Validity(v, i) == [v EXCEPT ![i] = @ /\ ref[i] > 0]

\* ilock(i): wait for the lock; read the inode if the entry does not hold it.
NoType(i) == ~valid[i] /\ type[i] = "free"
ILock(i) == lock[i] = None
Loaded(i) == [valid EXCEPT ![i] = TRUE]

Lookup(p) == dir[k[p].cur][Head(k[p].rest)]
Parent(p) == Op(p) \in {"create", "mkdir", "mknod", "unlink"} \/ k[p].ip # 0
NewType(p) == CASE Op(p) = "mkdir" -> "dir" [] Op(p) = "mknod" -> "dev"
                [] OTHER -> "file"

\* Where the look-up of a path starts.
Start(p, path) == IF path.abs THEN ROOTINO ELSE cwd[p]

\* iput(i) is the last thing the call does.
Leave(p, i) == k' = [k EXCEPT ![p] = Put(i, "done") @@ User]

\* A look-up fails, and puts the directory it was at.  link() then has a link
\* to take back.
Fail(p, i) == IF k[p].ip # 0 THEN Go(p, [cur |-> 0] @@ Put(i, "bad"))
                             ELSE Leave(p, i)

-----------------------------------------------------------------------------
(* namex() *)

\* A call enters the kernel, and gets the inode its path starts from.
Enter(p) ==
  /\ At(p, "user")
  /\ \E c \in {x \in Call : x.op # "close"} :
       LET path == IF c.op = "link" THEN c.old ELSE c.path IN
       /\ c.op = "link" => \A i \in Inum : type[i] = "file" => nlink[i] < MaxLink
       /\ Go(p, [pc |-> "namex", op |-> c.op, rest |-> path.elems,
                 to |-> IF c.op = "link" THEN c.path ELSE None,
                 cur |-> Start(p, path)])
       /\ IGet(Start(p, path))
       /\ valid' = Validity(valid, Start(p, path))
       /\ panicked' = NoEntry(Start(p, path))
  /\ UNCHANGED <<disk, lock, cwd, ofile, stray>>

\* No element is left: namei() has its inode, nameiparent() has no name.
NamexEnd(p) ==
  /\ At(p, "namex") /\ k[p].rest = <<>>
  /\ IF Parent(p) THEN Fail(p, k[p].cur) ELSE Go(p, [pc |-> "found"])
  /\ UNCHANGED <<disk, cache, lock, cwd, ofile, panicked, stray>>

\* One element: lock the directory, look the name up, unlock and put it.
\* nameiparent() stops one element early.
Namex(p) ==
  LET i == k[p].cur  next == Lookup(p) IN
  /\ At(p, "namex") /\ k[p].rest # <<>> /\ ILock(i)
  /\ CASE type[i] # "dir" ->
            /\ Fail(p, i)
            /\ valid' = Loaded(i) /\ panicked' = NoType(i)
            /\ UNCHANGED ref
       [] type[i] = "dir" /\ Parent(p) /\ Len(k[p].rest) = 1 ->
            /\ Go(p, [pc |-> "found"])
            /\ valid' = Loaded(i)
            /\ UNCHANGED <<ref, panicked>>
       [] type[i] = "dir" /\ ~(Parent(p) /\ Len(k[p].rest) = 1) /\ next = 0 ->
            /\ Fail(p, i)
            /\ valid' = Loaded(i)
            /\ UNCHANGED <<ref, panicked>>
       [] OTHER ->
            /\ Go(p, [cur |-> next, rest |-> Tail(k[p].rest)] @@ Put(i, "namex"))
            /\ IGet(next)
            /\ valid' = Validity(Loaded(i), next)
            /\ panicked' = NoEntry(next)
  /\ UNCHANGED <<disk, lock, cwd, ofile, stray>>

-----------------------------------------------------------------------------
(* iput() *)

\* Lock the inode; if it has no links, see whether this is the last reference.
IPut(p) ==
  LET i == k[p].put IN
  /\ At(p, "iput") /\ ILock(i)
  /\ IF valid[i] /\ nlink[i] = 0 /\ ref[i] = 1
     THEN lock' = [lock EXCEPT ![i] = p] /\ Go(p, [pc |-> "ifree"])
     ELSE Go(p, [pc |-> "deref"]) /\ UNCHANGED lock
  /\ UNCHANGED <<disk, cache, cwd, ofile, panicked, stray>>

\* itrunc(), and the inode is free.
IFree(p) ==
  LET i == k[p].put IN
  /\ At(p, "ifree")
  /\ type' = [type EXCEPT ![i] = "free"]
  /\ dir' = [dir EXCEPT ![i] = NoEntries]
  /\ valid' = [valid EXCEPT ![i] = FALSE]
  /\ lock' = [lock EXCEPT ![i] = None]
  /\ Go(p, [pc |-> "deref"])
  /\ UNCHANGED <<nlink, ref, cwd, ofile, panicked, stray>>

\* Drop the reference; go on to where the code that called iput() goes.
Deref(p) ==
  /\ At(p, "deref")
  /\ ref' = [ref EXCEPT ![k[p].put] = @ - 1]
  /\ CASE k[p].ret = "done" -> Done(p)
       [] k[p].ret = "putip" -> Leave(p, k[p].ip)
       [] OTHER -> Go(p, [pc |-> k[p].ret, put |-> 0, ret |-> ""])
  /\ UNCHANGED <<disk, valid, lock, cwd, ofile, panicked, stray>>

-----------------------------------------------------------------------------
(* create(), and what open(), mkdir() and mknod() do with its inode *)

\* Lock the directory.  If the name is there, take its inode and let go of the
\* directory; if not, ialloc() marks the first free inode as used.
Create(p) ==
  LET d == k[p].cur  i == Lookup(p)
      Free == {j \in Inum : type[j] = "free"}
      new == CHOOSE j \in Free : \A l \in Free : j <= l IN
  /\ At(p, "found") /\ Op(p) \in {"create", "mkdir", "mknod"} /\ ILock(d)
  /\ IF i # 0
     THEN /\ Go(p, [cur |-> 0, ip |-> i] @@ Put(d, "exists"))
          /\ IGet(i)
          /\ valid' = Validity(Loaded(d), i)
          /\ panicked' = NoEntry(i)
          /\ UNCHANGED <<disk, lock>>
     ELSE /\ panicked' = (Free = {})
          /\ Free # {} =>
               /\ type' = [type EXCEPT ![new] = NewType(p)]
               /\ nlink' = [nlink EXCEPT ![new] = 0]
               /\ lock' = [lock EXCEPT ![d] = p]
               /\ Go(p, [pc |-> "ialloc", cur |-> 0, dp |-> d, new |-> new])
          /\ Free = {} => UNCHANGED <<type, nlink, lock, k>>
          /\ valid' = Loaded(d)
          /\ UNCHANGED <<dir, ref>>
  /\ UNCHANGED <<cwd, ofile, stray>>

\* ialloc() returns iget() of the new inode.
CreateGet(p) ==
  LET i == k[p].new IN
  /\ At(p, "ialloc")
  /\ Go(p, [pc |-> "new", ip |-> i, new |-> 0])
  /\ IGet(i)
  /\ valid' = Validity(valid, i)
  /\ panicked' = NoEntry(i)
  /\ UNCHANGED <<disk, lock, cwd, ofile, stray>>

\* Lock the new inode, give it its link and a directory its dots, enter it,
\* and put the directory.  The inode stays locked.
CreateLink(p) ==
  LET i == k[p].ip  d == k[p].dp  IsDir == Op(p) = "mkdir" IN
  /\ At(p, "new") /\ ILock(i)
  /\ nlink' = [nlink EXCEPT ![i] = 1, ![d] = IF IsDir THEN @ + 1 ELSE @]
  /\ dir' = [dir EXCEPT
       ![i] = IF IsDir THEN [@ EXCEPT !["."] = i, ![".."] = d] ELSE @,
       ![d][Head(k[p].rest)] = i]
  /\ lock' = [lock EXCEPT ![i] = p, ![d] = None]
  /\ valid' = Loaded(i)
  /\ panicked' = NoType(i)
  /\ stray' = (stray \/ nlink[d] = 0)
  /\ Go(p, [dp |-> 0] @@ Put(d, "created"))
  /\ UNCHANGED <<type, ref, cwd, ofile>>

\* open() gives a locked inode a descriptor, if there is one to give; mkdir()
\* and mknod() put it.
Finish(p, i) ==
  IF Op(p) \in {"open", "openw", "create"} /\ ofile[p] = 0
  THEN ofile' = [ofile EXCEPT ![p] = i] /\ Done(p)
  ELSE Leave(p, i) /\ UNCHANGED ofile

Created(p) ==
  LET i == k[p].ip IN
  /\ At(p, "created")
  /\ lock' = [lock EXCEPT ![i] = None]
  /\ Finish(p, i)
  /\ UNCHANGED <<disk, cache, cwd, panicked, stray>>

\* The name exists: only open() of a plain file goes on with it.
Exists(p) ==
  LET i == k[p].ip IN
  /\ At(p, "exists") /\ ILock(i)
  /\ IF Op(p) = "create" /\ type[i] = "file"
     THEN Finish(p, i)
     ELSE Leave(p, i) /\ UNCHANGED ofile
  /\ valid' = Loaded(i)
  /\ panicked' = NoType(i)
  /\ UNCHANGED <<disk, ref, lock, cwd, stray>>

\* open() without O_CREATE: a directory may only be read.
Open(p) ==
  LET i == k[p].cur IN
  /\ At(p, "found") /\ Op(p) \in {"open", "openw"} /\ ILock(i)
  /\ IF type[i] = "dir" /\ Op(p) = "openw"
     THEN Leave(p, i) /\ UNCHANGED ofile
     ELSE Finish(p, i)
  /\ valid' = Loaded(i)
  /\ panicked' = NoType(i)
  /\ UNCHANGED <<disk, ref, lock, cwd, stray>>

\* fileclose() of the last descriptor of the file.
Close(p) ==
  /\ At(p, "user") /\ ofile[p] # 0
  /\ \E c \in Call : c.op = "close" /\ Leave(p, ofile[p])
  /\ ofile' = [ofile EXCEPT ![p] = 0]
  /\ UNCHANGED <<disk, cache, lock, cwd, panicked, stray>>

-----------------------------------------------------------------------------
(* link(), unlink(), chdir() *)

\* Mutant: directories may have links, too.
BugLink(p) ==
  LET i == k[p].cur  path == k[p].to  s == Start(p, path) IN
  /\ At(p, "found") /\ Op(p) = "link" /\ k[p].ip = 0 /\ ILock(i)
  /\ nlink' = [nlink EXCEPT ![i] = @ + 1]
  /\ Go(p, [pc |-> "namex", to |-> None, rest |-> path.elems, cur |-> s, ip |-> i])
  /\ IGet(s)
  /\ valid' = Validity(Loaded(i), s)
  /\ UNCHANGED <<type, dir, lock, cwd, ofile, panicked, stray>>

\* Count the new link of a file that is not a directory, and look up the
\* directory it is to be in.
Link(p) ==
  LET i == k[p].cur  path == k[p].to  s == Start(p, path) IN
  /\ At(p, "found") /\ Op(p) = "link" /\ k[p].ip = 0 /\ ILock(i)
  /\ IF type[i] = "dir"
     THEN /\ Leave(p, i)
          /\ valid' = Loaded(i) /\ panicked' = NoType(i)
          /\ UNCHANGED <<nlink, ref>>
     ELSE /\ nlink' = [nlink EXCEPT ![i] = @ + 1]
          /\ Go(p, [pc |-> "namex", to |-> None, rest |-> path.elems,
                    cur |-> s, ip |-> i])
          /\ IGet(s)
          /\ valid' = Validity(Loaded(i), s)
          /\ panicked' = (NoType(i) \/ NoEntry(s))
  /\ UNCHANGED <<type, dir, lock, cwd, ofile, stray>>

\* dirlink(): if the name is taken, its inode is put with the directory locked.
LinkDir(p) ==
  LET d == k[p].cur  i == Lookup(p) IN
  /\ At(p, "found") /\ Op(p) = "link" /\ k[p].ip # 0 /\ ILock(d)
  /\ IF i # 0
     THEN /\ Go(p, [cur |-> 0, dp |-> d] @@ Put(i, "taken"))
          /\ lock' = [lock EXCEPT ![d] = p]
          /\ IGet(i)
          /\ valid' = Validity(Loaded(d), i)
          /\ panicked' = NoEntry(i)
          /\ UNCHANGED <<dir, stray>>
     ELSE /\ dir' = [dir EXCEPT ![d][Head(k[p].rest)] = k[p].ip]
          /\ Go(p, [cur |-> 0] @@ Put(d, "putip"))
          /\ valid' = Loaded(d)
          /\ stray' = (stray \/ nlink[d] = 0)
          /\ UNCHANGED <<ref, lock, panicked>>
  /\ UNCHANGED <<type, nlink, cwd, ofile>>

\* Mutant: iunlock() in place of iunlockput().
BugLinkTaken(p) ==
  /\ At(p, "taken")
  /\ lock' = [lock EXCEPT ![k[p].dp] = None]
  /\ Go(p, [pc |-> "bad", dp |-> 0])
  /\ UNCHANGED <<disk, cache, cwd, ofile, panicked, stray>>

LinkTaken(p) ==
  /\ At(p, "taken")
  /\ lock' = [lock EXCEPT ![k[p].dp] = None]
  /\ Go(p, [dp |-> 0] @@ Put(k[p].dp, "bad"))
  /\ UNCHANGED <<disk, cache, cwd, ofile, panicked, stray>>

\* Mutant: the link is not taken back.
BugLinkBad(p) ==
  /\ At(p, "bad") /\ ILock(k[p].ip)
  /\ Leave(p, k[p].ip)
  /\ UNCHANGED <<disk, cache, lock, cwd, ofile, panicked, stray>>

\* Take the link back.
LinkBad(p) ==
  LET i == k[p].ip IN
  /\ At(p, "bad") /\ ILock(i)
  /\ nlink' = [nlink EXCEPT ![i] = @ - 1]
  /\ Leave(p, i)
  /\ UNCHANGED <<type, dir, cache, lock, cwd, ofile, panicked, stray>>

\* Mutant: the dots may be unlinked.
BugUnlink(p) ==
  LET d == k[p].cur  i == Lookup(p) IN
  /\ At(p, "found") /\ Op(p) = "unlink" /\ ILock(d) /\ i # 0
  /\ lock' = [lock EXCEPT ![d] = p]
  /\ Go(p, [pc |-> "unlink", cur |-> 0, dp |-> d, ip |-> i])
  /\ IGet(i)
  /\ valid' = Validity(Loaded(d), i)
  /\ UNCHANGED <<disk, cwd, ofile, panicked, stray>>

\* Lock the directory and find the name in it, which may not be a dot.
Unlink(p) ==
  LET d == k[p].cur  i == Lookup(p) IN
  /\ At(p, "found") /\ Op(p) = "unlink" /\ ILock(d)
  /\ IF Head(k[p].rest) \in {".", ".."} \/ i = 0
     THEN /\ Leave(p, d)
          /\ valid' = Loaded(d)
          /\ UNCHANGED <<ref, lock, panicked>>
     ELSE /\ lock' = [lock EXCEPT ![d] = p]
          /\ Go(p, [pc |-> "unlink", cur |-> 0, dp |-> d, ip |-> i])
          /\ IGet(i)
          /\ valid' = Validity(Loaded(d), i)
          /\ panicked' = NoEntry(i)
  /\ UNCHANGED <<disk, cwd, ofile, stray>>

\* isdirempty()
IsDirEmpty(i) == \A n \in Name : dir[i][n] = 0

\* Lock the inode as well; erase the name, unless it is that of a directory
\* with something in it; put the directory.  The inode stays locked.
UnlinkErase(p) ==
  LET i == k[p].ip  d == k[p].dp IN
  /\ At(p, "unlink") /\ ILock(i)
  /\ IF type[i] = "dir" /\ ~IsDirEmpty(i)
     THEN Go(p, [ip |-> 0] @@ Put(i, "notempty")) /\ UNCHANGED <<dir, nlink, lock>>
     ELSE /\ dir' = [dir EXCEPT ![d][Head(k[p].rest)] = 0]
          /\ nlink' = [nlink EXCEPT ![d] = IF type[i] = "dir" THEN @ - 1 ELSE @]
          /\ lock' = [lock EXCEPT ![d] = None, ![i] = p]
          /\ Go(p, [dp |-> 0] @@ Put(d, "unlinked"))
  /\ valid' = Loaded(i)
  /\ panicked' = (NoType(i) \/ nlink[i] < 1)
  /\ UNCHANGED <<type, ref, cwd, ofile, stray>>

UnlinkNotEmpty(p) ==
  /\ At(p, "notempty")
  /\ lock' = [lock EXCEPT ![k[p].dp] = None]
  /\ Leave(p, k[p].dp)
  /\ UNCHANGED <<disk, cache, cwd, ofile, panicked, stray>>

Unlinked(p) ==
  LET i == k[p].ip IN
  /\ At(p, "unlinked")
  /\ nlink' = [nlink EXCEPT ![i] = @ - 1]
  /\ lock' = [lock EXCEPT ![i] = None]
  /\ Leave(p, i)
  /\ UNCHANGED <<type, dir, cache, cwd, ofile, panicked, stray>>

\* chdir() puts the old directory before it has the new one.
Chdir(p) ==
  LET i == k[p].cur IN
  /\ At(p, "found") /\ Op(p) = "chdir" /\ ILock(i)
  /\ IF type[i] # "dir"
     THEN Leave(p, i) /\ UNCHANGED cwd
     ELSE /\ Go(p, [cur |-> 0, ip |-> i] @@ Put(cwd[p], "chdir"))
          /\ cwd' = [cwd EXCEPT ![p] = 0]
  /\ valid' = Loaded(i)
  /\ panicked' = NoType(i)
  /\ UNCHANGED <<disk, ref, lock, ofile, stray>>

ChdirEnd(p) ==
  /\ At(p, "chdir")
  /\ cwd' = [cwd EXCEPT ![p] = k[p].ip]
  /\ Done(p)
  /\ UNCHANGED <<disk, cache, lock, ofile, panicked, stray>>

Next == \E p \in Proc :
  \/ Enter(p) \/ NamexEnd(p) \/ Namex(p)
  \/ IPut(p) \/ IFree(p) \/ Deref(p)
  \/ Create(p) \/ CreateGet(p) \/ CreateLink(p) \/ Created(p) \/ Exists(p)
  \/ Open(p) \/ Close(p)
  \/ Link(p) \/ LinkDir(p) \/ LinkTaken(p) \/ LinkBad(p)
  \/ Unlink(p) \/ UnlinkErase(p) \/ UnlinkNotEmpty(p) \/ Unlinked(p)
  \/ Chdir(p) \/ ChdirEnd(p)

Spec == Init /\ [][Next]_vars

-----------------------------------------------------------------------------
(* Properties *)

TypeOK ==
  /\ type \in [Inum -> {"free", "dir", "file", "dev"}]
  /\ nlink \in [Inum -> Nat] /\ ref \in [Inum -> Nat]
  /\ valid \in [Inum -> BOOLEAN]
  /\ lock \in [Inum -> Proc \cup {None}]
  /\ dir \in [Inum -> [Entry -> Inum \cup {0}]]
  /\ cwd \in [Proc -> Inum \cup {0}] /\ ofile \in [Proc -> Inum \cup {0}]
  /\ \A p \in Proc : DOMAIN k[p] = DOMAIN User

\* ref counts the pointers to an inode: current directories, open files and
\* the local variables of calls in progress, on every path through namex(),
\* create(), link(), unlink() and chdir(), the failing ones included.  No
\* inode with a reference is free, but for one that iput() is just freeing.
Held(p, i) == Cardinality({r \in {"cur", "ip", "dp", "put"} : k[p][r] = i})
            + (IF cwd[p] = i THEN 1 ELSE 0) + (IF ofile[p] = i THEN 1 ELSE 0)
RefsCounted ==
  ~panicked =>
    /\ TypeOK
    /\ \A i \in Inum : ref[i] = MapThenSumSet(LAMBDA p : Held(p, i), Proc)
    /\ \A p \in Proc, i \in Inum : type[i] = "free" =>
         i \notin {cwd[p], ofile[p], k[p].ip, k[p].dp}

\* The names that refer to an inode: entries of directories, and the ".." of
\* the directories that have a name themselves (the root is its own parent).
Dirs == {d \in Inum : type[d] = "dir"}
Named(i) == \E d \in Dirs, n \in Name : dir[d][n] = i
Links(i) == Cardinality({e \in Dirs \X Name : dir[e[1]][e[2]] = i})
          + Cardinality({d \in Dirs : dir[d][".."] = i /\ (d = ROOTINO \/ Named(d))})
Label(p) == IF k[p].pc \in {"iput", "ifree", "deref"} THEN k[p].ret ELSE k[p].pc
Pending(p, i) ==
  IF k[p].ip = i /\ \/ Op(p) = "link" /\ Label(p) # "putip"
                    \/ Label(p) = "unlinked"
  THEN 1 ELSE 0

\* nlink is the number of names of an inode, and of the names link() is about
\* to make and unlink() has just erased.  So a name never outlives its inode:
\* no directory refers to a free inode.  Only a name made in a directory that
\* was removed meanwhile is lost with it, and its inode stays allocated.
LinksCounted ==
  ~panicked => \A i \in Inum :
    LET n == Links(i) + MapThenSumSet(LAMBDA p : Pending(p, i), Proc) IN
    nlink[i] >= n /\ (~stray => nlink[i] = n)

\* The directories are a tree: one that has a name has it in one directory
\* only, which is its "..", and so it does in the middle of a call.
Tree ==
  ~panicked => \A d \in Dirs, n \in Name : dir[d][n] \in Dirs =>
    LET c == dir[d][n] IN
    /\ dir[c]["."] = c /\ dir[c][".."] = d
    /\ \A e \in Dirs, m \in Name : dir[e][m] = c => e = d /\ m = n

\* iput() leaves nothing behind: when no call is in progress, an inode with no
\* links and no references is free, and nobody keeps a lock.
NothingLeft ==
  (\A p \in Proc : k[p].pc = "user") => \A i \in Inum :
    /\ lock[i] = None
    /\ type[i] # "free" => nlink[i] > 0 \/ ref[i] > 0

\* The inode a process is waiting to lock.
Wants(p) ==
  CASE k[p].pc = "iput" -> k[p].put
    [] k[p].pc = "found" \/ (k[p].pc = "namex" /\ k[p].rest # <<>>) -> k[p].cur
    [] k[p].pc \in {"new", "exists", "bad", "unlink"} -> k[p].ip
    [] OTHER -> 0

\* A cycle of processes that wait for each other, or of one that waits for
\* itself, always goes through iput(), which locks an inode without regard to
\* what its caller has locked.  The locks that ilock() takes are in order, from
\* a directory to what is in it.
Cycle(S) == S # {} /\ \A p \in S : Wants(p) # 0 /\ lock[Wants(p)] \in S
LocksOrdered ==
  \A S \in SUBSET Proc : Cycle(S) => \E p \in S : k[p].pc = "iput"

\* Nobody waits in a cycle: the concurrent link(), unlink() and create() calls
\* that usertests.c makes "to look for deadlocks" do not deadlock.
NoDeadlock == \A S \in SUBSET Proc : ~Cycle(S)
=============================================================================
