------------------------------ MODULE MCFiles ------------------------------
(***************************************************************************)
(* Three machines side by side: system calls of two processes on a small   *)
(* tree, writes to one file, and mkfs.  A behaviour is of one of them.     *)
(***************************************************************************)
EXTENDS Files

CONSTANTS BSIZE, NDIRECT, NBlocks, BPB, MAXOPBLOCKS, WORD

Rel(s) == [abs |-> FALSE, elems |-> s]
Abs(s) == [abs |-> TRUE, elems |-> s]
Do(op, path) == [op |-> op, path |-> path]
Ln(old, new) == [op |-> "link", old |-> old, path |-> new]

MCCall == {
  Do("mkdir", Abs(<<"a">>)), Do("create", Rel(<<"b">>)),
  Do("unlink", Abs(<<"a">>)), Do("unlink", Rel(<<"b">>)),
  Do("unlink", Rel(<<".">>)),
  Ln(Abs(<<"b">>), Abs(<<"a", "b">>)), Ln(Rel(<<"a">>), Rel(<<"b">>)),
  Do("chdir", Rel(<<"a">>)), Do("chdir", Rel(<<"b", "a">>)), Do("chdir", Rel(<<"b">>)),
  Do("openw", Rel(<<"..">>)), Do("openw", Rel(<<"b">>)), [op |-> "close"]}

VARIABLES machine, inode, off, todo, bytes, fits, image, made

D == INSTANCE FileData

fileOff  == inode = None /\ off = None /\ todo = None /\ bytes = None /\ fits = None
imageOff == image = None /\ made = None

MCInit ==
  /\ Init
  /\ \/ machine = "calls" /\ fileOff /\ imageOff
     \/ machine = "data" /\ D!DataInit /\ imageOff
     \/ machine = "mkfs" /\ D!MkfsInit /\ fileOff
MCNext ==
  /\ UNCHANGED machine
  /\ \/ machine = "calls" /\ Next /\ UNCHANGED <<inode, off, todo, bytes, fits, image, made>>
     \/ machine = "data" /\ D!DataNext /\ UNCHANGED <<vars, image, made>>
     \/ machine = "mkfs" /\ D!MkfsNext /\ UNCHANGED <<vars, inode, off, todo, bytes, fits>>
MCSpec == MCInit /\ [][MCNext]_<<machine, vars, inode, off, todo, bytes, fits, image, made>>

\* A file is a sequence of bytes, written in transactions that fit into the
\* log: see FileData.
FileBytes == machine = "data" => D!FileBytes

\* The kernel finds in an image what mkfs has put there: see FileData.
MkfsMounts == machine = "mkfs" => D!MkfsMounts

Symmetry == Permutations(Proc)
=============================================================================
