------------------------------- MODULE RamFs -------------------------------
(***************************************************************************)
(* The file system in memory: src/fs/ramfs.c, and the path walk of         *)
(* src/fs/file.c.  Operators on `fs', the inodes by address; Files.tla has *)
(* the calls that use them.                                                *)
(*                                                                         *)
(* A byte is the position it was written for.  Addresses of inodes are not *)
(* used again: an access through a pointer to a freed inode is undefined,  *)
(* whatever lies there by then.                                            *)
(***************************************************************************)
EXTENDS Integers, SequencesExt

CONSTANTS
  MaxInode,   \* bound of the model: inodes ever allocated
  MaxSize     \* bound of the model: no file grows beyond it

ASSUME RamFsAssumption == {MaxInode, MaxSize} \subseteq Nat \ {0}

Inodes == 1 .. MaxInode
Root == 1
Null == 0
NotFound == -1      \* a path that does not lead to a directory
Fault == -2         \* the walk read through a null or freed pointer
Nothing == -1       \* a byte that was never written

Positions == 0 .. MaxSize - 1
Fresh == [kind |-> "unborn", parent |-> Null, size |-> 0,
          bytes |-> [k \in Positions |-> Nothing], entries |-> <<>>]
IsDir(fs, i) == fs[i].kind = "dir"
Gone(fs, i) == i \in Inodes /\ fs[i].kind = "freed"
Unborn(fs) == {i \in Inodes : fs[i].kind = "unborn"}

\* The mount, which leaves the root without a parent.
ramfs_mount == [i \in Inodes |-> IF i = Root THEN [Fresh EXCEPT !.kind = "dir"]
                                 ELSE Fresh]

\* The inode of the first entry called `name'.
ramfs_lookup(fs, dir, name) ==
  LET found == {k \in DOMAIN fs[dir].entries : fs[dir].entries[k].name = name}
      i == fs[dir].entries[Min(found)].inode
  IN  IF found = {} THEN Null ELSE IF Gone(fs, i) THEN Fault ELSE i

\* Mutant: a new directory does not learn its parent.
ramfs_create_file_orphan(fs, dir, name, kind) ==
  LET new == Min(Unborn(fs))
  IN  [fs EXCEPT ![new] = [Fresh EXCEPT !.kind = kind],
                 ![dir].entries = Append(@, [name |-> name, inode |-> new])]

\* A new inode, and its entry behind the last one of the directory.
ramfs_create_file(fs, dir, name, kind) ==
  LET new == Min(Unborn(fs))
  IN  [fs EXCEPT ![new] = [Fresh EXCEPT !.kind = kind, !.parent = dir],
                 ![dir].entries = Append(@, [name |-> name, inode |-> new])]

\* The inode is freed, and the directory made one entry shorter: the entry
\* that goes is the last one, whichever file it is.
ramfs_unlink(fs, dir, i) ==
  [fs EXCEPT ![i] = [Fresh EXCEPT !.kind = "freed"], ![dir].entries = Front(@)]

\* The size grows by what is written, wherever it is written.
ramfs_write(fs, i, bytes, offset) ==
  [fs EXCEPT
     ![i].size = @ + Len(bytes),
     ![i].bytes = [k \in Positions |->
                     IF k - offset \in 0 .. Len(bytes) - 1
                     THEN bytes[k - offset + 1] ELSE @[k]]]

ramfs_read(fs, i, count, offset) ==
  LET last == Min({offset + count, fs[i].size, MaxSize})
  IN  [k \in 1 .. Max({last - offset, 0}) |-> fs[i].bytes[offset + k - 1]]

\* One component of a path.  At the root, ".." leads to a null pointer.
Descend(fs, at, name) ==
  IF at = NotFound THEN NotFound
  ELSE IF at \in {Null, Fault} \/ Gone(fs, at) THEN Fault
  ELSE IF name = ".." THEN fs[at].parent
  ELSE LET i == ramfs_lookup(fs, at, name)
       IN  IF i = Fault THEN Fault
           ELSE IF i = Null \/ ~IsDir(fs, i) THEN NotFound ELSE i

\* Where the walk is after each component, from the root or from the working
\* directory.
Walk(fs, pwd, path) ==
  LET at[k \in 0 .. Len(path.dirs)] ==
        IF k = 0 THEN IF path.absolute THEN Root ELSE pwd
        ELSE Descend(fs, at[k - 1], path.dirs[k])
  IN  at

\* The directory a path leads to.
get_parent_directory(fs, pwd, path) == Walk(fs, pwd, path)[Len(path.dirs)]

\* The file called `name' there; ".." also when there is no such directory.
get_file(fs, pwd, parent, name) ==
  IF parent = Fault \/ Gone(fs, parent) THEN Fault
  ELSE IF name = ".."
       THEN IF parent \notin {NotFound, Null} THEN fs[parent].parent
            ELSE IF Gone(fs, pwd) THEN Fault ELSE fs[pwd].parent
  ELSE IF parent \in {NotFound, Null} THEN Null
  ELSE ramfs_lookup(fs, parent, name)
=============================================================================
