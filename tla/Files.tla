------------------------------- MODULE Files -------------------------------
(***************************************************************************)
(* Descriptors, open files and pipes: src/fs/file.c on the file system in  *)
(* memory (RamFs.tla), the pipes of src/kernel/proc.c, and what spawn,     *)
(* exit and wait do with them.                                             *)
(*                                                                         *)
(* A call is atomic but for a read of a pipe, which gives the processor    *)
(* away until something was written.  A child shares the File objects of   *)
(* its parent, by pointer.  When one is freed, every pointer to it that is *)
(* left is marked Stale; `damage' records the first access through a stale *)
(* or null pointer, past which nothing is said.  `Rules' are what programs *)
(* refrain from; the README says which property needs which rule.  Not     *)
(* modelled: allocation failure, writes to a directory, and writes to the  *)
(* reading end of a pipe or the reverse.                                   *)
(***************************************************************************)
EXTENDS RamFs, FiniteSets

CONSTANTS
  MAX_OPEN_FILE_DESCRIPTORS,
  Paths,      \* the paths programs use
  Names,      \* the names in them
  Shells,     \* the processes that change their working directory
  Rules,      \* what programs keep to
  MaxPid,     \* bound of the model: processes ever made
  MaxPipe,    \* bound of the model: pipes ever made
  MaxTransfer, \* bound of the model: bytes of a read or a write, entries listed
  MaxSent     \* bound of the model: bytes written to one pipe

AllRules == {"close the highest",    \* descriptors are closed last opened first
             "close what is open",   \* nothing else is closed
             "wait for sharers",     \* an owner outlives those it shares with
             "unlink the last",      \* only a directory's last file, closed
             "write at the end",     \* no overwriting, no gap
             "one pipe each",        \* a process makes no second pipe
             "one reader",           \* of a pipe at a time
             "read what is there",   \* no more, from a pipe read before
             "list once",            \* a directory is listed in one call
             "name what exists"}     \* directories on the way, none above the root

ASSUME FilesAssumption ==
  /\ MAX_OPEN_FILE_DESCRIPTORS \in Nat /\ MAX_OPEN_FILE_DESCRIPTORS >= 3
  /\ Paths \subseteq [absolute : BOOLEAN, dirs : Seq(Names), name : Names]
  /\ Rules \subseteq AllRules
  /\ {MaxPid, MaxPipe, MaxTransfer, MaxSent} \subseteq Nat \ {0}

Pids == 1 .. MaxPid
Pipes == 1 .. MaxPipe
Fds == 0 .. MAX_OPEN_FILE_DESCRIPTORS - 1
Stdio == 0 .. 2
FileIds == 0 .. 2 + MaxPid * (MAX_OPEN_FILE_DESCRIPTORS - 3)
None == -1          \* a null entry of a table
Stale == -2         \* a pointer to what was freed
EBADF == -9
Moved == MaxInode + MaxPipe + 1     \* where a pipe was before krealloc moved it
Lost == MaxInode + MaxPipe + 2      \* a pipe that was freed
PipeRef(k) == MaxInode + k          \* a File names its pipe after the inodes

VARIABLES
  fs,      \* the inodes
  proc,    \* [Pids -> state, parent, pwd, count, table, blocked]
  file,    \* [FileIds -> File object]
  pipe,    \* [Pipes -> Pipe_Inode; sent and taken count bytes, and are ghosts]
  correct, \* ghost: whether every read has returned what it should
  damage   \* "none", or the first undefined access

vars == <<fs, proc, file, pipe, correct, damage>>
Keeps(rule) == rule \in Rules

NoFile == [kind |-> "free", ref |-> Null, pos |-> 0, owner |-> 0]
NoPipe == [owner |-> 0, size |-> 0, write_offset |-> 0, sent |-> 0, taken |-> 0,
           bytes |-> [k \in 0 .. MaxSent - 1 |-> Nothing]]
NotBlocked == [fd |-> None, offset |-> 0, count |-> 0]
NoProcess == [state |-> "none", parent |-> 0, pwd |-> Root, count |-> 0,
              table |-> [d \in Fds |-> None], blocked |-> NotBlocked]
Alive(p) == proc[p].state \in {"running", "reading"}
Calls(p) == damage = "none" /\ proc[p].state = "running"
Entry(p, d) == proc[p].table[d]
FileOf(p, d) == file[Entry(p, d)]
Used(p) == {d \in Fds : Entry(p, d) # None}
Shared(p, f) == \E q \in Pids \ {p} : Alive(q) /\ \E d \in Fds : Entry(q, d) = f
IsEnd(f) == f.kind \in {"read end", "write end"}

\* kfree of File objects: the pointers that are left are stale.
Dangling(procs, freed) ==
  [q \in Pids |-> [procs[q] EXCEPT
     !.table = [d \in Fds |-> IF @[d] \in freed THEN Stale ELSE @[d]]]]
Freed(freed) == [f \in FileIds |-> IF f \in freed THEN NoFile ELSE file[f]]

Damaged(what) == damage' = what /\ UNCHANGED <<fs, proc, file, pipe, correct>>

\* What a call that uses a descriptor finds: the count of the open ones is
\* compared with the number of this one, and then the File is used.  A call that
\* is refused changes nothing and is no step of the model.
Refused(p, d) == d >= proc[p].count \/ Entry(p, d) = None
Lives(p, d) == /\ Entry(p, d) \in FileIds
               /\ FileOf(p, d).ref \notin {Moved, Lost} /\ ~Gone(fs, FileOf(p, d).ref)
Uses(p, d) == Calls(p) /\ ~Refused(p, d)
Is(p, d, kind) == FileOf(p, d).kind = kind

-----------------------------------------------------------------------------
(* Opening and closing.                                                    *)

NewFile(kind, ref, p) == [kind |-> kind, ref |-> ref, pos |-> 0, owner |-> p]

\* What kmalloc returns, a free address: the one named after the process and the
\* descriptor the File is for, which spares states that differ in names only.
Home(p, d) == d + (p - 1) * (MAX_OPEN_FILE_DESCRIPTORS - 3)
FreeFile(p, d) ==
  IF file[Home(p, d)].kind = "free" THEN Home(p, d)
  ELSE Min({f \in FileIds : file[f].kind = "free"})

\* A File in the first free entry, unless an entry names the inode already;
\* looking for one reads every File on the way.
get_file_descriptor(p, tree, i, flags) ==
  LET seen == {d \in Used(p) \ Stdio :
                 Entry(p, d) = Stale \/ FileOf(p, d).ref = i}
      d == IF seen = {} THEN Min(Fds \ Used(p)) ELSE Min(seen)
      f == IF seen = {} THEN FreeFile(p, d) ELSE Entry(p, d)
      object == IF seen = {} THEN NewFile(tree[i].kind, i, p) ELSE file[f]
      count == IF seen = {} THEN proc[p].count + 1 ELSE proc[p].count
  IN  IF seen # {} /\ f = Stale THEN Damaged("stale")
      ELSE /\ proc' = [proc EXCEPT ![p].table[d] = f, ![p].count = count]
           /\ file' = [file EXCEPT ![f] =
                IF flags = "append" /\ d < count
                THEN [object EXCEPT !.pos = tree[i].size] ELSE object]
           /\ fs' = IF flags = "trunc" THEN [tree EXCEPT ![i].size = 0] ELSE tree
           /\ UNCHANGED <<pipe, correct, damage>>

OnlyTree(tree) == fs' = tree /\ UNCHANGED <<proc, file, pipe, correct, damage>>

\* A call that fails changes nothing, but for the file it may have created.
sys_open(p, path, flags) ==
  LET parent == get_parent_directory(fs, proc[p].pwd, path)
      found == get_file(fs, proc[p].pwd, parent, path.name)
      creates == found = Null /\ flags \in {"creat", "mkdir"}
      tree == IF creates /\ parent \in Inodes
              THEN ramfs_create_file(fs, parent, path.name,
                                     IF flags = "mkdir" THEN "dir" ELSE "reg")
              ELSE fs
      i == IF creates THEN Min(Unborn(fs)) ELSE found
  IN  /\ Calls(p)
      /\ creates => Unborn(fs) # {} /\ path.name # ".."
      /\ Keeps("name what exists") => found # Fault /\ (creates => parent \in Inodes)
      /\ IF found = Fault THEN Damaged("stale")
         ELSE IF creates /\ parent \notin Inodes THEN Damaged("null")
         ELSE /\ i # Null
              /\ IsDir(tree, i) = (flags \in {"directory", "mkdir"})
              /\ IF proc[p].count >= MAX_OPEN_FILE_DESCRIPTORS
                 THEN creates /\ OnlyTree(tree)
                 ELSE get_file_descriptor(p, tree, i, flags)

\* Mutant: whoever closes a File frees it.
FreedByClose_any(p, d) == {Entry(p, d)}

\* Only the owner frees the File, the others just forget it.
FreedByClose(p, d) == IF FileOf(p, d).owner = p THEN {Entry(p, d)} ELSE {}

\* Mutant: the count is left to the owner.
Forgets_owner(p, d) ==
  [Dangling(proc, FreedByClose(p, d)) EXCEPT
     ![p].table[d] = None,
     ![p].count = IF FileOf(p, d).owner = p THEN @ - 1 ELSE @]

Forgets(p, d) ==
  [Dangling(proc, FreedByClose(p, d)) EXCEPT
     ![p].table[d] = None, ![p].count = @ - 1]

\* The descriptors 0 to 2 are not closed.
sys_close(p, d) ==
  /\ Calls(p) /\ d \notin Stdio
  /\ Keeps("close the highest") => d = Max(Used(p))
  /\ Keeps("close what is open") => Entry(p, d) # None
  /\ Keeps("wait for sharers") /\ Entry(p, d) \in FileIds
       => FileOf(p, d).owner # p \/ ~Shared(p, Entry(p, d))
  /\ IF Entry(p, d) = None THEN Damaged("null")
     ELSE IF Entry(p, d) = Stale \/ FileOf(p, d).ref = Lost
              \/ Gone(fs, FileOf(p, d).ref)
          THEN Damaged("stale")
     ELSE /\ proc' = Forgets(p, d) /\ file' = Freed(FreedByClose(p, d))
          /\ UNCHANGED <<fs, pipe, correct, damage>>

-----------------------------------------------------------------------------
(* Processes and pipes.                                                    *)

\* The child gets the pointers of its parent.
fill_process_and_spawn(p) ==
  LET unused == {c \in Pids : proc[c].state = "none"}
  IN  /\ Calls(p) /\ unused # {}
      /\ proc' = [proc EXCEPT ![Min(unused)] =
                    [proc[p] EXCEPT !.parent = p, !.state = "running"]]
      /\ UNCHANGED <<fs, file, pipe, correct, damage>>

Owns(p, f) == file[f].kind # "free" /\ file[f].owner = p
PipesOf(p) == {k \in Pipes : pipe[k].owner = p}

\* The end of a process: the entries below the count are read, the Files the
\* process owns and its pipes are freed.  What others see of them is stale.
sys_kill(p) ==
  LET low == 0 .. proc[p].count - 1
      mine == {Entry(p, d) : d \in {d \in low : Entry(p, d) \in FileIds
                                                 /\ FileOf(p, d).owner = p}}
  IN  /\ damage = "none" /\ Alive(p) /\ p # 1
      /\ Keeps("wait for sharers") =>
           \A f \in FileIds : Owns(p, f) => ~Shared(p, f)
      /\ IF \E d \in low : Entry(p, d) = None THEN Damaged("null")
         ELSE IF \E d \in low : Entry(p, d) = Stale \/ Gone(fs, FileOf(p, d).ref)
              THEN Damaged("stale")
         ELSE /\ proc' = [Dangling(proc, mine) EXCEPT
                            ![p] = [NoProcess EXCEPT !.state = "dead"]]
              /\ file' = [f \in FileIds |->
                   IF f \in mine THEN NoFile
                   ELSE IF file[f].ref \in {PipeRef(k) : k \in PipesOf(p)}
                   THEN [file[f] EXCEPT !.ref = Lost] ELSE file[f]]
              /\ pipe' = [k \in Pipes |->
                            IF k \in PipesOf(p) THEN NoPipe ELSE pipe[k]]
              /\ UNCHANGED <<fs, correct, damage>>

\* A new pipe grows the array of its maker's pipes, which krealloc may move.
sys_pipe(p) ==
  LET k == Min({j \in Pipes : pipe[j].owner = 0})
      slots == (Fds \ Stdio) \ Used(p)
      fd_read == Min(slots)
      fd_write == Min(slots \ {fd_read})
      r == FreeFile(p, fd_read)
      w == FreeFile(p, fd_write)
      before == {PipeRef(j) : j \in PipesOf(p)}
  IN  /\ Calls(p) /\ proc[p].count + 2 <= MAX_OPEN_FILE_DESCRIPTORS
      /\ \E j \in Pipes : pipe[j].owner = 0
      /\ Keeps("one pipe each") => before = {}
      /\ proc' = [proc EXCEPT
           ![p].table[fd_read] = r, ![p].table[fd_write] = w, ![p].count = @ + 2]
      /\ \E moves \in {FALSE, before # {}} :
           file' = [f \in FileIds |->
             IF f = r THEN NewFile("read end", PipeRef(k), p)
             ELSE IF f = w THEN NewFile("write end", PipeRef(k), p)
             ELSE IF moves /\ file[f].ref \in before
                  THEN [file[f] EXCEPT !.ref = Moved] ELSE file[f]]
      /\ pipe' = [pipe EXCEPT ![k] = [NoPipe EXCEPT !.owner = p]]
      /\ UNCHANGED <<fs, correct, damage>>

-----------------------------------------------------------------------------
(* Reading and writing.                                                    *)

PipeOf(f) == f.ref - MaxInode
Run(first, n) == [j \in 1 .. n |-> first + j - 1]    \* n bytes in order

\* Mutant: the position is not held back by the size.
Advanced_freely(f, n, size) == [f EXCEPT !.pos = @ + n]

\* The position after a read of n bytes, however many there were.
Advanced(f, n, size) ==
  [f EXCEPT !.pos = IF f.pos + n > size THEN size ELSE f.pos + n]

ReadFile(p, d, n) ==
  LET f == FileOf(p, d)
  IN  /\ Is(p, d, "reg")
      /\ file' = [file EXCEPT ![Entry(p, d)] = Advanced(f, n, fs[f.ref].size)]
      /\ correct' = (correct /\ ramfs_read(fs, f.ref, n, f.pos) =
           Run(f.pos, Min({n, Max({fs[f.ref].size - f.pos, 0})})))
      /\ UNCHANGED <<fs, proc, pipe, damage>>

\* A read of n bytes from a pipe at an offset taken before it waited.
pipe_read(p, d, n, offset) ==
  LET f == FileOf(p, d)
      k == PipeOf(f)
      count == IF offset + n <= pipe[k].size THEN n ELSE pipe[k].size
  IN  IF ~Lives(p, d) THEN Damaged("stale")
      ELSE IF offset + count > pipe[k].size THEN Damaged("overread")
      ELSE /\ file' = [file EXCEPT ![Entry(p, d)] = Advanced(f, n, pipe[k].size)]
           /\ pipe' = [pipe EXCEPT ![k].taken = @ + count]
           /\ proc' = [proc EXCEPT ![p].state = "running", ![p].blocked = NotBlocked]
           /\ correct' = (correct /\ Run(pipe[k].taken, count) =
                [j \in 1 .. count |-> pipe[k].bytes[offset + j - 1]])
           /\ UNCHANGED <<fs, damage>>

Written(k) == pipe[k].write_offset > 0    \* read_offset stays 0

\* Nothing was written yet: the processor is given away, over and over.
BlockOnPipe(p, d, n) ==
  /\ proc' = [proc EXCEPT ![p].state = "reading",
       ![p].blocked = [fd |-> d, offset |-> FileOf(p, d).pos, count |-> n]]
  /\ UNCHANGED <<fs, file, pipe, correct, damage>>

AwaitedFiles == {Entry(q, proc[q].blocked.fd) :
                   q \in {r \in Pids : proc[r].state = "reading"}}
ReadPipe(p, d, n) ==
  LET f == FileOf(p, d)
      size == pipe[PipeOf(f)].size
  IN  /\ Is(p, d, "read end")
      /\ Keeps("one reader") => Entry(p, d) \notin AwaitedFiles
      /\ Keeps("read what is there") => f.pos = 0 \/ f.pos + n <= size
      /\ IF Written(PipeOf(f)) THEN pipe_read(p, d, n, f.pos)
         ELSE BlockOnPipe(p, d, n)

ResumeRead(p) ==
  LET at == proc[p].blocked
  IN  /\ damage = "none" /\ proc[p].state = "reading"
      /\ Lives(p, at.fd) => Written(PipeOf(FileOf(p, at.fd)))
      /\ pipe_read(p, at.fd, at.count, at.offset)

sys_read(p, d, n) ==
  /\ Uses(p, d)
  /\ IF ~Lives(p, d) THEN Damaged("stale")
     ELSE ReadFile(p, d, n) \/ ReadPipe(p, d, n)

WriteFile(p, d, n) ==
  LET f == FileOf(p, d)
  IN  /\ Is(p, d, "reg") /\ f.pos + n <= MaxSize
      /\ fs[f.ref].size + n <= MaxSize
      /\ Keeps("write at the end") => f.pos = fs[f.ref].size
      /\ fs' = ramfs_write(fs, f.ref, Run(f.pos, n), f.pos)
      /\ file' = [file EXCEPT ![Entry(p, d)].pos = @ + n]
      /\ UNCHANGED <<proc, pipe, correct, damage>>

\* Mutant: the bytes go to the start of the buffer.
pipe_write_first(k, n, offset) ==
  [pipe[k] EXCEPT
     !.bytes = [j \in DOMAIN @ |-> IF j < n THEN pipe[k].sent + j ELSE @[j]],
     !.size = IF offset + n > @ THEN offset + n ELSE @,
     !.write_offset = offset + n, !.sent = @ + n]

\* The bytes carry their number in the order they were written in.
pipe_write(k, n, offset) ==
  [pipe[k] EXCEPT
     !.bytes = [j \in DOMAIN @ |->
                  IF j - offset \in 0 .. n - 1 THEN pipe[k].sent + j - offset
                  ELSE @[j]],
     !.size = IF offset + n > @ THEN offset + n ELSE @,
     !.write_offset = offset + n, !.sent = @ + n]

WritePipe(p, d, n) ==
  LET f == FileOf(p, d)
  IN  /\ Is(p, d, "write end") /\ f.pos + n <= MaxSent
      /\ pipe' = [pipe EXCEPT ![PipeOf(f)] = pipe_write(PipeOf(f), n, f.pos)]
      /\ file' = [file EXCEPT ![Entry(p, d)].pos = @ + n]
      /\ UNCHANGED <<fs, proc, correct, damage>>

sys_write(p, d, n) ==
  /\ Uses(p, d)
  /\ IF ~Lives(p, d) THEN Damaged("stale")
     ELSE WriteFile(p, d, n) \/ WritePipe(p, d, n)

\* Programs seek to the start and to the end of a file.
sys_lseek(p, d, whence) ==
  /\ Uses(p, d)
  /\ IF ~Lives(p, d) THEN Damaged("stale")
     ELSE
        /\ Is(p, d, "reg")
        /\ file' = [file EXCEPT ![Entry(p, d)].pos =
             IF whence = "SEEK_SET" THEN 0 ELSE fs[FileOf(p, d).ref].size]
        /\ UNCHANGED <<fs, proc, pipe, correct, damage>>

\* As many entries as the directory has, wherever the listing stands.
sys_readdir(p, d, n) ==
  LET f == FileOf(p, d)
      entries == fs[f.ref].entries
      count == Min({n, Len(entries)})
  IN  /\ Uses(p, d)
      /\ IF ~Lives(p, d) THEN Damaged("stale")
         ELSE
            /\ Is(p, d, "dir")
            /\ Keeps("list once") => f.pos = 0
            /\ IF f.pos + count > Len(entries) THEN Damaged("overread")
               ELSE /\ file' = [file EXCEPT ![Entry(p, d)].pos = @ + count]
                    /\ UNCHANGED <<fs, proc, pipe, correct, damage>>

-----------------------------------------------------------------------------
(* Names.                                                                  *)

sys_chdir(p, path) ==
  LET to == get_parent_directory(fs, proc[p].pwd,
                                 [path EXCEPT !.dirs = Append(@, path.name)])
  IN  /\ Calls(p)
      /\ Keeps("name what exists") => to # Fault
      /\ IF to = Fault THEN Damaged("stale")
         ELSE /\ to \in Inodes /\ proc' = [proc EXCEPT ![p].pwd = to]
              /\ UNCHANGED <<fs, file, pipe, correct, damage>>

IsOpen(i) == \E f \in FileIds : file[f].kind \in {"reg", "dir"} /\ file[f].ref = i

sys_unlink(p, path) ==
  LET parent == get_parent_directory(fs, proc[p].pwd, path)
      i == get_file(fs, proc[p].pwd, parent, path.name)
  IN  /\ Calls(p) /\ path.name # ".."
      /\ Keeps("name what exists") => i # Fault
      /\ Keeps("unlink the last") /\ i \in Inodes =>
           /\ Last(fs[parent].entries).inode = i /\ ~IsOpen(i)
           /\ fs[i].entries = <<>>
           /\ \A q \in Pids : Alive(q) => proc[q].pwd # i
      /\ IF i = Fault THEN Damaged("stale")
         ELSE i # Null /\ OnlyTree(ramfs_unlink(fs, parent, i))

-----------------------------------------------------------------------------
(* Process 1 starts with the descriptors of setup_init_stdio, owned by no  *)
(* one, and an empty file system.                                          *)

setup_init_stdio ==
  [f \in FileIds |-> IF f \in Stdio THEN NewFile("tty", Null, 0) ELSE NoFile]

Init ==
  /\ fs = ramfs_mount
  /\ proc = [p \in Pids |-> IF p # 1 THEN NoProcess ELSE
       [NoProcess EXCEPT !.state = "running", !.count = 3,
          !.table = [d \in Fds |-> IF d \in Stdio THEN d ELSE None]]]
  /\ file = setup_init_stdio
  /\ pipe = [k \in Pipes |-> NoPipe]
  /\ correct = TRUE
  /\ damage = "none"

Flags == {"plain", "creat", "append", "trunc", "directory", "mkdir"}

Next ==
  \E p \in Pids :
    \/ \E path \in Paths, flags \in Flags : sys_open(p, path, flags)
    \/ \E d \in Fds : sys_close(p, d)
    \/ fill_process_and_spawn(p)
    \/ sys_kill(p)
    \/ sys_pipe(p)
    \/ ResumeRead(p)
    \/ \E d \in Fds, n \in 1 .. MaxTransfer : sys_read(p, d, n)
    \/ \E d \in Fds, n \in 1 .. MaxTransfer : sys_write(p, d, n)
    \/ \E d \in Fds, whence \in {"SEEK_SET", "SEEK_END"} : sys_lseek(p, d, whence)
    \/ \E d \in Fds, n \in 1 .. MaxTransfer : sys_readdir(p, d, n)
    \/ \E path \in Paths : p \in Shells /\ sys_chdir(p, path)
    \/ \E path \in Paths : sys_unlink(p, path)

Spec == Init /\ [][Next]_vars

-----------------------------------------------------------------------------
(* Properties.                                                             *)

Refs == 0 .. Lost
TypeOK ==
  /\ \A i \in Inodes :
       /\ fs[i].kind \in {"unborn", "reg", "dir", "freed"}
       /\ fs[i].parent \in Inodes \cup {Null} /\ fs[i].size \in 0 .. MaxSize
       /\ fs[i].bytes \in [Positions -> Positions \cup {Nothing}]
       /\ fs[i].entries \in Seq([name : Names, inode : Inodes])
  /\ \A p \in Pids :
       /\ proc[p].state \in {"none", "running", "reading", "dead"}
       /\ proc[p].pwd \in Inodes /\ proc[p].count \in 0 .. MAX_OPEN_FILE_DESCRIPTORS
       /\ proc[p].table \in [Fds -> FileIds \cup {None, Stale}]
  /\ file \in [FileIds -> [kind : {"free", "tty", "reg", "dir", "read end", "write end"},
                           ref : Refs, pos : 0 .. MaxSize + MaxSent + MaxInode,
                           owner : Pids \cup {0}]]
  /\ \A f \in FileIds : file[f].kind = "reg" => file[f].pos \in 0 .. MaxSize
  /\ \A k \in Pipes : /\ pipe[k].size \in 0 .. MaxSent
                      /\ pipe[k].taken <= pipe[k].sent
  /\ damage \in {"none", "null", "stale", "overread"}

\* The directories list exactly the inodes there are, each once, in the
\* directory that is its parent: ramfs_unlink takes the last entry away,
\* whichever file it frees.
TreeExact ==
  \A i \in Inodes :
    LET listed == {e \in Inodes \X (1 .. MaxInode) :
                     /\ e[2] \in DOMAIN fs[e[1]].entries
                     /\ fs[e[1]].entries[e[2]].inode = i}
    IN  IF fs[i].kind \in {"reg", "dir"} /\ i # Root
        THEN \E k \in 1 .. MaxInode : listed = {<<fs[i].parent, k>>}
        ELSE listed = {}

\* No descriptor is lost and no File leaks: files.count is the number of
\* entries in use, and every File that was allocated is in the table of its
\* living owner, once.
FilesAreOwned ==
  /\ \A p \in Pids : Alive(p) => proc[p].count = Cardinality(Used(p))
  /\ \A f \in FileIds \ Stdio : file[f].kind # "free" =>
       /\ Alive(file[f].owner)
       /\ Cardinality({d \in Fds : Entry(file[f].owner, d) = f}) = 1

\* No File, inode or pipe is used after it was freed or moved, no null entry
\* is followed, and nothing is copied from beyond a buffer.
NoUndefinedAccess == damage = "none"

\* A read returns what was written at its position; of a pipe, the bytes in
\* the order they were written in, each once, whoever reads; and as many as
\* there are.
Delivered == correct
=============================================================================
