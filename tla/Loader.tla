------------------------------- MODULE Loader -------------------------------
(***************************************************************************)
(* From an executable file to a process and back to free memory:           *)
(* src/kernel/loader.c with the spawn, kill and wait of src/kernel/proc.c  *)
(* as far as they allocate and release.                                    *)
(*                                                                         *)
(* Everything runs in one system call and is one step; `failed' says which *)
(* of its allocations is refused.  A cell stands for a word of memory.     *)
(* Executables and the library are what the linker makes: records of what  *)
(* the loader looks at.  A process uses the text of the library where it   *)
(* lies in the RAM file system.  `Rules' say what executables, programs    *)
(* and the size of memory keep to; `damage' is the first undefined step,   *)
(* past which nothing is said.                                             *)
(***************************************************************************)
EXTENDS Integers, SequencesExt

CONSTANTS
  Programs,       \* the executable files
  Library,        \* the shared library in /initramfs/lib
  elf_hash,       \* [symbol names -> Nat]
  INITIAL_PROCESS_COUNT,
  bufsz,          \* cells of an image before it is extended
  MaxAddress,     \* the last cell any executable names
  Rules,
  MaxSpawns,      \* bound of the model: spawns ever tried
  MaxMoves        \* bound of the model: times the library is written

AllRules == {"memory for the image", \* load_pages_to_ram gets what it asks for
             "one library",          \* executables name the one there is, or none
             "known symbols",        \* imports are in the library
             "early bss",            \* zeroed cells lie in the first bufsz
             "library stays"}        \* its file is written when no process runs

Symbols == DOMAIN elf_hash
Entries == 1 .. Len(Library.dynsym)     \* of the library's symbol table
STN_UNDEF == 0
Cells == 0 .. MaxAddress
Slots == 0 .. INITIAL_PROCESS_COUNT - 1

ASSUME LoaderAssumption ==
  /\ {INITIAL_PROCESS_COUNT, bufsz, MaxSpawns} \subseteq Nat \ {0}
  /\ MaxMoves \in Nat /\ MaxAddress \in Nat /\ Rules \subseteq AllRules
  /\ elf_hash \in [Symbols -> Nat] /\ Library.hash.nbucket \in Nat \ {0}
  /\ Library.dynsym \in Seq([name : Symbols, value : Nat])
  /\ Library.hash.bucket \in [0 .. Library.hash.nbucket - 1 -> Entries \cup {STN_UNDEF}]
  /\ Library.hash.chain \in [Entries -> Entries \cup {STN_UNDEF}]
  /\ \A p \in Programs :
       /\ p.segments \in Seq([paddr : Nat, filesz : Nat, memsz : Nat])
       /\ \A i \in DOMAIN p.segments :
            LET s == p.segments[i]
            IN  s.filesz <= s.memsz /\ s.paddr + s.memsz - 1 \in Cells

VARIABLES
  process,         \* [Slots -> entry of the table]
  processes_count,
  heap,            \* the blocks that are allocated
  file_begin,      \* where the library's file lies
  spawned,         \* ghost: how many spawns were tried; names their blocks
  result,          \* what the last call returned
  damage

vars == <<process, processes_count, heap, file_begin, spawned, result, damage>>
Keeps(rule) == rule \in Rules

Blank == [pstate |-> "blank"]
Live(i) == process[i].pstate = "ready"
Kinds == {"image", "page", "static base", "stack", "fdtable", "children"}
Blocks == [spawn : 1 .. MaxSpawns, kind : Kinds]
Block(n, kinds) == {[spawn |-> n, kind |-> k] : k \in kinds}

Zero == [from |-> "zero", value |-> 0]
Junk == [from |-> "junk", value |-> 0]      \* as kmalloc found it
Byte(i, at) == [from |-> "file", value |-> <<i, at>>]
FromLibrary(begin, value) == [from |-> "library", value |-> <<begin, value>>]
FromStaticBase(value) == [from |-> "static base", value |-> value]

-----------------------------------------------------------------------------
(* The parts of load_exec.                                                 *)

NotExecutable(p) == ~p.valid \/ ~p.text

\* Mutant: the place of the segment is compared, not its end.
Grows_start(size, s) == s.paddr >= size

\* The buffer is extended by the end of a segment that reaches its end.
Grows(size, s) == s.paddr + s.memsz >= size

\* What krealloc adds to the first buffer is not cleared.
Buffer == [size |-> bufsz, cell |-> [a \in Cells |-> IF a < bufsz THEN Zero ELSE Junk]]

InFile(s, a) == a \in s.paddr .. s.paddr + s.filesz - 1

\* The i-th segment is read into the image.
Copied(image, p, i) ==
  LET s == p.segments[i]
  IN  [size |-> IF Grows(image.size, s) THEN image.size + s.paddr + s.memsz
                ELSE image.size,
       cell |-> [a \in Cells |-> IF InFile(s, a) THEN Byte(i, a - s.paddr)
                                 ELSE image.cell[a]]]

\* The image after the first i segments, for each i.
Pages(p) ==
  LET after[i \in 0 .. Len(p.segments)] ==
        IF i = 0 THEN Buffer ELSE Copied(after[i - 1], p, i)
  IN  after
load_pages_to_ram(p) == Pages(p)[Len(p.segments)]
Extends(p) == load_pages_to_ram(p).size > bufsz

\* The status and, if that is OK, the name of the library, or "" for none.
Needed(p) == SelectSeq(p.dynamic, LAMBDA d : d.tag = "NEEDED")
HasStrtab(p) == \E i \in DOMAIN p.dynamic : p.dynamic[i].tag = "STRTAB"
retrieve_dynlib_name(p) ==
  [status |-> IF ~HasStrtab(p) THEN "ERR_NO_STRTAB_FOUND"
              ELSE IF Len(Needed(p)) > 1 THEN "ERR_ONE_DYNLIB_SUPPORTED" ELSE "OK",
   name |-> IF Needed(p) = <<>> THEN "" ELSE Needed(p)[1].name]
Links(p) ==
  retrieve_dynlib_name(p).status = "OK" /\ retrieve_dynlib_name(p).name # ""

\* Lookups that find nothing return null, which is followed.  (The three kfree
\* calls are on a Dentry of the stack, at whose address there is no chunk.)
LibraryMissing(p) == Links(p) /\ retrieve_dynlib_name(p).name # Library.name

\* Mutant: the first entry of the bucket is taken.
Desired_first(i, name) == TRUE

Desired(i, name) == Library.dynsym[i].name = name

\* A look-up goes along the chain of the name's bucket: where it is after k steps.
Bucket(name) == Library.hash.bucket[elf_hash[name] % Library.hash.nbucket]
NextOf(at, name) ==
  IF at = STN_UNDEF \/ Desired(at, name) THEN at ELSE Library.hash.chain[at]
Walk(name) ==
  LET walk[k \in 0 .. Len(Library.dynsym)] ==
        IF k = 0 THEN Bucket(name) ELSE NextOf(walk[k - 1], name)
  IN  walk

\* The value of a symbol; 0 if there is none.
get_dyn(name) ==
  LET found == Walk(name)[Len(Library.dynsym)]
  IN  IF found = STN_UNDEF THEN 0 ELSE Library.dynsym[found].value

\* The sum of the base and the value is never 0: a symbol that the library does
\* not have is taken for its first one.
resolve_dyn_relocations(p, cell) ==
  [a \in Cells |->
     IF \E r \in p.rel_dyn : r.offset = a
     THEN FromStaticBase(get_dyn((CHOOSE r \in p.rel_dyn : r.offset = a).name))
     ELSE IF \E r \in p.rel_plt : r.offset = a
     THEN FromLibrary(file_begin, get_dyn((CHOOSE r \in p.rel_plt : r.offset = a).name))
     ELSE cell[a]]

\* The last symbol of that name.
Starts(p) == {i \in DOMAIN p.symtab : p.symtab[i].name = "_start"}
find_entry_point(p) == IF Starts(p) = {} THEN 0 ELSE p.symtab[Max(Starts(p))].value

\* Blocks that load_exec has when it returns a page.  With a status other than
\* OK, static_base is what kmalloc left in the page.
PageBlocks(p) == {"image", "page"} \cup (IF Links(p) THEN {"static base"} ELSE {})
StaticBase(p) ==
  IF Links(p) THEN "static base"
  ELSE IF retrieve_dynlib_name(p).status = "OK" THEN "null" ELSE "junk"
Image(p) == IF Links(p) THEN resolve_dyn_relocations(p, load_pages_to_ram(p).cell)
            ELSE load_pages_to_ram(p).cell

\* What the linker makes of a program: segments apart from each other, one import
\* at an offset, and the name of a library if there are any.
Imports(p) == p.rel_plt \cup p.rel_dyn
Covers(s, a) == a \in s.paddr .. s.paddr + s.memsz - 1
Linked(p) ==
  /\ \A i, j \in DOMAIN p.segments : i # j =>
       \A a \in Cells : ~(Covers(p.segments[i], a) /\ Covers(p.segments[j], a))
  /\ p.rel_plt \cap p.rel_dyn = {}
  /\ \A r \in Imports(p) : r.offset \in Cells
  /\ \A r, s \in Imports(p) : r.offset = s.offset => r = s
  /\ Imports(p) # {} /\ retrieve_dynlib_name(p).status = "OK" =>
       retrieve_dynlib_name(p).name # ""

\* And of the library: each symbol is on the chain of its bucket.
Hashed ==
  \A e \in Entries : \E n \in Entries : \E path \in [1 .. n -> Entries] :
    /\ path[1] = Bucket(Library.dynsym[e].name) /\ path[n] = e
    /\ \A k \in 1 .. n - 1 : path[k + 1] = Library.hash.chain[path[k]]

ASSUME LinkerAssumption == Hashed /\ \A p \in Programs : Linked(p)

-----------------------------------------------------------------------------
(* The system calls.                                                       *)

Allocations == {"executable", "image", "extension", "page", "static base",
                "stack", "fdtable", "children", "none"}

\* The page, or null, is used without a look at it.
FollowsNull(p, failed) ==
  \/ failed \in {"image", "page"}
  \/ failed = "extension" /\ Extends(p)
  \/ p.dynamic = <<>>
  \/ LibraryMissing(p)

\* What load_exec keeps when it returns null after the page was made: all of it
\* if the library's data does not fit, that data if there is no entry point.
LostByLoad(p, failed) ==
  IF failed = "static base" /\ Links(p) THEN {"image", "page"}
  ELSE PageBlocks(p) \ {"image", "page"}
LoadFails(p, failed) ==
  \/ failed = "static base" /\ Links(p)
  \/ find_entry_point(p) = 0

Returns(rc, blocks) ==
  /\ heap' = heap \cup Block(spawned', blocks)
  /\ result' = rc
  /\ UNCHANGED damage
Loads(p, failed) ==
  failed # "executable" /\ ~NotExecutable(p) /\ ~FollowsNull(p, failed)
scheduler_can_populate_process == processes_count <= INITIAL_PROCESS_COUNT
Empty == {i \in Slots : process[i].pstate = "blank"}

NewProcess(p) ==
  [pstate |-> "ready", spawn |-> spawned', program |-> p, cell |-> Image(p),
   size |-> load_pages_to_ram(p).size, static_base |-> StaticBase(p),
   start |-> find_entry_point(p)]

\* No page: the buffer with the file is freed.
spawn_rejected(p, failed) ==
  /\ \/ /\ failed = "executable"
        /\ Returns("-1", {})
     \/ /\ failed # "executable" /\ NotExecutable(p)
        /\ Returns("ENOEXEC", {})
     \/ /\ Loads(p, failed) /\ LoadFails(p, failed)
        /\ Returns("ENOEXEC", LostByLoad(p, failed))
  /\ UNCHANGED <<process, processes_count>>

spawn_undefined(p, failed) ==
  /\ failed # "executable" /\ ~NotExecutable(p) /\ FollowsNull(p, failed)
  /\ damage' = "null"
  /\ UNCHANGED <<process, processes_count, heap, result>>

\* The page is there and the process is not.
spawn_refused(p, failed) ==
  /\ Loads(p, failed) /\ ~LoadFails(p, failed)
  /\ \/ /\ failed = "stack" \/ ~scheduler_can_populate_process
        /\ Returns("-1", PageBlocks(p))
        /\ UNCHANGED processes_count
     \/ /\ failed # "stack" /\ scheduler_can_populate_process /\ Empty = {}
        /\ Returns("-1", PageBlocks(p) \cup {"stack"})
        /\ processes_count' = processes_count + 1
  /\ UNCHANGED process

\* The entry is in the table; it stays there, new, when there is no memory for
\* its tables (kfree finds no chunk at its address).
spawn_placed(p, failed) ==
  /\ Loads(p, failed) /\ ~LoadFails(p, failed) /\ failed # "stack"
  /\ scheduler_can_populate_process /\ Empty # {}
  /\ LET short == failed \in {"fdtable", "children"}
     IN  /\ process' = [process EXCEPT ![Min(Empty)] =
                          IF short THEN [pstate |-> "new"] ELSE NewProcess(p)]
         /\ IF short THEN Returns("-1", PageBlocks(p) \cup {"stack"})
            ELSE Returns("pid", PageBlocks(p) \cup {"stack", "fdtable", "children"})
  /\ processes_count' = processes_count + 1

\* What the rules keep from happening.
Permitted(p, failed) ==
  NotExecutable(p) \/
  /\ Keeps("memory for the image") => failed \notin {"image", "extension", "page"}
  /\ Keeps("one library") =>
       retrieve_dynlib_name(p).status = "OK" /\ ~LibraryMissing(p)
  /\ Keeps("known symbols") =>
       \A r \in Imports(p) : \E i \in Entries : Desired(i, r.name)
  /\ Keeps("early bss") => \A i \in DOMAIN p.segments :
       LET s == p.segments[i]
       IN  s.filesz = s.memsz \/ s.paddr + s.memsz <= bufsz

sys_spawn_process(p, failed) ==
  /\ spawned < MaxSpawns /\ Permitted(p, failed)
  /\ spawned' = spawned + 1
  /\ UNCHANGED file_begin
  /\ \/ spawn_rejected(p, failed)
     \/ spawn_undefined(p, failed)
     \/ spawn_refused(p, failed)
     \/ spawn_placed(p, failed)

\* Mutant: the library's data is not released.
Released_page(i) == {"image", "page", "stack", "fdtable", "children"}

\* The blocks sys_kill frees of the process at i.
Released(i) == Kinds

sys_kill(i) ==
  /\ Live(i)
  /\ UNCHANGED <<processes_count, file_begin, spawned>>
  /\ IF process[i].static_base = "junk"
     THEN damage' = "junk freed" /\ UNCHANGED <<process, heap, result>>
     ELSE /\ heap' = heap \ Block(process[i].spawn, Released(i))
          /\ process' = [process EXCEPT ![i] = [pstate |-> "terminated"]]
          /\ result' = "ok"
          /\ UNCHANGED damage

\* The parent reaps.
sys_wait(i) ==
  /\ process[i].pstate = "terminated"
  /\ process' = [process EXCEPT ![i] = Blank]
  /\ processes_count' = processes_count - 1
  /\ result' = "ok"
  /\ UNCHANGED <<heap, file_begin, spawned, damage>>

\* A write that makes the library's file longer moves it.
ramfs_write ==
  /\ file_begin < MaxMoves
  /\ Keeps("library stays") => \A i \in Slots : ~Live(i)
  /\ file_begin' = file_begin + 1
  /\ result' = "ok"
  /\ UNCHANGED <<process, processes_count, heap, spawned, damage>>

-----------------------------------------------------------------------------
\* Init is there from the start and is left out of the table.
Init ==
  /\ process = [i \in Slots |-> Blank]
  /\ processes_count = 0
  /\ heap = {}
  /\ file_begin = 0
  /\ spawned = 0
  /\ result = "ok"
  /\ damage = "none"

Next ==
  /\ damage = "none"
  /\ \/ \E p \in Programs, failed \in Allocations : sys_spawn_process(p, failed)
     \/ \E i \in Slots : sys_kill(i) \/ sys_wait(i)
     \/ ramfs_write

Spec == Init /\ [][Next]_vars

-----------------------------------------------------------------------------
(* Properties.                                                             *)

\* The memory of the process at i.
BlocksOf(i) == Block(process[i].spawn, PageBlocks(process[i].program)
                                         \cup {"stack", "fdtable", "children"})

\* Types; and an image ends before its buffer does.
TypeOK ==
  /\ \A i \in Slots :
       /\ process[i].pstate \in {"blank", "new", "ready", "terminated"}
       /\ Live(i) => LET p == process[i]
                     IN  \A k \in DOMAIN p.program.segments :
                           LET s == p.program.segments[k]
                           IN  s.paddr + s.memsz <= p.size
  /\ processes_count \in 0 .. INITIAL_PROCESS_COUNT + 1
  /\ heap \subseteq Blocks
  /\ file_begin \in 0 .. MaxMoves /\ spawned \in 0 .. MaxSpawns
  /\ result \in {"ok", "pid", "-1", "ENOEXEC"}
  /\ damage \in {"none", "null", "junk freed"}

\* A process finds its program as the linker meant it, however long ago it was
\* loaded and whatever was loaded and released since: text and data from the
\* file, zeros in the rest, each import at the place of the symbol of its name in
\* the library or in the process's copy of its data, and all of it still allocated.
\* Neither the loader nor the end of a process uses a pointer that leads nowhere.
LoadedAsLinked ==
  damage = "none" /\ \A i \in Slots : Live(i) =>
    LET p == process[i].program
        cell == process[i].cell
        ValueOf(name) == {Library.dynsym[k].value : k \in {e \in Entries :
                            Library.dynsym[e].name = name}}
    IN  /\ BlocksOf(i) \subseteq heap
        /\ \A k \in DOMAIN p.segments : \A a \in Cells :
             Covers(p.segments[k], a) /\ (\A r \in Imports(p) : r.offset # a) =>
               cell[a] = IF a - p.segments[k].paddr < p.segments[k].filesz
                         THEN Byte(k, a - p.segments[k].paddr) ELSE Zero
        /\ \A r \in p.rel_plt : \E v \in ValueOf(r.name) :
             cell[r.offset] = FromLibrary(file_begin, v)
        /\ \A r \in p.rel_dyn : \E v \in ValueOf(r.name) :
             cell[r.offset] = FromStaticBase(v)
        /\ Imports(p) # {} => process[i].static_base = "static base"

Owned == UNION {BlocksOf(i) : i \in {j \in Slots : Live(j)}}
Unreachable == heap \ Owned

\* Memory that no process owns is left behind only by a spawn that failed after
\* its file was found to be executable; the end of a process leaves none,
\* whatever it was loaded from.
LostByFailedSpawnOnly ==
  [][\/ Unreachable' \subseteq Unreachable
     \/ /\ result' \in {"ENOEXEC", "-1"}
        /\ \E p \in Programs, failed \in Allocations \ {"executable"} :
             ~NotExecutable(p) /\ sys_spawn_process(p, failed)]_vars
=============================================================================
