# GeT_OS: a verification development

GeT_OS is a small operating system for the RP2350: one core, one address space,
a kernel in handler mode and unprivileged programs in thread mode. This directory
holds TLA+ models of its kernel, the TLC configurations that check them, and
proofs checked by TLAPS. Paths below are relative to the repository (`src/` there is
`src/src/` seen from here).

## 1. The system

| part | code | state | operations | what makes it correct |
|---|---|---|---|---|
| heap allocator | `src/kernel/memory.c` | list of chunks, two totals, per-process total | kmalloc, krealloc, kfree; malloc, realloc, free | blocks never overlap, no chunk is lost, totals are exact, chunks stay inside the heap |
| processes | `src/kernel/proc.c` | table of 20 entries, count, pid counter | spawn, wait, kill, exit | a pid lives one life, table and count agree, parents and children point at each other |
| scheduler | `proc.c`, `isr.S`, `ctx.S` | current process, search index, `kernel_mode` of each process | SysTick/PendSV, context_switch | nobody starves, idle only when idle, registers come back from where they were saved |
| signals | `src/kernel/signal.c` | queue and handlers of each process | signal, notify, delivery, sigreturn | no child exit is missed, a handler interrupts and returns |
| wait queues | `src/kernel/resources.c` | list of waiting processes | wait_event, wake_up | no wake-up is lost |
| terminal | `src/kernel/tty.c` | line buffer, cursor, `newline_present` | key interrupt, read, write, ioctl | a typed line is read, once, as edited |
| init, LED, shell | `src/init/init.c`, `builtins/src/shell.c` | local variables | spawn, wait, read, kill in their order | one shell, zombies reaped, no fault |
| files | `src/fs/file.c` | descriptor tables, `File` objects | open, close, read, write, lseek | a descriptor names a live file |
| RAM file system | `src/fs/ramfs.c` | inodes, directory contents | create, lookup, unlink, read, write | what was written is read |
| pipes | `proc.c:576-740` | buffer, two offsets | read, write, close | bytes arrive once and in order |
| FAT16 | `src/fs/fat16.c` | FAT, directory sectors | allocate, read, write, unlink | chains do not cross |
| sockets | `src/drivers/ethernet.c`, `network.c` | sockets, waiting processes, event bits, ring buffers on the chip | socket, listen, accept, connect, read, write, interrupt | bytes arrive once and in order, calls tell the truth of the connection, a sleeper is woken by its own event |
| loader | `loader.c` | pages of processes, blocks of the heap | load, relocate, release | a process runs what was linked, failures leave nothing behind |
| initramfs | `archive_loader.c` | none | cpio extraction | every file of the archive is there |
| keyboard | `src/drivers/keyboard.S` | six flags | one byte of a scan code per interrupt | a key is the character it says, with the modifiers that are down |
| text screen | `src/drivers/monitor_text_mode.c` | cells, cursor, scrolling area | characters, control sequences | the cursor stays on the screen, the line shown is the line edited |
| VGA, UART, SPI, SD | `src/drivers` | device registers | interrupts, register I/O | |
| libc, start-up, other builtins | | none of their own | | |

How they interact. Programs enter the kernel by `svc`; the handler is
`isr_svcall`. All exceptions have the same priority (the code that would lower
PendSV is commented out, `isr.S:67-71`), so *code in handler mode is never
preempted*: a system call that does not block is atomic, and interleaving happens
only in user mode and where a call gives up the processor
(`save_kernelmode_and_context_switch`). Interrupts (SysTick, keyboard, Ethernet)
come in between, change states of processes and wait queues, and are atomic too.
The kernel allocates from the same heap it hands to programs.

What is hard here is therefore not data races but *stale state across a blocked
call*: a process sleeps in `wait` or `read`, meanwhile others exit, are killed or
reaped, their slots are reused, signals arrive and handlers run on top of the
blocked call. The list of hazards, each at its line, is in `PROJECT.json`.

## 2. Plan

Written and checked: 1 `BlockStore`, 2 `Heap`, 3 `HeapProofs`, 4 `ProcessLife`,
5 `Scheduler`, 6 `Userland`, 7 `SchedulerProofs`, 8 `Screen` and `Terminal`,
9 `RamFs` and `Files`, 10 `Sockets`, 11 `Fat16`, 12 `Loader`, 13 `SocketsProofs`,
14 `LoaderProofs`, 15 `FilesProofs`, 16 `Fat16Proofs`, 17 `TerminalProofs`, 18 `UserlandProofs`.

What composes what: `Scheduler` implements `ProcessLife`, `Heap` implements
`BlockStore`, `Userland` extends `Scheduler` (and `UserlandProofs` extends `SchedulerProofs`), `Terminal` extends `Screen`, `Files` extends
`RamFs`. The modules from 8 on are not composed with `Scheduler`: what they need of it
(a call runs to the point where it gives up the processor) is stated in each.

Next:

19. `Heap` composed with `Scheduler`, for the `kmalloc` that fails in a system call.
20. The writes of one `FAT16_write` as steps of their own, with a reset between them.
21. `libc`: `ctime`, `vsnprintf` and `strstr` against reference definitions.

None of the modules has a RECURSIVE operator.

## 3. The modules

### Heap and BlockStore

`Heap` models `memory.c`. A chunk is named by the address of its header; `chunk`
maps the headers of allocated chunks to `size`, `next` and `owner` (a history
variable: who got the block). `find_free_chunk_predecessor` is a first fit; since
the list is in address order (`ListSorted`, proved), "first" is "lowest", and the walk is
written as a CHOOSE of the lowest chunk with room behind it. Calls are actions:
`kmalloc`, `kmalloc_refused` (the limit check fails *after* the list was changed),
`krealloc_last` (in place), `krealloc_moved`, `krealloc_smashes` (the copy of a
shrunk block overwrites the next header), `krealloc_refused`, `kfree`. `o` says
whether the kernel called or a process through a system call, in which case
`Process.allocated_memory` follows.

When the list names a header that was never written or was overwritten
(`~Intact`), the next walk is undefined, and the model stops. So the properties
say what holds for all histories *up to* such a step, not that there is none.

`BlockStore` is what callers rely on: blocks that do not overlap, each keeping
its place, size and owner until it is resized or released. `Heap` implements it under
`BlockMap`, which forgets the list and the headers.

Assumed: a caller passes a pointer it was given and has not freed; requests are
far below 2^32 (`HeapAssumption`).

### Scheduler and ProcessLife

`Scheduler` models `proc.c`, `signal.c`, `resources.c` and the entry and exit
paths in `isr.S`/`ctx.S`. `processes` is the table; an entry has the fields of
`struct Process` the control depends on. Two things stand for memory: `stack` says
whether `stack_page_ptr` is null, a page, or a freed page; `frame` says which
blocked call has its registers on the kernel stack. `mode` says who runs:
the program (`"user"`), its resumed call (`"kernel"`), or `context_switch`
(`"switch"`).

| code | action |
|---|---|
| `sys_spawn*`, `create_blank_process`, `fill_process_and_spawn` | `spawn`, `spawn_unplaced`, `spawn_refused`, `spawn_wipes` |
| `sys_wait` | `sys_wait`, `wait_resumed` (second half, `Reap`) |
| `sys_kill`, `sys_exit`, `isr_usagefault` | `sys_kill_term`, `sys_kill`, `sys_exit`, `isr_usagefault` |
| `sys_signal`, `sys_sigreturn` | same names |
| `pipe_read`, `mutex_lock` loops | `yield`, `yield_resumed` |
| `tty_read`, `wait_event_interruptible` | `tty_read`, `read_resumed` |
| `write_to_keyboard_buffer`, `wake_up_interruptible` | `write_to_keyboard_buffer` |
| `isr_systick`, `isr_pendsv`, `scheduler_update_process` | `tick` |
| `context_switch`, `get_pending_signal`, `handle_pending_signal` | `context_switch` (`Resume`) |

Programs are arbitrary: in user mode a process may make any call. Where the
code then reads memory that is not there (`children[-1]`, a null process, a freed
stack, registers that were not saved) `damage` names it and the model stops; the
properties hold of every state before. Which of this the shipped programs can reach is the
subject of `Userland`.

Abstracted: exit codes, process groups, argv, memory accounting; the files,
pipes, heap pages and the image that `sys_kill` frees; failing kmallocs. Handlers make no
blocking calls. A process that returns to user mode on a freed stack counts as
damaged at once. After `isr_usagefault` the handler goes on with the switch on
the kernel stack it has just freed; nothing allocates before it is left, so this is
not counted.

`ProcessLife` is the abstract view of a parent: a pid is unborn, live, zombie
or gone, in this order, and never comes back. `Scheduler` implements it.

### Userland

The programs the system boots into, on the actions of `Scheduler`: init
(`PATER_ADAMVS`: spawn LED, spawn the shell, wait until *its* pid comes back, spawn again), the
LED process (`proc1`: handler for SIGTERM that exits), gsh (`shell`: read a line; kill, another
builtin, or spawn a command and wait) and commands that exit, fault or run on.
`Sessions` says whom the user kills. The user is slower than SysTick: a line
ends when init and the shell have gone to sleep (`AtRest`). kill sends SIGTERM, its
default. Opening and loading executables succeeds; commands do not read the terminal.
`UserlandAssumption`: the table has four places for the four programs that live at once, a handler
for SIGTERM can be installed, and a process may be named to kill by any pid, so that
each step of the programs is a step of `Scheduler`.

### Files and RamFs

`RamFs` has `ramfs.c` and the path walk of `file.c` as operators on the inodes `fs`;
`Files` has the calls. `proc` is what `struct Process` keeps of files: the descriptor
table, the count, the working directory. `file` is the heap of `struct File`: parent and child
hold *pointers* to the same one (`fill_process_and_spawn` copies the table), so that closing
frees it for both. When it is freed, the pointers left are marked `Stale`; `damage` names the
first use of one, of a null entry, of a freed inode or of a pipe that `krealloc` moved.

| code | definition |
|---|---|
| `get_parent_directory`, `get_file` | same names, in `RamFs` |
| `sys_open`, `create_file`, `get_file_descriptor` | `sys_open`, `get_file_descriptor` |
| `sys_close` | `sys_close` (`FreedByClose`, `Forgets`) |
| `sys_read`, `ramfs_read`, `pipe_read` | `sys_read` (`ReadFile`, `ReadPipe`), `ResumeRead` after the wait |
| `sys_write`, `ramfs_write`, `pipe_write` | `sys_write` (`WriteFile`, `WritePipe`) |
| `sys_lseek`, `sys_readdir`, `sys_chdir`, `sys_unlink`, `sys_pipe` | same names |
| spawn and `sys_kill`, as far as files go | `fill_process_and_spawn`, `sys_kill` |

`Walk` is the path walk as a function from the number of components walked to where it is, which
`get_parent_directory` takes at the last one. An address is named after its first user: `Home` is
where `FreeFile`, which stands for `kmalloc`, puts the File of a process's descriptor if that is free.
Bytes are positions: what a read returns is right when it is the run of positions from where it
began (`correct`). Left out: SEEK_CUR, a failing `kmalloc`, names longer than the entry.

### Fat16

The volume is `fat` (the table on the card), `cache` and `cached` (the sector of it in
memory and its number), `dir` and `data`. Each of `FAT16_find_next_cluster`, `FAT16_mark_cluster`
and `FAT16_find_next_free_cluster` may load another sector, and returns the volume it leaves; a
call threads it through. An open makes an inode of its own with its own copy of the first cluster
and the size (`inode`); a write takes the cluster from the directory entry again, a read
does not. A byte is (entry, position), so that a byte in another file is noticed. The names keep
`FAT16_encode_entry_name` as it is: cut to eight and three, lost without a dot. `FAT16_mount`
is a reset between two calls. The loops of the code are `Looped`, so many turns of `Follow` (to
the next cluster), `Deeper` (count them), `Longer` (append one), `ReadOn` or `Release`.

### Sockets

One record per hardware socket: its state `sr`, its event bits `ir`, and two ring
buffers with 16-bit pointers. `edge` is the INTn pin: `eth_irq` is taken on its falling edge, before
the next system call, and all events are cleared at once. Calls sleep by writing
themselves into `waiting`; `accept_resumed`, `connect_resumed` and `read_resumed` are what follows the
sleep. The chip and the peers are external (`PeerConnects`, `PeerSends`, `Transmits`...), as far as the
driver can tell them. `sys_close` and `sys_kill` call `active_close` only for the owner of a File,
which for sockets is always 0, so a socket is never released and `active_close`
and `destroy_socket` are not reached. The three mutexes are held within one call only.

### Screen and Terminal

`Screen` has each operation of `monitor_text_mode.c` as an operator on [chars, row, col, top, bottom]; the
cells are numbered in reading order, as the code walks when it shifts a line over a row's end.
`Terminal` sends the scan codes of keys byte by byte (`Strike`, `Hold` put them on the wire,
`keyboard_interrupt_handler` takes one), edits the line in `tty`, echoes on `screen`, and lets one
program read, write and change modes. Three ghosts follow the keys as a person sees them: `held`,
`line` and `expected`; `anchor` is where the line began on the screen.

### Loader

`Loader` follows a program from its file to a process and back: `load_exec` and what it calls as
operators with the names of the functions, `sys_spawn_process` with `create_blank_process` and
`fill_process_and_spawn` around it (`spawn_rejected`, `spawn_undefined`, `spawn_refused`,
`spawn_placed`), `sys_kill` and `sys_wait`. One call is one step; `failed` names the one of its
allocations that is refused, and `heap` has the blocks by the spawn that made them, so that what no
process owns can be told. The image is extended by `krealloc`, which leaves what was there
(`Junk`). An import is resolved along the chains of the library's hash table; the function's place
depends on where the library's file lies at that time (`file_begin`), and `ramfs_write` may move it.
What the linker writes (segments, symbols, the hash table) is a constant; the hash of a name is any
number. `LinkerAssumption` says what is relied on of it: the segments of an executable lie in its
file one behind the other, its `bss` behind them (`Linked`), and every symbol of a library is found on
the chain of its hash (`Hashed`).

## 4. What is checked

| run | shows | bounds |
|---|---|---|
| `heap` | types; `BlocksDisjoint`, `ListSorted`, `AccountingExact`, `ProcessAccounting`; `ImplementsBlockStore` | 80 bytes, three sizes: a gap can be too small, exact or too large; the third or fourth block meets the limit; one process and the kernel |
| `table` | types; `ChildrenAreOurs`, `CountFollowsTable`, `NoLostWakeUp`, `SleepersAreQueued`; `ImplementsProcessLife` | three slots, five pids: slots are reused, the table overflows; two readers; at most one signal queued by kill |
| `signals` | `NoLostChildExit`, `RunningOffCpu`, `IdlesOnlyWhenIdle`, `ReadyRuns` | three slots, no reuse, handlers for SIGTERM, kills of anyone and of pid 0; no keyboard |
| `userland` | `NoFault`, `RoomToSpawn`, `OneShell`, `ZombiesAreReaped`, `TypedLineIsRead`; no deadlock | four slots, init, LED, shell and six commands one after another |
| `fat16` | types; `ChainsDisjoint`, `ReadBack`; `LeaksOnlyOnFailure` | five clusters in three sectors of three entries, the last sector not full; three directory entries; three names (one cut to another's short name, one without a dot); two handles; files of two clusters |
| `files` | types; `TreeExact`, `FilesAreOwned`, `NoUndefinedAccess`, `Delivered` | a parent and a child, five descriptors (two of them free for files), three inodes, one pipe with two bytes; paths down, absolute and up |
| `sockets` | types; `BytesInOrder`, `ReturnsAreTrue`, `NoUndefinedAccess` | two TCP sockets, two processes; buffers of two bytes and pointers modulo four, so both wrap; four bytes in and three out |
| `terminal` | types; `LineDelivered`, `ScreenShowsLine` | a screen of two rows of four, a buffer of five; nine keys; two reads or writes |
| `loader` | types; `LoadedAsLinked`; `LostByFailedSpawnOnly` | ten executables, five of which the rules exclude; images of four cells that grow; three symbols in one hash chain; two entries in the table; four spawns with at most one refused allocation each; one move of the library |
| `heap_end`, `handler`, `wait` | expected violations, section 5 | |

`MaxPid` and `MaxPending` bound the pid counter and the SIGTERMs kill may
queue; `AddressBound` bounds the addresses chunks get; `MaxInode`, `MaxPipe`, `MaxTransfer`, `MaxSize`,
`MaxWrite`, `MaxSent`, `MaxIn`, `MaxOut`, `MaxCalls`, `MaxSpawns` and `MaxMoves` bound files, transfers and calls. The real table has 20 entries
(`proc.c:17`); the code treats them uniformly, and three are enough for init, a
parent and a child of its own, with reuse. Deadlock is not checked in `heap` (the
model stops where the code's behaviour is undefined), in `table` and
`signals` (the same, and pids run out), nor in the five runs on files, sockets, the
terminal and the loader, whose bounds run out; it is in `userland`.

### What programs refrain from

The interfaces of files, sockets and the terminal are fragile: several sequences of legal calls
reach undefined behaviour or lose data. Each of these is in the model; a set `Rules` says
which of them programs, peers and the person at the keyboard refrain from, so that the runs show that
*nothing else* goes wrong. Without a rule TLC finds:

| rule | without it |
|---|---|
| Files: "close the highest" | `files.count` is compared with a number (`file.c:257`): an open descriptor is refused; at exit `sys_kill` follows a null entry (`NoUndefinedAccess`) |
| "close what is open" | `sys_close` follows a null pointer |
| "wait for sharers" | the owner frees a File the other still uses |
| "unlink the last" | another file's entry goes, the freed one's stays (`TreeExact`); a freed inode is used |
| "write at the end" | overwriting adds to the size: a later read returns bytes nobody wrote (`Delivered`) |
| "one pipe each" | the second `sys_pipe` of a process moves its first pipe (`proc.c:630`): the Files of its ends lead to freed memory (seen with `MaxPipe` 2 and seven descriptors) |
| "one reader" | two readers that wait get the same bytes |
| "read what is there" | the second read copies from behind the buffer |
| "list once" | the same for a directory |
| "name what exists" | ".." of the root, or a new file in a directory that does not exist, follows null |
| Sockets: "someone waits" | `eth_irq` follows a null process |
| "one socket each" | accept and connect return on an event of another socket (`ReturnsAreTrue`) |
| "transfer when told" | a read or write on a connection that is not there: an empty read, or an endless loop |
| "stay" | `eth_irq` makes a dead process ready |
| "frames fit" | the last piece of a long frame is read from behind it |
| Terminal: "short lines" | the buffer overflows; the last column's character is replaced by the end mark |
| "off the corner" | Enter in the last cell writes below the screen |
| "no typing ahead" | keys between a line and its read are put behind its end and lost |
| "one of a pair" | both Shift or both Ctrl keys are held: releasing one of them releases both |
| "plain keys" | Escape swallows the two keys after it; Enter and arrows lose bytes in raw mode |
| "empty ^C" | the interrupted line stays for the next reader |
| "between lines" | output and mode changes move the cursor away from the line |
| "inside" | the cursor leaves the screen to the left of its first or the right of its last cell, or is put outside it (row 0, a column too far); a scrolling area ends above the last row |
| "room" | the terminator is written behind the caller's buffer |
| Loader: "memory for the image" | the null page is followed (`loader.c:603`) |
| "one library" | `static_base` is what `kmalloc` left in the page, and is freed; or a null Dentry or a missing `.dynamic` is followed |
| "known symbols" | an import that the library lacks leads to the start of its data |
| "early bss" | zeroed cells beyond the first 1024 bytes hold what was in the heap |
| "library stays" | the imports of running processes lead to where the library was |

`Fat16` has two such assumptions as constants: `UnlinkOpen` FALSE (a file is not unlinked while
it is open; its inode would lead into another file) and `CachedAtMount` {0} (`FAT16_mount` fills
the cache with sector 0 but leaves its number as `kmalloc` found it, `fat16.c:795`). And `RootSector` lies beyond
the clusters: since `first_cluster` and `absolute_first_sector` are one field, a file whose first
cluster has the number of the root directory's sector is taken for the root directory, and with
`RootSector` 4 TLC finds `ReadBack` violated.

### Fairness

SysTick comes every 5 ms and handler-mode code runs to its end: weak fairness of
`Tick`, `ContextSwitch` and the resumed calls. For init and the shell, which make
their calls as soon as they are given the processor often enough, strong fairness
of `InitRuns` and `ShellGetsOn`. Nothing is assumed of commands, the LED process and
the user.

Every property has a mutant: an operator next to the one it replaces, marked
`Mutant:`, that changes the code the way a plausible slip would; with it TLC finds
the property violated.

## 5. What was found

* `heap_end`: the limit in `kmalloc` compares the sum of live sizes with the size of
  the heap. Chunks are placed by address, the gap below the first chunk is never
  used again, and `krealloc` of the last chunk checks nothing, so a chunk can lie
  past `__heap_end__`, where the kernel stack begins.
* `handler`: `sys_sigreturn` leaves `kernel_mode` set. The next time the process is
  chosen, its registers are taken from a kernel stack on which none were saved.
* `wait`: a killed reader stays in the wait queue. After the user has killed the
  shell, a line typed ahead wakes the next shell out of `wait`, which reaps
  `children[-1]`.

Other disagreements met while modelling are in the table of rules above and in the hazards. Three
more: `accept_socket` returns success after its sleep whatever woke it, the entry in
`socket_waiting_processes` for a socket the process used before is never cleared, and sockets are never
released, so that an end of the old connection ends the accept on the new socket (`server.c`
opens a new one for every connection; `docs/accept.htm` promises an established one); after LED and shell were killed the entry at the head of the terminal's queue belongs to
a blank slot and no reader is ever woken again (the TODO at `resources.c:11` knows of it; `TypedLineIsRead` is
claimed of sessions without it); and on a freshly formatted volume the first write fails with ENOENT,
because `adjust_allocated_clusters` refuses cluster 2, which it has just marked
(`fat16.c:556`), and loses it (`LeaksOnlyOnFailure` allows that). Outside the models, the shell ignores
the result of `spawn` and waits (`shell.c:219`): after a file that is not executable it sleeps for ever, since
it has no child.

## 6. What is proved

`HeapProofs`, for every heap, word size, set of requests and set of processes
allowed by `HeapAssumption`:

* `TypeCorrect` (`TypeOK`), `NoOverlap` (`BlocksDisjoint`), `ListOrder`
  (`ListSorted`), all from `Invariance == Spec => []IInv`;
* `Refinement == Spec => ImplementsBlockStore`.

`IInv` strengthens them: `WellFormed` (addresses and sizes are multiples of four and
blocks are apart, whether or not the list is intact) and `Ordered` (from `head` the
chunks form one list in address order, with a last one and a predecessor for
each but the first). Neither is inductive alone: a new chunk lands in free space because
its predecessor's `next` is the nearest chunk above, and the list stays sorted because the
new chunk is between the two. A refused request breaks the list but moves no chunk, which is
why `Ordered` is claimed of intact heaps and `WellFormed` of all.
`InsertSound` and `RemoveSound` carry the argument for the two list operations;
the actions follow from them.

* `AccountingCorrect` (`AccountingExact`) and `ProcessAccountingCorrect` (`ProcessAccounting`),
  from `AccountInvariance == Spec => []AccountInv`, on top of `IInv`.

The totals are sums over sets of blocks, and what a sum over a set is needs an induction over its
subsets. The prover cannot instantiate the induction theorems of its library; `SubsetInduction` does
it directly: of the cardinalities of the subsets for which the claim fails there would be a
least, by the well-foundedness of the natural numbers. Then `SumExists`, what one more and one
less block add (`BytesRemoved`), and that no total wraps at 2^32: blocks lie apart below
`AddressBound`, so their sizes add up to less than that (`BytesFit`).

`SchedulerProofs`, for tables of every length of at least two (`SchedulerAssumption`) and for
arbitrary programs:

* `TypeCorrect` (`TypeOK`), `ChildrenCorrect` (`ChildrenAreOurs`), `ChildExitCorrect`
  (`NoLostChildExit`), `WakeUpCorrect` (`NoLostWakeUp`) and `SleepersCorrect`
  (`SleepersAreQueued`), all from `Invariance == Spec => []IInv`.

The properties are not inductive alone. `wait` blanks the entry of a child, so a
pointer from another parent must not lead there: `Family` says that each child is
once in the table of the parent it names, and that `children_count` counts the
indices in use. A slot is used again, so `Numbered` keeps pids unique and init
without a parent. The end of a read removes the head of the queue, whoever it is: a
reader stays queued only because the queue is never shorter than the number of blocked
reads (`Queue`), and the counting that shows it is why `Reading` looks at the frame on the
kernel stack rather than at the state, which signals change. `Vacant` is what the checks
of `stack_page_ptr` against null rely on.
All actions but `spawn` and the end of `wait` leave families alone; for them `Quiet`
(nobody is newly asleep, dead or reading, except a death that its parent is told of) is
shown change by change and one lemma concludes. `MaxPid` and `MaxPending` occur in guards
only, and the theorems hold for every value of them.

The second half of `SchedulerProofs`, on top of that and with no further assumption:

* `LifeRefined` (`ImplementsProcessLife`), `CountCorrect` (`CountFollowsTable`, its upper
  bound too), `NobodyIsForgotten` (`RunningOffCpu`) and `IdleCorrect`
  (`IdlesOnlyWhenIdle`), from `LifeInvariance == Spec => []LifeInv`.

`StepEffect` says once and for all what a step does to the table: a process dies, is
born, is refused a place, is waited for, or no pid and no stack changes. The count, the
stacks and the refinement each follow from these five kinds, action by action only where it
matters which one it is. `LifeInv` adds to `IInv` who may be
RUNNING off the processor (`OffCpu`: only who handles a signal in the kernel), that a dead
process has given back its stack (`DeadFreed`), that the count leaves room for the empty
entries but for one refused spawn (`Reckoned`), and that more than one process is counted
while the processor idles (`NotAlone`: with one, the scheduler would choose the idle
processor again without a look at the table). A refused birth is a step of `ProcessLife` of its own:
the pid is used up although no process has it.

`SocketsProofs`, for every number of sockets and processes, every size of buffer and every modulus
that is a multiple of it (`SocketsAssumption`):

* `TypeCorrect` (`TypeOK`) and `OrderCorrect` (`BytesInOrder`), whatever programs and peers do;
* `ReturnsCorrect` (`ReturnsAreTrue`) and `AccessCorrect` (`NoUndefinedAccess`) where
  they keep the rules (`Rules = AllRules`), from `EventInvariance`.

A ring buffer holds byte number j in cell `j % BufferSize`, and its pointers are the
numbers of the next byte to read and to write modulo `RegModulus` (`Holds`). That the 16-bit
pointers wrap is harmless because the size of the buffer divides their modulus (`RemainderTwice`)
and is smaller, so that an empty buffer differs from a full one. For the events, `EventInv` says that
whoever waits for a socket is its living owner, and that each event noted for it either agrees with
its state or was made stale by its owner's own call. `Nobody` is no process, as 0 is no address.

`LoaderProofs`, for every set of executables and library that a linker makes (`LinkerAssumption`)
and every size of the table and of the first buffer:

* `TypeCorrect` (`TypeOK`) and `LostCorrect` (`LostByFailedSpawnOnly`), whatever rules the
  executables break;
* `LoadedCorrect` (`LoadedAsLinked`) where they keep them (`Rules = AllRules`).

The loops over segments and along a hash chain are functions of the number of steps. TLA+'s
choice of such a function is justified by a set that is climbed from 0 (`Climb`, from the
well-foundedness of the natural numbers): `PagesExist` and `WalkExists`. `Copied` keeps what earlier
segments left, although `krealloc` fills what it adds with anything, because segments lie one
behind the other; a look-up ends at its symbol because `Hashed` puts it on the chain. Then `LoadInv`
follows the blocks of the heap: each belongs to a process, or to a spawn that failed
half-way.

`FilesProofs`, for every number of processes, descriptors, pipes and inodes, all sets of paths and all
sizes of files and pipes (`FilesAssumption`, `RamFsAssumption`), where programs keep the rules of section 4
(`Rules = AllRules`):

* `TypeCorrect` (`TypeOK`), `TreeCorrect` (`TreeExact`), `OwnersCorrect` (`FilesAreOwned`),
  `AccessCorrect` (`NoUndefinedAccess`) and `DeliveryCorrect` (`Delivered`), from
  `FilesInvariance == Spec => []FilesInv`.

`FilesInv` has three layers, each an operator on the values it speaks of, so that what a call
does to them are lemmas about values: `Tree` (an entry of a directory is the only one of its
inode, which knows the directory; bytes below the size are the ones that belong there), `Tables` (the
descriptors of a living process are exactly those below its count, each for a File of its own;
a File lies at the home of the descriptor its owner has it at, so that the next one's home is free), and
`Fits` (a File refers to an inode of its kind, or to a pipe of its owner of which it is the only
such end; its position is what was taken out of that pipe or put into it; who waits for a
pipe is the only one, at its start; a working directory is a directory). None of them is inductive
without the rules: closing out of order leaves a gap in `Tables`, unlinking a file that is not the
last breaks `Tree`, a second reader breaks `Fits`. The path walk ends in a directory or nowhere
(`WalkLeads`, again by climbing). The bounds `MaxTransfer`, `MaxSize` and `MaxSent` occur in guards and
types only.

`UserlandProofs`, for tables of every length of at least four and any number of commands
(`UserlandAssumption`):

* `OneShellCorrect` (`OneShell`), whomever the user kills, from `RolesInvariance`;
* `NoFaultCorrect` (`NoFault`) and `RoomCorrect` (`RoomToSpawn`) where the user kills the LED process or
  nobody (`Sessions \subseteq SUBSET {"LED"}`), from `SessionInvariance == USpec => []SInv`.

Both invariants extend `LifeInv` of the scheduler. `Roles` says which program is in which place and
that, while a shell lives, init waits for its pid; a second shell would need that pid to be
gone. `NoFault` needs more, since a parent that leaves its sleep in `wait` without a dead child reaps
`children[-1]`. `Awaits` says that it leaves it for a dead child only; as signals end that sleep too,
nobody may send one to init or the shell (`Alive`), and SIGCHLD comes with a death and is handled
before the parent runs again (`Running`). The kill of the LED process is typed at the shell, and
the shell acts on a line only while the LED process is calm (`Lines`): neither dead
nor about to be killed, so that the pid it names is LED's. `Tree` and `Boot` say who started
whom; from them, and from `Reckoned`, follows that a place is free whenever one of them
spawns: LED, one shell and no command are all there can be. The hypothesis is needed. After a
kill of the shell `NoFault` is false, and the run `wait` shows how (section 5).

`Fat16Proofs`, for every number of clusters, sectors, names, handles and directory entries:

* `TypeCorrect` (`TypeOK`), `ChainsCorrect` (`ChainsDisjoint`), `ReadBackCorrect` (`ReadBack`) and
  `LeaksCorrect` (`LeaksOnlyOnFailure`), from `Invariance == Ordinary => (Spec => []IInv)`.

`IInv` says that there are counts N and paths P such that file e has the clusters P[e][0] to
P[e][N[e]-1] and no other file has one of them (`Files`), that each byte below its size is the one
written there (`Bytes`), that the cache holds what the card has (`Consistent`), and that an open
inode's entry is live (`HandlesAgree`). That the paths are not fixed by the state but
claimed to exist keeps recursion out of the invariant; an action gives the new ones. Each loop of the
code is a lemma about `Looped` (`LongerReaches`, `DeleteLoop`, `Released`...). The hypotheses:
`Small`, at most 65520 clusters, so that no cluster has the number of a mark (FAT16 allows that many
but for a few); `CachedAtMount` {0} and `UnlinkOpen` FALSE as in section 4; and for `ReadBackCorrect`
that `RootSector` is not the number of a cluster. Section 4 says what goes wrong without them.

`TerminalProofs`, for screens and buffers of every size and any number of reads and writes, where the
person at the keyboard and the program keep the rules (`Rules = AllRules`):

* `TypeCorrect` (`TypeOK`), `LineCorrect` (`LineDelivered`) and `ScreenCorrect`
  (`ScreenShowsLine`), from `TerminalInvariance`.

The invariant relates three views of a line. `Holds`: the buffer has the line, as edited, or what the
next read returns. `Shows`: the line stands in one row of the screen, the cursor where it is in
the line and, after an untouched start, nothing behind it. `Wired`: the flags of the decoder and the bytes still on
the wire agree with the keys that are held. A byte of a scan code announces something, toggles a
modifier or strikes a key (`ByteTaken`); a struck key changes buffer, line and screen alike
(`LetterTyped`, `BackspaceTyped`, `LeftTyped`...), because its echo is a sequence of control characters whose
effect on a row is what the edit does to a line (`ByteInserted`, `LeftShown`, `RightShown`).

What stays with TLC, and why. Liveness (`ReadyRuns`, `ZombiesAreReaped`, `TypedLineIsRead`)
and the deadlock check of `userland`: fairness and ENABLED are outside the prover's reach. Of `Userland`,
sessions in which the shell is killed, for which only `OneShell` holds. And of `Sockets`, `Loader`,
`Files`, `Fat16` and `Terminal` what goes wrong without a rule or a hypothesis: a theorem says what
holds with all of them. Every invariant that a passing run checks is a theorem.

## 7. What is not modelled

Drivers that only access registers (their effect is the hardware's), VGA signal generation and
fonts, the C library, start-up code, and the unpacking of the archive of programs (a sequential
transformation of a file the build makes). Of modelled parts: raw and UDP sockets; subdirectories
and `readdir` of FAT16, the partition table, transfers that fail; getcwd, fstat, ioctl and device
files; colours; Alt and Print Screen (`print_screen` opens and never closes a file in the table of whichever
process it interrupts); the UART's copy of the echo; allocation failures in the kernel. A reset
*within* a FAT16 call is not modelled (`fat16.c:575` links a new cluster before it marks
it), nor is it claimed that a process asleep on a socket is woken: `eth_irq` notes the first socket with
an event and clears them all. `PROJECT.json` lists each part with its status and each hazard with
the properties it is covered by, or the reason it is not.
