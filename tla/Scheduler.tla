----------------------------- MODULE Scheduler -----------------------------
(***************************************************************************)
(* Processes, the round-robin scheduler and signals: src/kernel/proc.c,    *)
(* signal.c, and the parts of isr.S and ctx.S that enter and leave them.   *)
(*                                                                         *)
(* All exceptions have the same priority, so handler-mode code is never    *)
(* interrupted.  A system call is one action, except that one which blocks *)
(* leaves its frame on the kernel stack of its process and is resumed by   *)
(* the scheduler.  The programs are arbitrary: in user mode a process may  *)
(* make any call at any time, and SysTick may interrupt it before any.     *)
(*                                                                         *)
(* The files, pipes and heap pages that sys_kill gives back, and what a    *)
(* failed kmalloc does, are not part of this module; an exit code is data  *)
(* that nothing here depends on.                                           *)
(***************************************************************************)
EXTENDS Integers, Sequences, FiniteSets

CONSTANTS
  max_processes,   \* scheduler.max_processes, the length of the table
  MaxPid,          \* bound of the model: no pid above it is handed out
  MaxPending,      \* bound of the model: kill queues no SIGTERM beyond it
  Catchable,       \* the signals programs install handlers for
  Killable,        \* the pids programs pass to kill
  Readers          \* the pids of the programs that read the terminal

Signals == {"SIGCHLD", "SIGHUP", "SIGTERM"}   \* those that are ever queued

ASSUME SchedulerAssumption ==
  /\ max_processes \in Nat \ {0, 1}
  /\ MaxPid \in Nat \ {0}
  /\ MaxPending \in Nat
  /\ Catchable \subseteq Signals
  /\ Killable \subseteq 0 .. MaxPid
  /\ Readers \subseteq 1 .. MaxPid

Slots == 0 .. max_processes - 1
Null == -1                       \* the null pointer to a process
Idle == max_processes            \* scheduler.process_idle, not in the table
PID_INIT == 1

VARIABLES
  processes,        \* [Slots -> Process]
  current_process,  \* a slot or Idle
  current_index,    \* the static of scheduler_get_next_process
  processes_count,
  next_pid,         \* the static of create_blank_process
  mode,             \* "user": current_process runs in thread mode;
                    \* "kernel": its blocked system call was just resumed;
                    \* "switch": context_switch is about to choose
  damage,           \* "none", or the first undefined access (see below)
  read_wait,        \* the terminal's queue of waiting processes
  newline_present   \* the terminal has a line to read

tty == <<read_wait, newline_present>>
vars == <<processes, current_process, current_index, processes_count,
          next_pid, mode, damage, read_wait, newline_present>>

\* A table entry of zeroes.  `children' has max_children_count entries;
\* `handlers' are the signals with a handler of the program's own; `stack' is
\* what stack_page_ptr points to; `frame' is the system call whose saved
\* registers the kernel stack holds, if any.
Blank == [pid |-> 0, pstate |-> "NEW", kernel_mode |-> FALSE,
          parent |-> Null, children |-> <<>>, children_count |-> 0,
          max_children_count |-> 0, pending_signals |-> <<>>,
          signal_handled |-> FALSE, handlers |-> {}, stack |-> "null",
          frame |-> "none"]

\* Once memory that is not there is read, nothing that follows is defined, and
\* the model stops:
\*   "reap"   sys_wait reads children[-1]
\*   "null"   a pointer to a process is null
\*   "freed"  a process runs on its freed stack
\*   "twice"  sys_kill frees what a dead process has freed before
\*   "stale"  registers are restored from where none were saved
\*   "wiped"  a child's table of -1 children is cleared, 4 GiB from its start
Damages == {"none", "reap", "null", "freed", "twice", "stale", "wiped"}

Broken(d) ==
  /\ damage' = d
  /\ UNCHANGED <<processes, current_process, current_index, processes_count,
                 next_pid, mode, tty>>

-----------------------------------------------------------------------------
(* The table                                                               *)

\* scheduler_get_process_by_pid: the first entry with that pid, which for 0
\* is an empty one.
WithPid(pid) == {s \in Slots : processes[s].pid = pid}
ByPid(pid) ==
  IF WithPid(pid) = {} THEN Null
  ELSE CHOOSE s \in WithPid(pid) : \A t \in WithPid(pid) : s <= t

Empty == {s \in Slots : processes[s] = Blank}

\* Mutant: one process too many is accepted.
scheduler_can_populate_one_more == processes_count <= max_processes + 1

scheduler_can_populate_process == processes_count <= max_processes

\* The entry scheduler_populate_process writes, if there is one.
FirstEmpty == CHOOSE s \in Empty : \A t \in Empty : s <= t

\* Mutant: an exited child stays in its parent's table.
Evaporated_dangling(t, p, i) ==
  [t EXCEPT ![t[p].children[i]] = Blank, ![p].children_count = @ - 1]

\* Mutant: the parent still counts it.
Evaporated_counted(t, p, i) ==
  [t EXCEPT ![t[p].children[i]] = Blank, ![p].children[i] = Null]

\* sys_wait's release of the child at index i of process p: the entry is
\* evaporated, the parent's index is free again.
Evaporated(t, p, i) ==
  [t EXCEPT ![t[p].children[i]] = Blank,
            ![p].children_count = @ - 1,
            ![p].children[i] = Null]

ChildIndices(p) == 0 .. processes[p].max_children_count - 1

\* The indices of the children of p that sys_wait can reap.
Zombies(p) ==
  {i \in ChildIndices(p) :
     /\ processes[p].children[i] # Null
     /\ processes[processes[p].children[i]].pstate = "TERMINATED"}

-----------------------------------------------------------------------------
(* Signals and death                                                       *)

\* signal_notify; no mask is ever set but the idle process's.
signal_notify(t, s, sig) ==
  [t EXCEPT ![s].pending_signals = Append(@, sig)]

\* What sys_kill's loop over the first children_count indices reaches.  After
\* a child was reaped the table may have a hole among them.
HungUp(t, s) == {t[s].children[i] : i \in 0 .. t[s].children_count - 1}

\* sys_kill with any signal but SIGTERM, on the process in slot s: the first
\* thing it does that is undefined.
KillDamage(t, s) ==
  CASE t[s].stack = "freed"                            -> "twice"
    [] t[s].parent = Null \/ Null \in HungUp(t, s)     -> "null"
    [] OTHER                                           -> "none"

\* Mutant: a process dies without telling its parent.
Killed_silently(t, s) ==
  LET hup == [x \in Slots |-> IF x \in HungUp(t, s)
                              THEN signal_notify(t, x, "SIGHUP")[x]
                              ELSE t[x]]
  IN  [hup EXCEPT ![s].pstate = "TERMINATED",
                  ![s].pending_signals = <<>>,
                  ![s].stack = "freed"]

\* The table after it.
Killed(t, s) ==
  LET chld == signal_notify(t, t[s].parent, "SIGCHLD")
      hup  == [x \in Slots |-> IF x \in HungUp(t, s)
                               THEN signal_notify(chld, x, "SIGHUP")[x]
                               ELSE chld[x]]
  IN  [hup EXCEPT ![s].pstate = "TERMINATED",
                  ![s].pending_signals = <<>>,
                  ![s].stack = "freed"]

\* init_default_sighandlers: SIGCHLD is ignored, the others terminate.
Terminates(s, sig) ==
  sig \in {"SIGHUP", "SIGTERM"} \ processes[s].handlers

-----------------------------------------------------------------------------
(* System calls.  Each is made by current_process in user mode; isr_svcall *)
(* sets kernel_mode before and resets it after a call that returns.        *)

InUserMode(p) == mode = "user" /\ current_process = p /\ p \in Slots

\* Mutant: the kernel mode flag is not reset on the way out.
Returning_flagged(t, p) == [t EXCEPT ![p].kernel_mode = TRUE]

\* .svcall_exit
Returning(t, p) == [t EXCEPT ![p].kernel_mode = FALSE]

\* A call that blocks: its frame is saved on the kernel stack of p, and p is in
\* state `pstate` while other processes run.
Blocking(t, p, call, pstate) ==
  [t EXCEPT ![p].kernel_mode = TRUE, ![p].frame = call, ![p].pstate = pstate]

\* spawn and spawnp: create_blank_process, then fill_process_and_spawn.  A new
\* process is only found by its parent's waits if the parent has an index free.
NewChild(p) ==
  [Blank EXCEPT !.pid = next_pid, !.pstate = "READY", !.parent = p,
     !.max_children_count = processes[p].max_children_count - 1,
     !.children = [i \in 0 .. processes[p].max_children_count - 2 |-> Null],
     !.stack = "page"]

FreeIndices(p) == {i \in ChildIndices(p) : processes[p].children[i] = Null}

Adopted(t, p, s) ==
  IF FreeIndices(p) = {} THEN t
  ELSE LET i == CHOOSE i \in FreeIndices(p) : \A j \in FreeIndices(p) : i <= j
       IN  [t EXCEPT ![p].children[i] = s, ![p].children_count = @ + 1]

spawn(p) ==
  /\ InUserMode(p)
  /\ next_pid <= MaxPid
  /\ scheduler_can_populate_process
  /\ Empty # {}
  /\ processes[p].max_children_count > 0
  /\ processes' =
       Returning(Adopted([processes EXCEPT ![FirstEmpty] = NewChild(p)],
                         p, FirstEmpty), p)
  /\ processes_count' = processes_count + 1
  /\ next_pid' = next_pid + 1
  /\ UNCHANGED <<current_process, current_index, mode, damage, tty>>

\* The table is full but the count is not beyond its limit: the count and the
\* pid advance, and the call fails.
spawn_unplaced(p) ==
  /\ InUserMode(p)
  /\ next_pid <= MaxPid
  /\ scheduler_can_populate_process
  /\ Empty = {}
  /\ processes' = Returning(processes, p)
  /\ processes_count' = processes_count + 1
  /\ next_pid' = next_pid + 1
  /\ UNCHANGED <<current_process, current_index, mode, damage, tty>>

\* The count is beyond its limit: the call fails at once.
spawn_refused(p) ==
  /\ InUserMode(p)
  /\ ~scheduler_can_populate_process
  /\ processes' = Returning(processes, p)
  /\ UNCHANGED <<current_process, current_index, processes_count, next_pid,
                 mode, damage, tty>>

\* A descendant so remote that it may have no children: max_children_count - 1
\* wraps.
spawn_wipes(p) ==
  /\ InUserMode(p)
  /\ next_pid <= MaxPid
  /\ scheduler_can_populate_process
  /\ Empty # {}
  /\ processes[p].max_children_count = 0
  /\ Broken("wiped")

\* signal(sig, handler)
sys_signal(p, sig) ==
  /\ InUserMode(p)
  /\ processes' = Returning([processes EXCEPT ![p].handlers = @ \cup {sig}], p)
  /\ UNCHANGED <<current_process, current_index, processes_count, next_pid,
                 mode, damage, tty>>

\* kill(pid, SIGTERM) only queues the signal.
sys_kill_term(p, pid) ==
  LET s == ByPid(pid)
  IN  /\ InUserMode(p)
      /\ s # Null
      /\ Len(processes[s].pending_signals) < MaxPending
      /\ processes' = Returning(signal_notify(processes, s, "SIGTERM"), p)
      /\ UNCHANGED <<current_process, current_index, processes_count,
                     next_pid, mode, damage, tty>>

\* kill with any other signal ends the process then and there.  One that does
\* this to itself goes back to user mode, onto the stack just freed.
sys_kill(p, pid) ==
  LET s == ByPid(pid)
  IN  /\ InUserMode(p)
      /\ s # Null
      /\ IF KillDamage(processes, s) # "none"
         THEN Broken(KillDamage(processes, s))
         ELSE IF s = p THEN Broken("freed")
         ELSE /\ processes' = Returning(Killed(processes, s), p)
              /\ UNCHANGED <<current_process, current_index, processes_count,
                             next_pid, mode, damage, tty>>

\* current_process ends, with that kernel_mode, and another one is chosen.
Exit(p, flag) ==
  /\ InUserMode(p)
  /\ IF KillDamage(processes, p) # "none"
     THEN Broken(KillDamage(processes, p))
     ELSE /\ processes' = [Killed(processes, p) EXCEPT ![p].kernel_mode = flag]
          /\ mode' = "switch"
          /\ UNCHANGED <<current_process, current_index, processes_count,
                         next_pid, damage, tty>>

sys_exit(p) == Exit(p, TRUE)

\* A stack overflow: the handler kills the process and switches.
isr_usagefault(p) == Exit(p, processes[p].kernel_mode)

\* Mutant: any child will do.
Reap_any(p) ==
  {i \in ChildIndices(p) : processes[p].children[i] # Null}

\* The child sys_wait reaps: the last one that has terminated.
Reapable(p) == Zombies(p)

\* sys_wait once it does not block: the second half of the function.
Reap(p) ==
  IF Reapable(p) = {} THEN Broken("reap")
  ELSE LET i == CHOOSE i \in Reapable(p) : \A j \in Reapable(p) : j <= i
       IN  /\ processes' =
                Returning([Evaporated(processes, p, i)
                             EXCEPT ![p].pstate = "RUNNING",
                                    ![p].frame = "none"], p)
           /\ processes_count' = processes_count - 1
           /\ mode' = "user"
           /\ UNCHANGED <<current_process, current_index, next_pid, damage, tty>>

sys_wait(p) ==
  /\ InUserMode(p)
  /\ ~processes[p].signal_handled
  /\ IF Zombies(p) # {} THEN Reap(p)
     ELSE /\ processes' =
               Blocking(processes, p, "wait", "WAITING_FOR_CHILD_EXIT")
          /\ mode' = "switch"
          /\ UNCHANGED <<current_process, current_index, processes_count,
                         next_pid, damage, tty>>

\* pipe_read on an empty pipe and mutex_lock on a locked mutex: the process
\* stays ready and tries again whenever it is chosen.
yield(p) ==
  /\ InUserMode(p)
  /\ ~processes[p].signal_handled
  /\ processes' = Blocking(processes, p, "yield", "READY")
  /\ mode' = "switch"
  /\ UNCHANGED <<current_process, current_index, processes_count, next_pid,
                 damage, tty>>

\* Mutant: a read forgets who else is in the queue.
LineRead_alone(t, p, queue) ==
  /\ processes' = Returning([t EXCEPT ![p].frame = "none",
                                     ![Head(queue)].pstate = "READY"], p)
  /\ read_wait' = <<>>
  /\ newline_present' = FALSE
  /\ mode' = "user"
  /\ UNCHANGED <<current_process, current_index, processes_count, next_pid,
                 damage>>

\* The end of wait_event_interruptible and of tty_read, once there is a line.
\* The entry at the head of the queue is taken for the caller's own.
LineRead(t, p, queue) ==
  IF t[Head(queue)].stack = "null" THEN Broken("null")
  ELSE /\ processes' = Returning([t EXCEPT ![p].frame = "none",
                                          ![Head(queue)].pstate = "READY"], p)
       /\ read_wait' = Tail(queue)
       /\ newline_present' = FALSE
       /\ mode' = "user"
       /\ UNCHANGED <<current_process, current_index, processes_count,
                      next_pid, damage>>

tty_read(p) ==
  LET t     == Blocking(processes, p, "read", "WAITING_FOR_RESOURCE")
      queue == Append(read_wait, p)
  IN  /\ InUserMode(p)
      /\ processes[p].pid \in Readers
      /\ ~processes[p].signal_handled
      /\ IF newline_present THEN LineRead(t, p, queue)
         ELSE /\ processes' = t
              /\ read_wait' = queue
              /\ mode' = "switch"
              /\ UNCHANGED <<current_process, current_index, processes_count,
                             next_pid, damage, newline_present>>

\* Mutant: the end of a line wakes nobody.
write_quietly ==
  /\ mode = "user"
  /\ newline_present' = TRUE
  /\ UNCHANGED <<processes, current_process, current_index, processes_count,
                 next_pid, mode, damage, read_wait>>

\* The interrupt of the key that ends a line.  The head of the queue is woken
\* whatever its state, if its entry in the table is in use.
write_to_keyboard_buffer ==
  /\ mode = "user"
  /\ newline_present' = TRUE
  /\ processes' =
       [s \in Slots |->
          IF /\ read_wait # <<>> /\ s = Head(read_wait)
             /\ processes[s].stack # "null"
          THEN [processes[s] EXCEPT !.pstate = "READY"]
          ELSE processes[s]]
  /\ UNCHANGED <<current_process, current_index, processes_count, next_pid,
                 mode, damage, read_wait>>

\* The end of a signal handler.  isr_svcall has set kernel_mode, and nothing
\* resets it.
sys_sigreturn(p) ==
  /\ InUserMode(p)
  /\ processes[p].signal_handled
  /\ processes' = [processes EXCEPT ![p].kernel_mode = TRUE,
                                    ![p].signal_handled = FALSE,
                                    ![p].pstate = "READY"]
  /\ mode' = "switch"
  /\ UNCHANGED <<current_process, current_index, processes_count, next_pid,
                 damage, tty>>

-----------------------------------------------------------------------------
(* The scheduler                                                           *)

\* SysTick pends PendSV, which saves the registers on the process stack and
\* switches (isr_systick, isr_pendsv, scheduler_update_process).
tick ==
  /\ mode = "user"
  /\ processes' =
       IF current_process \in Slots /\ ~processes[current_process].kernel_mode
       THEN [processes EXCEPT ![current_process].pstate = "READY"]
       ELSE processes
  /\ mode' = "switch"
  /\ UNCHANGED <<current_process, current_index, processes_count, next_pid,
                 damage, tty>>

\* Mutant: the search always begins at the start of the table.
After_restarting(n) == (n - 1) % max_processes

\* The n-th slot after current_index, going round the table.
After(n) == (current_index + n) % max_processes

Runnable(s) ==
  processes[s].pending_signals # <<>> \/ processes[s].pstate = "READY"

\* Mutant: the search stops one entry short of a full round.
NextRunnable_short ==
  {n \in 1 .. max_processes - 1 : Runnable(After(n))}

\* The distances at which scheduler_get_next_process finds an entry; it goes
\* round twice before it gives up.
NextRunnable == {n \in 1 .. max_processes : Runnable(After(n))}

\* scheduler_get_next_process
scheduler_get_next_process ==
  IF processes_count = 1 THEN current_process
  ELSE IF NextRunnable = {} THEN Idle
  ELSE After(CHOOSE n \in NextRunnable : \A m \in NextRunnable : n <= m)

\* switch_to_userspace and switch_to_kernelspace, with table t and process s.
ToUser(t, s) ==
  /\ processes' = [t EXCEPT ![s].pstate = "RUNNING"]
  /\ mode' = "user"

ToKernel(t, s) ==
  /\ processes' = t
  /\ mode' = "kernel"

\* The switch once slot s is chosen, by the state of s: a handler that was
\* interrupted, then one pending signal, then a blocked system call, then the
\* program.
Resume(s) ==
  LET p   == processes[s]
      sig == Head(p.pending_signals)
      t   == [processes EXCEPT ![s].pending_signals =
                IF @ = <<>> THEN <<>> ELSE Tail(@)]
      Recall == IF p.kernel_mode THEN ToKernel(t, s) ELSE ToUser(t, s)
  IN  IF p.signal_handled THEN ToUser(processes, s)
      ELSE IF p.pending_signals = <<>> THEN Recall
      ELSE IF sig = "SIGCHLD" /\ p.pstate = "WAITING_FOR_CHILD_EXIT"
           THEN ToKernel([t EXCEPT ![s].pstate = "READY"], s)
      ELSE IF sig \in p.handlers
           THEN ToUser([t EXCEPT ![s].signal_handled = TRUE], s)
      ELSE IF Terminates(s, sig)
           THEN processes' = Killed(t, s) /\ mode' = "switch"
      ELSE Recall

\* What Resume would read that is not there.
ResumeDamage(s) ==
  LET p        == processes[s]
      sig      == Head(p.pending_signals)
      pending  == p.pending_signals # <<>> /\ ~p.signal_handled
      killed   == pending /\ Terminates(s, sig)
      awaited  == /\ pending /\ sig = "SIGCHLD"
                  /\ p.pstate = "WAITING_FOR_CHILD_EXIT"
      recalled == /\ p.kernel_mode /\ ~p.signal_handled
                  /\ ~killed /\ ~(pending /\ sig \in p.handlers)
  IN  CASE p.stack = "null"                            -> "null"
        [] killed /\ KillDamage(processes, s) # "none" ->
             KillDamage(processes, s)
        [] ~killed /\ p.stack = "freed"                -> "freed"
        [] (awaited \/ recalled) /\ p.frame = "none"   -> "stale"
        [] OTHER                                       -> "none"

context_switch ==
  LET s == scheduler_get_next_process
  IN  /\ mode = "switch"
      /\ IF s = Idle
         THEN /\ current_process' = Idle
              /\ mode' = "user"
              /\ UNCHANGED <<processes, current_index, processes_count,
                             next_pid, damage, tty>>
         ELSE IF ResumeDamage(s) # "none" THEN Broken(ResumeDamage(s))
         ELSE /\ current_process' = s
              /\ current_index' =
                   IF processes_count = 1 THEN current_index ELSE s
              /\ Resume(s)
              /\ UNCHANGED <<processes_count, next_pid, damage, tty>>

\* A blocked system call goes on where it stopped.
wait_resumed ==
  /\ mode = "kernel"
  /\ processes[current_process].frame = "wait"
  /\ Reap(current_process)

\* The pipe or the mutex is in the state the call waits for, or it is not.
yield_resumed ==
  /\ mode = "kernel"
  /\ processes[current_process].frame = "yield"
  /\ \/ /\ processes' = Returning([processes EXCEPT
                                      ![current_process].frame = "none"],
                                   current_process)
        /\ mode' = "user"
     \/ /\ processes' =
             Blocking(processes, current_process, "yield", "READY")
        /\ mode' = "switch"
  /\ UNCHANGED <<current_process, current_index, processes_count, next_pid,
                 damage, tty>>

\* The reader is back: it takes the line, or waits again in the state it was
\* woken in.
read_resumed ==
  /\ mode = "kernel"
  /\ processes[current_process].frame = "read"
  /\ IF newline_present THEN LineRead(processes, current_process, read_wait)
     ELSE /\ mode' = "switch"
          /\ UNCHANGED <<processes, current_process, current_index,
                         processes_count, next_pid, damage, tty>>

-----------------------------------------------------------------------------
(* The behaviours                                                          *)

\* After run_process_init: init runs alone, in the first slot.
InitProcess ==
  [Blank EXCEPT !.pid = PID_INIT, !.pstate = "RUNNING",
     !.max_children_count = max_processes - 1,
     !.children = [i \in 0 .. max_processes - 2 |-> Null],
     !.stack = "page"]

Init ==
  /\ processes = [s \in Slots |-> IF s = 0 THEN InitProcess ELSE Blank]
  /\ current_process = 0
  /\ current_index = PID_INIT
  /\ processes_count = 1
  /\ next_pid = PID_INIT + 1
  /\ mode = "user"
  /\ damage = "none"
  /\ read_wait = <<>>
  /\ newline_present = FALSE

Undamaged == damage = "none"

UserStep(p) ==
  \/ spawn(p) \/ spawn_unplaced(p) \/ spawn_refused(p) \/ spawn_wipes(p)
  \/ \E sig \in Catchable : sys_signal(p, sig)
  \/ \E pid \in Killable : sys_kill_term(p, pid) \/ sys_kill(p, pid)
  \/ sys_exit(p) \/ isr_usagefault(p)
  \/ sys_wait(p) \/ yield(p) \/ tty_read(p)
  \/ sys_sigreturn(p)

Tick == Undamaged /\ tick
ContextSwitch == Undamaged /\ context_switch
Resumed == Undamaged /\ (wait_resumed \/ yield_resumed \/ read_resumed)
Interrupt == Undamaged /\ Readers # {} /\ write_to_keyboard_buffer
Program == Undamaged /\ \E p \in Slots : UserStep(p)

Next == Tick \/ ContextSwitch \/ Resumed \/ Interrupt \/ Program

\* SysTick comes every 5 ms, and handler-mode code runs to its end.
Fairness == WF_vars(Tick) /\ WF_vars(ContextSwitch) /\ WF_vars(Resumed)

Spec == Init /\ [][Next]_vars /\ Fairness

-----------------------------------------------------------------------------
(* Properties                                                              *)

SignalQueues == Seq(Signals)
ChildTables == UNION {[0 .. n - 1 -> Slots \cup {Null}] : n \in Slots}

Process ==
  [pid : 0 .. MaxPid,
   pstate : {"NEW", "RUNNING", "READY", "WAITING_FOR_RESOURCE",
             "WAITING_FOR_CHILD_EXIT", "TERMINATED"},
   kernel_mode : BOOLEAN,
   parent : Slots \cup {Null},
   children : ChildTables,
   children_count : Slots,
   max_children_count : Slots,
   pending_signals : SignalQueues,
   signal_handled : BOOLEAN,
   handlers : SUBSET Catchable,
   stack : {"null", "page", "freed"},
   frame : {"none", "wait", "yield", "read"}]

TypeOK ==
  /\ processes \in [Slots -> Process]
  /\ \A s \in Slots : DOMAIN processes[s].children = ChildIndices(s)
  /\ current_process \in Slots \cup {Idle}
  /\ current_index \in Slots
  /\ processes_count \in 1 .. max_processes + 1
  /\ next_pid \in 2 .. MaxPid + 1
  /\ mode \in {"user", "kernel", "switch"}
  /\ damage \in Damages
  /\ read_wait \in Seq(Slots)
  /\ newline_present \in BOOLEAN

Pending(s) == {processes[s].pending_signals[i] :
                 i \in DOMAIN processes[s].pending_signals}

\* A process that sleeps in wait while a child of its own is dead has the
\* SIGCHLD that will wake it: the check sys_wait makes before it sleeps and the
\* notification sys_kill sends leave no gap, whatever handlers and ticks come
\* between.
NoLostChildExit ==
  \A p \in Slots :
    processes[p].pstate = "WAITING_FOR_CHILD_EXIT" /\ Zombies(p) # {}
      => "SIGCHLD" \in Pending(p)

\* A child in a parent's table is a process, and names that parent: wait and
\* kill follow these pointers without a check, while slots are evaporated and
\* used again.
ChildrenAreOurs ==
  \A p \in Slots : \A i \in ChildIndices(p) :
    LET c == processes[p].children[i]
    IN  c # Null => processes[c].pid # 0 /\ processes[c].parent = p

\* processes_count follows the table through spawns, refused spawns and waits: a
\* spawn refused on a full table leaves it one too high, and never more, but
\* for entries that only a signal sent to pid 0 made unusable.
CountFollowsTable ==
  LET used   == Cardinality({s \in Slots : processes[s].pid # 0})
      ghosts == Cardinality({s \in Slots \ Empty : processes[s].pid = 0})
  IN  processes_count - used \in 0 .. 1 + ghosts

\* The only process that is off the processor in state RUNNING, where the
\* scheduler will not find it again, is one interrupted in a signal handler with
\* its kernel_mode set, by the call the handler interrupted or by an earlier
\* sigreturn.
RunningOffCpu ==
  \A s \in Slots :
    processes[s].pstate = "RUNNING" /\ s # current_process =>
      processes[s].signal_handled /\ processes[s].kernel_mode

\* No wake-up is lost: while there is a line, the reader at the head of the
\* queue does not sleep, though entries are taken by processes that did not put
\* them there and their processes are killed.
NoLostWakeUp ==
  newline_present /\ read_wait # <<>> =>
    processes[Head(read_wait)].pstate # "WAITING_FOR_RESOURCE"

\* A reader that sleeps is in the queue.
SleepersAreQueued ==
  \A s \in Slots :
    processes[s].pstate = "WAITING_FOR_RESOURCE" =>
      \E i \in DOMAIN read_wait : read_wait[i] = s

\* The processor idles only when no process is ready and none has a signal
\* pending: scheduler_get_next_process gives up no earlier.
IdlesOnlyWhenIdle ==
  [][mode = "switch" /\ mode' = "user" /\ current_process' = Idle
       => \A s \in Slots : ~Runnable(s)]_vars

\* Round robin starves nobody: a ready process is chosen, killed or signalled
\* in the end, however often others block, exit, kill and signal.
ReadyRuns ==
  \A s \in Slots :
    processes[s].pstate = "READY" ~>
      (current_process = s \/ processes[s].pstate # "READY" \/ ~Undamaged)

\* The refinement: the state of each pid, read off the table.
Life(pid) ==
  IF pid >= next_pid THEN "unborn"
  ELSE IF ByPid(pid) = Null THEN "gone"
  ELSE IF processes[ByPid(pid)].stack = "freed" THEN "zombie" ELSE "live"

Lives == INSTANCE ProcessLife
           WITH Pids <- PID_INIT .. MaxPid,
                life <- [pid \in PID_INIT .. MaxPid |-> Life(pid)]

\* A process dies once, is reaped once and only when dead, and its pid and
\* entry never name another live process.
ImplementsProcessLife == Lives!Spec

\* wait returns the pid of a child, "Otherwise, a value of -1": it does not
\* read beyond the table of children.
WaitFindsAChild == damage # "reap"

\* Registers are restored from the stack they were saved on.
RestoresWhatWasSaved == damage # "stale"
=============================================================================
