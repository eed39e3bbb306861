------------------------------ MODULE Userland ------------------------------
(***************************************************************************)
(* The programs the system boots into, on the kernel of module Scheduler:  *)
(* init (src/init/init.c), the LED process it starts first, the shell gsh  *)
(* (builtins/src/shell.c) and the commands the shell runs.  Module         *)
(* Scheduler lets any process make any call; here each makes the calls of  *)
(* its program, in their order.                                            *)
(*                                                                         *)
(* A command may run for ever, return or overflow its stack.  The user     *)
(* is slower than SysTick, which comes 200 times a second: a line ends     *)
(* when init and the shell have gone to sleep.  kill sends SIGTERM, its    *)
(* default.  Opening and loading the executables succeeds.                 *)
(***************************************************************************)
EXTENDS Scheduler

CONSTANT Sessions   \* which programs the user kills in a session

\* The table holds init, the LED process, the shell and a command; the LED
\* process handles SIGTERM, and the user may name any pid.
ASSUME UserlandAssumption ==
  /\ Sessions \subseteq SUBSET {"LED", "gsh"}
  /\ max_processes >= 4
  /\ "SIGTERM" \in Catchable
  /\ Killable = 0 .. MaxPid

VARIABLES
  at,          \* where the program in each slot is
  shell_pid,   \* the variable of init
  victims      \* what the user kills in this session

uvars == <<vars, at, shell_pid, victims>>

LED_pid == PID_INIT + 1

Goto(p, place) == at' = [at EXCEPT ![p] = place]

\* A program started in the entry that spawn fills.
Spawns(p, then, first) ==
  /\ spawn(p)
  /\ at' = [at EXCEPT ![p] = then, ![FirstEmpty] = first]

\* The process that a wait evaporates in this step.
Evaporating == {s \in Slots : processes[s].pid # 0 /\ processes'[s].pid = 0}

\* Mutant: init takes any dead child for the shell.
AfterWait_any(p, pid) ==
  IF at[p] = "await command" THEN "read" ELSE "spawn shell"

\* init runs a shell again only when the wait returned the pid of the shell.
AfterWait(p, pid) ==
  CASE at[p] = "await command"                  -> "read"
    [] at[p] = "await shell" /\ pid = shell_pid -> "spawn shell"
    [] OTHER                                    -> "await shell"

\* wait goes to sleep, or it returns.
Waits(p) ==
  IF Evaporating = {} THEN UNCHANGED at
  ELSE \E s \in Evaporating :
         at' = [at EXCEPT ![p] = AfterWait(p, processes[s].pid), ![s] = "none"]

-----------------------------------------------------------------------------

PATER_ADAMVS(p) ==
  \/ /\ at[p] = "spawn LED"
     /\ Spawns(p, "spawn shell", "signal")
     /\ UNCHANGED shell_pid
  \/ /\ at[p] = "spawn shell"
     /\ Spawns(p, "await shell", "read")
     /\ shell_pid' = next_pid
  \/ /\ at[p] = "await shell"
     /\ sys_wait(p)
     /\ Waits(p)
     /\ UNCHANGED shell_pid

\* Mutant: the handler returns.
proc1_returning(p) ==
  /\ \/ /\ at[p] = "signal"
        /\ sys_signal(p, "SIGTERM")
        /\ Goto(p, "blink")
     \/ sys_sigreturn(p) /\ UNCHANGED at
  /\ UNCHANGED shell_pid

\* The LED process installs its handler and blinks; the handler exits.
proc1(p) ==
  /\ \/ /\ at[p] = "signal"
        /\ sys_signal(p, "SIGTERM")
        /\ Goto(p, "blink")
     \/ /\ processes[p].signal_handled
        /\ sys_exit(p)
        /\ UNCHANGED at
  /\ UNCHANGED shell_pid

\* init and the shell sleep, and no signal is on its way or being handled.
AtRest ==
  \A s \in Slots :
    /\ processes[s].pending_signals = <<>>
    /\ ~processes[s].signal_handled
    /\ \/ at[s] \in {"none", "signal", "blink", "run"}
       \/ processes[s].pstate \in {"WAITING_FOR_CHILD_EXIT",
                                   "WAITING_FOR_RESOURCE"}

\* read(0, ...) returns in this step, or it goes to sleep.
Reads(p) ==
  IF newline_present /\ ~newline_present' THEN Goto(p, "line")
  ELSE UNCHANGED at

\* The pid the user types: the LED's, or that of the shell itself.
Victim(v) == IF v = "LED" THEN LED_pid ELSE shell_pid

perform_kill(p) ==
  /\ at[p] = "line"
  /\ \E v \in victims : sys_kill_term(p, Victim(v))
  /\ Goto(p, "read")

\* The other builtins, and a kill of a pid that nobody has.
builtin(p) ==
  /\ at[p] = "line"
  /\ InUserMode(p)
  /\ Goto(p, "read")
  /\ UNCHANGED vars

\* Mutant: the shell does not wait for its commands.
run_program_background(p) == at[p] = "line" /\ Spawns(p, "read", "run")

run_program(p) ==
  \/ at[p] = "line" /\ Spawns(p, "await command", "run")
  \/ at[p] = "await command" /\ sys_wait(p) /\ Waits(p)

shell(p) ==
  /\ \/ at[p] = "read" /\ tty_read(p) /\ Reads(p)
     \/ perform_kill(p)
     \/ builtin(p)
     \/ run_program(p)
  /\ UNCHANGED shell_pid

command(p) ==
  /\ at[p] = "run"
  /\ sys_exit(p) \/ isr_usagefault(p)
  /\ UNCHANGED <<at, shell_pid>>

-----------------------------------------------------------------------------

UInit ==
  /\ Init
  /\ at = [s \in Slots |-> IF s = 0 THEN "spawn LED" ELSE "none"]
  /\ shell_pid = 0
  /\ victims \in Sessions

Kernel ==
  /\ Tick \/ ContextSwitch \/ (AtRest /\ Interrupt)
  /\ UNCHANGED <<at, shell_pid>>

\* A blocked call of a program goes on, or returns to it.
Returns ==
  /\ Undamaged
  /\ \/ wait_resumed /\ Waits(current_process)
     \/ read_resumed /\ Reads(current_process)
  /\ UNCHANGED shell_pid

InitRuns == Undamaged /\ (\E p \in Slots : PATER_ADAMVS(p)) /\ UNCHANGED victims
ShellRuns == Undamaged /\ (\E p \in Slots : shell(p)) /\ UNCHANGED victims
OthersRun ==
  Undamaged /\ (\E p \in Slots : proc1(p) \/ command(p)) /\ UNCHANGED victims
KernelRuns == (Kernel \/ Returns) /\ UNCHANGED victims

UNext == KernelRuns \/ InitRuns \/ ShellRuns \/ OthersRun

\* SysTick interrupts a program every 5 ms, so whoever is given the processor
\* again and again gets on with it.  A command need never return, the LED
\* process need never get to its handler, and the user need never type.
ShellGetsOn ==
  /\ Undamaged
  /\ \E p \in Slots : at[p] # "line" /\ shell(p)
  /\ UNCHANGED victims

USpec ==
  /\ UInit /\ [][UNext]_uvars
  /\ WF_uvars(Tick /\ UNCHANGED <<at, shell_pid, victims>>)
  /\ WF_uvars(ContextSwitch /\ UNCHANGED <<at, shell_pid, victims>>)
  /\ WF_uvars(Returns /\ UNCHANGED victims)
  /\ SF_uvars(InitRuns)
  /\ SF_uvars(ShellGetsOn)

-----------------------------------------------------------------------------

\* In a session in which the user kills the LED process, as often as they like,
\* nothing undefined happens: one SIGTERM too many, or one typed while init is
\* about to reap the process, does no harm.
NoFault == damage = "none"

\* When init or the shell is about to spawn, there is room: every dead process
\* before has been reaped.
RoomToSpawn ==
  \A p \in Slots :
    at[p] \in {"spawn LED", "spawn shell", "line"} /\ processes[p].stack = "page"
      => scheduler_can_populate_process /\ Empty # {}

\* init never runs a second shell beside the first, although its wait returns
\* whichever child has died.
OneShell ==
  Cardinality({s \in Slots : /\ at[s] \in {"read", "line", "await command"}
                             /\ processes[s].stack = "page"}) <= 1

\* Every dead process is reaped by the program that started it.
ZombiesAreReaped ==
  \A s \in Slots :
    processes[s].stack = "freed" ~> processes[s].stack # "freed"

\* While the system is up, a line that is typed for a sleeping shell is read.
TypedLineIsRead ==
  \A s \in Slots :
    newline_present /\ at[s] = "read" /\ processes[s].stack = "page"
      ~> ~newline_present \/ ~Undamaged
=============================================================================
