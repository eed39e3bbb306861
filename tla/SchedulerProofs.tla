-------------------------- MODULE SchedulerProofs --------------------------
(***************************************************************************)
(* For tables of every length and programs of every kind: the process      *)
(* table keeps its types, children and parents point at each other, no     *)
(* child exit and no wake-up is lost, and a reader that sleeps is queued;  *)
(* the scheduler implements ProcessLife, processes_count follows the       *)
(* table, no process is off the processor in state RUNNING but in a signal *)
(* handler, and the processor idles only when nothing can run.             *)
(*                                                                         *)
(* The first part is about families and queues.  An action changes the     *)
(* table in one of two ways: spawn and the end of wait change who is whose *)
(* child; all others leave that alone (Kin) and only move processes        *)
(* between states, so one lemma concludes for them.                        *)
(*                                                                         *)
(* The second part is about lives.  Every step is one of five kinds: a     *)
(* process dies, is born, is refused a place or is waited for, or no pid   *)
(* and no stack changes.                                                   *)
(***************************************************************************)
EXTENDS Scheduler, TLAPS, FiniteSetTheorems, WellFoundedInduction

Table == [Slots -> Process]

\* The entries of t that hold a process, the indices of children in use, and
\* the processes with a blocked read.
Used(t) == {s \in Slots : t[s].pid # 0}
Indices(t, p) == 0 .. t[p].max_children_count - 1
Taken(t, p) == {i \in Indices(t, p) : t[p].children[i] # Null}
Reading(t) == {s \in Slots : t[s].frame = "read"}

\* An entry without a pid holds nothing but signals sent to it by mistake.
Vacant(t) ==
  \A s \in Slots :
    /\ t[s].pid = 0 <=> t[s].stack = "null"
    /\ t[s].pid = 0 => /\ t[s].parent = Null
                       /\ t[s].pstate = "NEW"
                       /\ t[s].frame = "none"
                       /\ t[s].max_children_count = 0

\* Each child is a process, and is once in the table of its parent.
Family(t) ==
  \A p \in Slots :
    /\ t[p].parent # p
    /\ DOMAIN t[p].children = Indices(t, p)
    /\ t[p].children_count = Cardinality(Taken(t, p))
    /\ \A i \in Taken(t, p) :
         /\ t[t[p].children[i]].pid # 0
         /\ t[t[p].children[i]].parent = p
         /\ \A j \in Taken(t, p) : t[p].children[i] = t[p].children[j] => i = j

\* Pids below n are given out once, the first one to init.
Numbered(t, n) ==
  /\ \A s \in Slots : t[s].pid < n
  /\ \A r, s \in Slots : t[r].pid = t[s].pid /\ t[r].pid # 0 => r = s
  /\ t[0].pid = PID_INIT
  /\ t[0].parent = Null

\* An entry with a SIGCHLD to handle.
Notified(e) ==
  \E i \in DOMAIN e.pending_signals : e.pending_signals[i] = "SIGCHLD"

\* NoLostChildExit of table t.
Exits(t) ==
  \A p \in Slots : \A i \in Taken(t, p) :
    /\ t[p].pstate = "WAITING_FOR_CHILD_EXIT"
    /\ t[t[p].children[i]].pstate = "TERMINATED"
    => Notified(t[p])

\* Who runs is a process.
OnProcessor ==
  /\ mode # "switch" /\ current_process \in Slots
       => processes[current_process].pid # 0
  /\ mode = "kernel" => current_process \in Slots

\* The wait queue holds at least as many entries as reads are blocked.
Queue ==
  /\ Len(read_wait) >= Cardinality(Reading(processes))
  /\ SleepersAreQueued
  /\ NoLostWakeUp

\* The inductive invariant.
IInv ==
  /\ TypeOK
  /\ Vacant(processes)
  /\ Family(processes)
  /\ Numbered(processes, next_pid)
  /\ processes_count >= Cardinality(Used(processes))
  /\ OnProcessor
  /\ Exits(processes)
  /\ Queue

-----------------------------------------------------------------------------
(* Tables                                                                  *)

\* What the assumption on the constants gives.
LEMMA Constants ==
  /\ max_processes \in Nat /\ max_processes >= 2
  /\ Slots \subseteq Nat /\ 0 \in Slots /\ 1 \in Slots
  /\ Null \notin Slots /\ Idle \notin Slots /\ Null # Idle
  /\ MaxPid \in Nat \ {0}
  BY SchedulerAssumption DEF Slots, Null, Idle

\* A set of numbers has a least one, and a bounded one a greatest.
LEMMA Least ==
  ASSUME NEW S \in SUBSET Nat, S # {}
  PROVE  \E n \in S : \A m \in S : n <= m
  <1>1. PICK n \in S : \A m \in S : <<m, n>> \notin OpToRel(<, Nat)
    BY NatLessThanWellFounded, WFMin
  <1>2. \A m \in S : ~(m < n)
    BY <1>1 DEF OpToRel
  <1> QED
    BY <1>2

\* And a bounded one a greatest.
LEMMA Greatest ==
  ASSUME NEW b \in Nat, NEW S \in SUBSET (0 .. b), S # {}
  PROVE  \E n \in S : \A m \in S : m <= n
  <1> DEFINE D == {b - m : m \in S}
  <1>1. D \subseteq Nat
    <2> SUFFICES ASSUME NEW m \in S
                 PROVE  b - m \in Nat
      OBVIOUS
    <2>1. m \in 0 .. b
      OBVIOUS
    <2> QED
      BY <2>1
  <1>2. D # {}
    <2>1. PICK m \in S : TRUE
      OBVIOUS
    <2>2. b - m \in D
      BY <2>1
    <2> QED
      BY <2>2
  <1>3. PICK d \in D : \A m \in D : d <= m
    BY <1>1, <1>2, Least
  <1>4. PICK n \in S : d = b - n
    BY <1>3
  <1>5. ASSUME NEW m \in S
        PROVE  m <= n
    <2>1. b - m \in D /\ m \in 0 .. b /\ n \in 0 .. b
      OBVIOUS
    <2>2. d <= b - m
      BY <1>3, <2>1
    <2> QED
      BY <1>4, <2>1, <2>2
  <1> QED
    BY <1>5

\* The sets of slots that are counted are finite.
LEMMA FiniteSlots ==
  /\ IsFiniteSet(Slots)
  /\ \A S \in SUBSET Slots : IsFiniteSet(S) /\ Cardinality(S) \in Nat
  <1>1. IsFiniteSet(Slots)
    BY Constants, FS_Interval DEF Slots
  <1> QED
    BY <1>1, FS_Subset, FS_CardinalityType

\* What the fields of an entry are.
LEMMA Entry ==
  ASSUME NEW t \in Table, NEW s \in Slots
  PROVE  /\ t[s] \in Process
         /\ t[s].pid \in 0 .. MaxPid
         /\ t[s].parent \in Slots \cup {Null}
         /\ t[s].children \in ChildTables
         /\ t[s].children_count \in Slots
         /\ t[s].max_children_count \in Slots
         /\ t[s].pending_signals \in SignalQueues
  BY DEF Table, Process

\* One entry is replaced.
LEMMA Put ==
  ASSUME NEW t \in Table, NEW p \in Slots, NEW r \in Process
  PROVE  /\ [t EXCEPT ![p] = r] \in Table
         /\ [t EXCEPT ![p] = r][p] = r
         /\ \A s \in Slots \ {p} : [t EXCEPT ![p] = r][s] = t[s]
  BY DEF Table

-----------------------------------------------------------------------------
(* Steps that change nobody's children                                     *)

\* Entry r takes the place of entry e: the same process with the same family,
\* no less notified, and not newly asleep in wait or dead.
SameProcess(e, r) ==
  /\ r.pid = e.pid /\ r.parent = e.parent
  /\ r.children = e.children /\ r.children_count = e.children_count
  /\ r.max_children_count = e.max_children_count
  /\ r.stack = "null" <=> e.stack = "null"

Kin(t, u) ==
  \A s \in Slots :
    /\ SameProcess(t[s], u[s])
    /\ t[s].pid = 0 => u[s].pstate = "NEW" /\ u[s].frame = "none"

\* Table u has no wait and no dead child that t did not have, but for a child
\* whose exit the parent is notified of.
Told(t, u) ==
  \A s \in Slots :
    /\ u[s].pstate = "WAITING_FOR_CHILD_EXIT" =>
         /\ t[s].pstate = "WAITING_FOR_CHILD_EXIT"
         /\ Notified(t[s]) => Notified(u[s])
    /\ u[s].pstate = "TERMINATED" =>
         \/ t[s].pstate = "TERMINATED"
         \/ /\ t[s].parent \in Slots
            /\ u[t[s].parent].pstate = "WAITING_FOR_CHILD_EXIT"
                 => Notified(u[t[s].parent])

\* Table u has no read that t did not have.
Calm(t, u) ==
  \A s \in Slots :
    /\ u[s].pstate = "WAITING_FOR_RESOURCE" =>
         t[s].pstate = "WAITING_FOR_RESOURCE"
    /\ u[s].frame = "read" => t[s].frame = "read"

\* Kin tables count the same processes and the same children.
LEMMA KinSets ==
  ASSUME NEW t \in Table, NEW u \in Table, Kin(t, u)
  PROVE  /\ Used(u) = Used(t)
         /\ \A p \in Slots : Taken(u, p) = Taken(t, p) /\ Indices(u, p) = Indices(t, p)
  BY DEF Kin, SameProcess, Used, Taken, Indices

\* The children of a coherent table are slots.
LEMMA ChildSlot ==
  ASSUME NEW t \in Table, Family(t), NEW p \in Slots, NEW i \in Taken(t, p)
  PROVE  t[p].children[i] \in Slots
  <1>1. t[p].children \in ChildTables
    BY Entry
  <1>2. PICK n \in Slots : t[p].children \in [0 .. n - 1 -> Slots \cup {Null}]
    BY <1>1 DEF ChildTables
  <1>3. i \in DOMAIN t[p].children /\ t[p].children[i] # Null
    BY DEF Family, Taken
  <1> QED
    BY <1>2, <1>3

\* Kinship keeps vacant entries vacant and families whole.
LEMMA KinFamily ==
  ASSUME NEW t \in Table, NEW u \in Table, Kin(t, u), Vacant(t), Family(t)
  PROVE  Vacant(u) /\ Family(u)
  <1>1. Vacant(u)
    BY DEF Kin, SameProcess, Vacant
  <1>2. ASSUME NEW p \in Slots
        PROVE  /\ u[p].parent # p
               /\ DOMAIN u[p].children = Indices(u, p)
               /\ u[p].children_count = Cardinality(Taken(u, p))
    BY <1>2, KinSets DEF Kin, SameProcess, Family
  <1>3. ASSUME NEW p \in Slots, NEW i \in Taken(u, p)
        PROVE  /\ u[u[p].children[i]].pid # 0
               /\ u[u[p].children[i]].parent = p
               /\ \A j \in Taken(u, p) : u[p].children[i] = u[p].children[j] => i = j
    <2>1. i \in Taken(t, p) /\ u[p].children = t[p].children
      BY <1>3, KinSets DEF Kin, SameProcess
    <2>2. t[p].children[i] \in Slots
      BY <2>1, ChildSlot
    <2> QED
      BY <2>1, <2>2, <1>3, KinSets DEF Kin, SameProcess, Family
  <1> QED
    BY <1>1, <1>2, <1>3 DEF Family

\* And pids unique.
LEMMA KinNumbered ==
  ASSUME NEW t \in Table, NEW u \in Table, Kin(t, u), NEW n \in Int, NEW m \in Int,
         n <= m, Numbered(t, n)
  PROVE  Numbered(u, m)
  <1>1. \A s \in Slots : t[s].pid \in Nat /\ u[s].pid = t[s].pid /\ u[s].parent = t[s].parent
    BY Entry DEF Kin, SameProcess
  <1> QED
    BY <1>1, Constants DEF Numbered

\* Where every new death is told, no exit is lost.
LEMMA ToldExits ==
  ASSUME NEW t \in Table, NEW u \in Table, Kin(t, u), Told(t, u), Family(t), Exits(t)
  PROVE  Exits(u)
  <1> SUFFICES ASSUME NEW p \in Slots, NEW i \in Taken(u, p),
                      u[p].pstate = "WAITING_FOR_CHILD_EXIT",
                      u[u[p].children[i]].pstate = "TERMINATED"
               PROVE  Notified(u[p])
    BY DEF Exits
  <1>1. i \in Taken(t, p) /\ u[p].children = t[p].children
    BY KinSets DEF Kin, SameProcess
  <1> DEFINE c == t[p].children[i]
  <1>2. c \in Slots /\ t[c].parent = p
    BY <1>1, ChildSlot DEF Family
  <1>3. u[c].pstate = "TERMINATED"
    BY <1>1
  <1>4. CASE t[c].pstate = "TERMINATED"
    BY <1>1, <1>4 DEF Exits, Told
  <1>5. CASE t[c].pstate # "TERMINATED"
    BY <1>2, <1>3, <1>5 DEF Told
  <1> QED
    BY <1>4, <1>5

\* Where no read begins, no more reads are blocked.
LEMMA CalmReading ==
  ASSUME NEW t \in Table, NEW u \in Table, Calm(t, u)
  PROVE  Cardinality(Reading(u)) <= Cardinality(Reading(t))
  <1>1. Reading(u) \subseteq Reading(t) /\ Reading(t) \in SUBSET Slots
    BY DEF Calm, Reading
  <1> QED
    BY <1>1, FiniteSlots, FS_Subset

\* Where no read begins, the terminal's queue stays as it should.
LEMMA CalmQueue ==
  ASSUME TypeOK, TypeOK', Queue, Calm(processes, processes'), UNCHANGED tty
  PROVE  Queue'
  <1>1. processes \in Table /\ processes' \in Table /\ read_wait \in Seq(Slots)
        /\ read_wait' = read_wait /\ newline_present' = newline_present
    BY DEF TypeOK, Table, tty
  <1>2. Len(read_wait) \in Nat
        /\ Cardinality(Reading(processes)) \in Nat
        /\ Cardinality(Reading(processes')) \in Nat
    BY <1>1, FiniteSlots DEF Reading
  <1>3. Len(read_wait)' >= Cardinality(Reading(processes'))
    BY <1>1, <1>2, CalmReading DEF Queue
  <1>4. SleepersAreQueued'
    BY <1>1 DEF Queue, SleepersAreQueued, Calm
  <1>5. NoLostWakeUp'
    <2> SUFFICES ASSUME newline_present, read_wait # <<>>
                 PROVE  processes'[Head(read_wait)].pstate # "WAITING_FOR_RESOURCE"
      BY <1>1 DEF NoLostWakeUp
    <2>1. Head(read_wait) \in Slots
      BY <1>1
    <2> QED
      BY <2>1 DEF Queue, NoLostWakeUp, Calm
  <1> QED
    BY <1>3, <1>4, <1>5 DEF Queue

\* The conclusion for all those steps.
LEMMA Conclude ==
  ASSUME IInv, TypeOK', OnProcessor',
         Kin(processes, processes'), Exits(processes'), Queue',
         processes_count' >= processes_count, next_pid' >= next_pid
  PROVE  IInv'
  <1>1. processes \in Table /\ processes' \in Table
    BY DEF IInv, TypeOK, Table
  <1>2. Vacant(processes') /\ Family(processes')
    BY <1>1, KinFamily DEF IInv
  <1>3. next_pid \in Int /\ next_pid' \in Int
        /\ processes_count \in Int /\ processes_count' \in Int
    BY SchedulerAssumption DEF IInv, TypeOK
  <1>4. Numbered(processes', next_pid')
    BY <1>1, <1>3, KinNumbered DEF IInv
  <1>5. processes_count' >= Cardinality(Used(processes'))
    <2>1. Cardinality(Used(processes)) \in Nat
      BY FiniteSlots DEF Used
    <2> QED
      BY <2>1, <1>1, <1>3, KinSets DEF IInv
  <1> QED
    BY <1>2, <1>4, <1>5 DEF IInv

-----------------------------------------------------------------------------
(* The changes of entries that the actions are made of                     *)

With(t, p, r) == [t EXCEPT ![p] = r]

Flag(e, b)      == [e EXCEPT !.kernel_mode = b]
Stop(e, c, st)  == [e EXCEPT !.kernel_mode = TRUE, !.frame = c, !.pstate = st]
Queued(e, q)    == [e EXCEPT !.pending_signals = q]
Die(e)          == [e EXCEPT !.pstate = "TERMINATED", !.pending_signals = <<>>,
                             !.stack = "freed"]

\* Entry r takes the place of e and is not newly asleep, dead or in a read.
Mild(e, r) ==
  /\ r \in Process
  /\ SameProcess(e, r)
  /\ r.pstate \in {e.pstate, "RUNNING", "READY"}
  /\ r.frame \in {e.frame, "none", "wait", "yield"}
  /\ e.pid = 0 => r.pstate = e.pstate /\ r.frame = e.frame
  /\ r.pstate = "WAITING_FOR_CHILD_EXIT" => (Notified(e) => Notified(r))

Quiet(t, u) == u \in Table /\ Kin(t, u) /\ Told(t, u) /\ Calm(t, u)

\* The entries of a table with one replaced.
LEMMA WithEntries ==
  ASSUME NEW t \in Table, NEW p \in Slots, NEW r \in Process
  PROVE  /\ With(t, p, r) \in Table
         /\ With(t, p, r)[p] = r
         /\ \A s \in Slots \ {p} : With(t, p, r)[s] = t[s]
  BY DEF Table, With

\* No change is mild.
LEMMA MildItself ==
  ASSUME NEW e \in Process
  PROVE  Mild(e, e)
  BY DEF Mild, SameProcess

\* Two mild changes are one.
LEMMA MildAfterMild ==
  ASSUME NEW e, NEW f, NEW r, Mild(e, f), Mild(f, r)
  PROVE  Mild(e, r)
  <1>1. SameProcess(e, r)
    BY DEF Mild, SameProcess
  <1>2. /\ r.pstate \in {e.pstate, "RUNNING", "READY"}
        /\ r.frame \in {e.frame, "none", "wait", "yield"}
        /\ e.pid = 0 => r.pstate = e.pstate /\ r.frame = e.frame
        /\ r.pstate = "WAITING_FOR_CHILD_EXIT" => (Notified(e) => Notified(r))
    BY DEF Mild, SameProcess
  <1> QED
    BY <1>1, <1>2 DEF Mild

\* Mild changes of all entries are a quiet change of the table.
LEMMA MildQuiet ==
  ASSUME NEW t \in Table, NEW u \in Table, Vacant(t),
         \A s \in Slots : Mild(t[s], u[s])
  PROVE  Quiet(t, u)
  <1>1. Kin(t, u)
    BY DEF Kin, Mild, Vacant
  <1>2. Calm(t, u)
    BY DEF Calm, Mild
  <1>3. Told(t, u)
    BY DEF Told, Mild
  <1> QED
    BY <1>1, <1>2, <1>3 DEF Quiet

\* So is a mild change of one entry.
LEMMA WithQuiet ==
  ASSUME NEW t \in Table, Vacant(t), NEW p \in Slots, NEW r, Mild(t[p], r)
  PROVE  Quiet(t, With(t, p, r))
  <1>1. r \in Process
    BY DEF Mild
  <1> DEFINE u == With(t, p, r)
  <1>2. u \in Table /\ u[p] = r /\ \A s \in Slots \ {p} : u[s] = t[s]
    BY <1>1, WithEntries
  <1> HIDE DEF u
  <1>3. \A s \in Slots : Mild(t[s], t[s])
    BY MildItself DEF Table
  <1>4. \A s \in Slots : Mild(t[s], u[s])
    BY <1>2, <1>3
  <1> QED
    BY <1>2, <1>4, MildQuiet DEF u

\* No change is quiet.
LEMMA QuietItself ==
  ASSUME NEW t \in Table, Vacant(t)
  PROVE  Quiet(t, t)
  BY MildItself, MildQuiet DEF Table

\* Kinship keeps vacant entries vacant.
LEMMA KinVacant ==
  ASSUME NEW t, NEW u, Kin(t, u), Vacant(t)
  PROVE  Vacant(u)
  BY DEF Kin, SameProcess, Vacant

\* Two quiet changes are one.
LEMMA QuietAfterQuiet ==
  ASSUME NEW t \in Table, NEW u, NEW v, Vacant(t), Quiet(t, u), Quiet(u, v)
  PROVE  Quiet(t, v)
  <1>1. Kin(t, v)
    BY DEF Quiet, Kin, SameProcess
  <1>2. Calm(t, v)
    BY DEF Quiet, Calm
  <1>3. Told(t, v)
    <2> SUFFICES ASSUME NEW s \in Slots
                 PROVE  /\ v[s].pstate = "WAITING_FOR_CHILD_EXIT" =>
                             /\ t[s].pstate = "WAITING_FOR_CHILD_EXIT"
                             /\ Notified(t[s]) => Notified(v[s])
                        /\ v[s].pstate = "TERMINATED" =>
                             \/ t[s].pstate = "TERMINATED"
                             \/ /\ t[s].parent \in Slots
                                /\ v[t[s].parent].pstate = "WAITING_FOR_CHILD_EXIT"
                                     => Notified(v[t[s].parent])
      BY DEF Told
    <2>1. u[s].parent = t[s].parent
      BY DEF Quiet, Kin, SameProcess
    <2> QED
      BY <2>1 DEF Quiet, Told
  <1> QED
    BY <1>1, <1>2, <1>3 DEF Quiet

\* What a change of an entry leaves: of kernel_mode,
LEMMA FlagMild ==
  ASSUME NEW e \in Process, NEW b \in BOOLEAN
  PROVE  Mild(e, Flag(e, b))
  <1>1. /\ Flag(e, b) \in Process /\ SameProcess(e, Flag(e, b))
        /\ Flag(e, b).pstate = e.pstate /\ Flag(e, b).frame = e.frame
        /\ Flag(e, b).pending_signals = e.pending_signals
    BY DEF Process, SameProcess, Flag
  <1> QED
    BY <1>1 DEF Mild, Notified

\* by a call that blocks,
LEMMA StopEntry ==
  ASSUME NEW e \in Process, NEW c \in {"wait", "yield", "read"},
         NEW st \in {"READY", "WAITING_FOR_RESOURCE", "WAITING_FOR_CHILD_EXIT"}
  PROVE  /\ Stop(e, c, st) \in Process /\ SameProcess(e, Stop(e, c, st))
         /\ Stop(e, c, st).pstate = st /\ Stop(e, c, st).frame = c
         /\ Stop(e, c, st).pending_signals = e.pending_signals
  BY DEF Process, SameProcess, Stop

\* of the pending signals,
LEMMA QueuedEntry ==
  ASSUME NEW e \in Process, NEW q \in SignalQueues
  PROVE  /\ Queued(e, q) \in Process /\ SameProcess(e, Queued(e, q))
         /\ Queued(e, q).pstate = e.pstate /\ Queued(e, q).frame = e.frame
         /\ Queued(e, q).pending_signals = q
  BY DEF Process, SameProcess, Queued

\* and by the death of a process.
LEMMA DieEntry ==
  ASSUME NEW e \in Process, e.stack # "null"
  PROVE  /\ Die(e) \in Process /\ SameProcess(e, Die(e))
         /\ Die(e).pstate = "TERMINATED" /\ Die(e).frame = e.frame
  <1> DEFINE q == <<>>
  <1>1. q \in SignalQueues
    BY DEF SignalQueues
  <1>2. Die(e) = [e EXCEPT !.pstate = "TERMINATED", !.pending_signals = q,
                           !.stack = "freed"]
    BY DEF Die
  <1> HIDE DEF q
  <1> QED
    BY <1>1, <1>2 DEF Process, SameProcess

\* A signal is queued: at the end, so what was queued still is.
LEMMA AppendedMild ==
  ASSUME NEW e \in Process, NEW sig \in Signals
  PROVE  LET r == Queued(e, Append(e.pending_signals, sig))
         IN  /\ Mild(e, r) /\ r.pstate = e.pstate /\ r.frame = e.frame
             /\ sig = "SIGCHLD" => Notified(r)
  <1> DEFINE o == e.pending_signals
             q == Append(o, sig)
             r == Queued(e, q)
  <1>1. o \in Seq(Signals)
    BY DEF Process, SignalQueues
  <1>2. q \in SignalQueues
    BY <1>1 DEF SignalQueues
  <1>3. /\ \A i \in DOMAIN o : i \in DOMAIN q /\ q[i] = o[i]
        /\ Len(o) + 1 \in DOMAIN q /\ q[Len(o) + 1] = sig
    BY <1>1
  <1> HIDE DEF q
  <1>4. /\ r \in Process /\ SameProcess(e, r) /\ r.pstate = e.pstate
        /\ r.frame = e.frame /\ r.pending_signals = q
    BY <1>2, QueuedEntry
  <1> HIDE DEF r
  <1>5. (Notified(e) \/ sig = "SIGCHLD") => Notified(r)
    BY <1>3, <1>4 DEF Notified
  <1>6. Mild(e, r)
    BY <1>4, <1>5 DEF Mild
  <1> QED
    BY <1>4, <1>5, <1>6 DEF r, q

\* The way out of a system call is quiet.
LEMMA ReturningQuiet ==
  ASSUME NEW t \in Table, Vacant(t), NEW p \in Slots
  PROVE  Quiet(t, Returning(t, p))
  <1>1. Returning(t, p) = With(t, p, Flag(t[p], FALSE))
    BY DEF Returning, With, Flag
  <1>2. t[p] \in Process
    BY DEF Table
  <1> QED
    BY <1>1, <1>2, FlagMild, WithQuiet

\* A blocked call: its entry, and that it is quiet unless it waits.
LEMMA BlockingEntry ==
  ASSUME NEW t \in Table, NEW p \in Slots,
         NEW c \in {"wait", "yield", "read"},
         NEW st \in {"READY", "WAITING_FOR_RESOURCE", "WAITING_FOR_CHILD_EXIT"}
  PROVE  /\ Blocking(t, p, c, st) = With(t, p, Stop(t[p], c, st))
         /\ Stop(t[p], c, st) \in Process
         /\ SameProcess(t[p], Stop(t[p], c, st))
         /\ Stop(t[p], c, st).pstate = st
         /\ Stop(t[p], c, st).frame = c
         /\ Stop(t[p], c, st).pending_signals = t[p].pending_signals
  <1>1. t[p] \in Process
    BY DEF Table
  <1>2. Blocking(t, p, c, st) = With(t, p, Stop(t[p], c, st))
    BY DEF Blocking, With, Stop, Table
  <1> QED
    BY <1>1, <1>2, StopEntry

\* Table u is t with p blocked in call c.
Blocks(t, u, p, c, st) ==
  /\ u \in Table /\ SameProcess(t[p], u[p])
  /\ u[p].pstate = st /\ u[p].frame = c
  /\ \A s \in Slots \ {p} : u[s] = t[s]

\* That is what Blocking makes of it.
LEMMA BlockingTable ==
  ASSUME NEW t \in Table, NEW p \in Slots,
         NEW c \in {"wait", "yield", "read"},
         NEW st \in {"READY", "WAITING_FOR_RESOURCE", "WAITING_FOR_CHILD_EXIT"}
  PROVE  Blocks(t, Blocking(t, p, c, st), p, c, st)
  <1> DEFINE r == Stop(t[p], c, st)
             u == Blocking(t, p, c, st)
  <1>1. /\ u = With(t, p, r) /\ r \in Process /\ SameProcess(t[p], r)
        /\ r.pstate = st /\ r.frame = c
    BY BlockingEntry
  <1> HIDE DEF r, u
  <1>2. u \in Table /\ u[p] = r /\ \A s \in Slots \ {p} : u[s] = t[s]
    BY <1>1, WithEntries
  <1>3. Blocks(t, u, p, c, st)
    BY <1>1, <1>2 DEF Blocks
  <1> QED
    BY <1>3 DEF u

\* A call that stays ready is quiet.
LEMMA YieldQuiet ==
  ASSUME NEW t \in Table, Vacant(t), NEW p \in Slots, t[p].pid # 0
  PROVE  Quiet(t, Blocking(t, p, "yield", "READY"))
  <1>1. Mild(t[p], Stop(t[p], "yield", "READY"))
    BY BlockingEntry DEF Mild
  <1> QED
    BY <1>1, BlockingEntry, WithQuiet

\* signal_notify changes one entry, mildly.
LEMMA NotifyEntry ==
  ASSUME NEW t \in Table, NEW p \in Slots, NEW sig \in Signals
  PROVE  LET u == signal_notify(t, p, sig)
         IN  /\ u \in Table
             /\ \A s \in Slots :
                  /\ Mild(t[s], u[s])
                  /\ u[s].pstate = t[s].pstate /\ u[s].frame = t[s].frame
             /\ sig = "SIGCHLD" => Notified(u[p])
  <1> DEFINE r == Queued(t[p], Append(t[p].pending_signals, sig))
             u == signal_notify(t, p, sig)
  <1>1. \A s \in Slots : t[s] \in Process
    BY DEF Table
  <1>2. /\ Mild(t[p], r) /\ r.pstate = t[p].pstate /\ r.frame = t[p].frame
        /\ sig = "SIGCHLD" => Notified(r)
    BY <1>1, AppendedMild
  <1>3. u = With(t, p, r)
    BY DEF signal_notify, With, Queued
  <1> HIDE DEF r, u
  <1>4. r \in Process
    BY <1>2 DEF Mild
  <1>5. u \in Table /\ u[p] = r /\ \A s \in Slots \ {p} : u[s] = t[s]
    BY <1>3, <1>4, WithEntries
  <1>6. ASSUME NEW s \in Slots
        PROVE  /\ Mild(t[s], u[s])
               /\ u[s].pstate = t[s].pstate /\ u[s].frame = t[s].frame
    BY <1>1, <1>2, <1>5, MildItself
  <1> QED
    BY <1>2, <1>5, <1>6 DEF u

\* So it is quiet.
LEMMA NotifyQuiet ==
  ASSUME NEW t \in Table, Vacant(t), NEW p \in Slots, NEW sig \in Signals
  PROVE  Quiet(t, signal_notify(t, p, sig))
  BY NotifyEntry, MildQuiet

\* A death: the parent is notified, and nobody else is newly asleep or dead.
LEMMA KilledQuiet ==
  ASSUME NEW t \in Table, Vacant(t), NEW s \in Slots,
         t[s].pid # 0, t[s].parent \in Slots, t[s].parent # s
  PROVE  Quiet(t, Killed(t, s))
  <1> DEFINE q    == t[s].parent
             chld == signal_notify(t, q, "SIGCHLD")
             hung == [x \in Slots |-> signal_notify(chld, x, "SIGHUP")[x]]
             hup  == [x \in Slots |-> IF x \in HungUp(t, s) THEN hung[x] ELSE chld[x]]
             u    == Killed(t, s)
  <1>1. q \in Slots /\ q # s
    OBVIOUS
  <1>2. "SIGCHLD" \in Signals /\ "SIGHUP" \in Signals
    BY DEF Signals
  <1> HIDE DEF q
  <1>3. /\ chld \in Table /\ Notified(chld[q])
        /\ \A x \in Slots : /\ Mild(t[x], chld[x]) /\ chld[x].pstate = t[x].pstate
                            /\ chld[x].frame = t[x].frame
    BY <1>1, <1>2, NotifyEntry
  <1>4. u = With(hup, s, Die(hup[s]))
    BY DEF Killed, With, Die, q
  <1> HIDE DEF chld
  <1>5. ASSUME NEW x \in Slots
        PROVE  /\ hung[x] \in Process /\ Mild(chld[x], hung[x])
               /\ hung[x].pstate = chld[x].pstate /\ hung[x].frame = chld[x].frame
    BY <1>2, <1>3, NotifyEntry DEF Mild
  <1> HIDE DEF hung
  <1>6. ASSUME NEW x \in Slots
        PROVE  /\ hup[x] \in Process /\ Mild(t[x], hup[x])
               /\ hup[x].pstate = t[x].pstate /\ hup[x].frame = t[x].frame
    <2>1. chld[x] \in Process
      BY <1>3 DEF Mild
    <2> QED
      BY <2>1, <1>3, <1>5, MildAfterMild
  <1>7. hup \in Table
    BY <1>6 DEF Table
  <1>8. t[q].pstate = "WAITING_FOR_CHILD_EXIT" => Notified(hup[q])
    <2>1. CASE q \in HungUp(t, s)
      BY <2>1, <1>1, <1>3, <1>5 DEF Mild
    <2>2. CASE q \notin HungUp(t, s)
      BY <2>2, <1>1, <1>3
    <2> QED
      BY <2>1, <2>2
  <1> HIDE DEF hup, u
  <1>9. hup[s] \in Process /\ SameProcess(t[s], hup[s]) /\ hup[s].stack # "null"
        /\ hup[s].frame = t[s].frame
    BY <1>6 DEF Mild, SameProcess, Vacant
  <1> DEFINE r == Die(hup[s])
  <1>10. r \in Process /\ SameProcess(hup[s], r) /\ r.pstate = "TERMINATED"
         /\ r.frame = t[s].frame
    BY <1>9, DieEntry
  <1> HIDE DEF r
  <1>11. u \in Table /\ u[s] = r /\ \A x \in Slots \ {s} : u[x] = hup[x]
    BY <1>4, <1>7, <1>10, WithEntries DEF r
  <1>12. SameProcess(t[s], r)
    BY <1>9, <1>10 DEF SameProcess
  <1>13. Kin(t, u)
    BY <1>6, <1>11, <1>12 DEF Kin, Vacant, Mild
  <1>14. Calm(t, u)
    BY <1>6, <1>10, <1>11 DEF Calm
  <1>15. Told(t, u)
    <2>1. ASSUME NEW x \in Slots, u[x].pstate = "WAITING_FOR_CHILD_EXIT"
          PROVE  /\ t[x].pstate = "WAITING_FOR_CHILD_EXIT"
                 /\ Notified(t[x]) => Notified(u[x])
      <3>1. x # s /\ u[x] = hup[x]
        BY <2>1, <1>10, <1>11
      <3> QED
        BY <2>1, <3>1, <1>6 DEF Mild
    <2>2. ASSUME NEW x \in Slots, u[x].pstate = "TERMINATED",
                 t[x].pstate # "TERMINATED"
          PROVE  /\ t[x].parent \in Slots
                 /\ u[t[x].parent].pstate = "WAITING_FOR_CHILD_EXIT"
                      => Notified(u[t[x].parent])
      <3>1. x = s
        BY <2>2, <1>6, <1>11
      <3>2. u[q] = hup[q] /\ hup[q].pstate = t[q].pstate
        BY <1>1, <1>6, <1>11
      <3> QED
        BY <3>1, <3>2, <1>1, <1>8 DEF q
    <2> QED
      BY <2>1, <2>2 DEF Told
  <1> QED
    BY <1>11, <1>13, <1>14, <1>15 DEF Quiet, u

-----------------------------------------------------------------------------
(* The actions that change nobody's children                               *)

\* The rest of the type invariant.
ScalarsOK ==
  /\ current_process \in Slots \cup {Idle}
  /\ current_index \in Slots
  /\ processes_count \in 1 .. max_processes + 1
  /\ next_pid \in 2 .. MaxPid + 1
  /\ mode \in {"user", "kernel", "switch"}
  /\ damage \in Damages
  /\ read_wait \in Seq(Slots)
  /\ newline_present \in BOOLEAN

\* The type invariant in two parts.
LEMMA Typed ==
  TypeOK <=> /\ processes \in Table
             /\ \A s \in Slots : DOMAIN processes[s].children = ChildIndices(s)
             /\ ScalarsOK
  BY DEF TypeOK, Table, ScalarsOK

\* A step that keeps families, exits and the queue keeps the invariant.
LEMMA KinStep ==
  ASSUME IInv, ScalarsOK', OnProcessor', processes' \in Table,
         Kin(processes, processes'), Exits(processes'), Queue',
         processes_count' >= processes_count, next_pid' >= next_pid
  PROVE  IInv'
  <1>1. processes \in Table
        /\ \A s \in Slots : DOMAIN processes[s].children = ChildIndices(s)
    BY Typed DEF IInv
  <1>2. \A s \in Slots : DOMAIN processes'[s].children = ChildIndices(s)'
    BY <1>1 DEF Kin, SameProcess, ChildIndices
  <1>3. TypeOK'
    BY <1>2 DEF TypeOK, ScalarsOK, Table
  <1> QED
    BY <1>3, Conclude

\* A quiet step that leaves the terminal alone keeps the invariant.
LEMMA QuietStep ==
  ASSUME IInv, ScalarsOK', OnProcessor', Quiet(processes, processes'),
         UNCHANGED tty,
         processes_count' >= processes_count, next_pid' >= next_pid
  PROVE  IInv'
  <1>1. processes \in Table
        /\ \A s \in Slots : DOMAIN processes[s].children = ChildIndices(s)
    BY Typed DEF IInv
  <1>2. \A s \in Slots : DOMAIN processes'[s].children = ChildIndices(s)'
    BY <1>1 DEF Quiet, Kin, SameProcess, ChildIndices
  <1>3. TypeOK'
    BY <1>2 DEF TypeOK, ScalarsOK, Table, Quiet
  <1>4. Exits(processes')
    BY <1>1, ToldExits DEF IInv, Quiet
  <1>5. Queue'
    BY <1>3, CalmQueue DEF IInv, Quiet
  <1> QED
    BY <1>3, <1>4, <1>5, Conclude DEF Quiet

\* What a step may rely on.
LEMMA Facts ==
  ASSUME IInv
  PROVE  /\ processes \in Table /\ Vacant(processes) /\ Family(processes)
         /\ ScalarsOK /\ OnProcessor
         /\ processes_count \in Int /\ next_pid \in Int
         /\ \A p \in Slots : InUserMode(p) => processes[p].pid # 0
         /\ \A pid \in Killable :
              ByPid(pid) # Null => ByPid(pid) \in Slots
  <1>1. /\ processes \in Table /\ Vacant(processes) /\ Family(processes)
        /\ ScalarsOK /\ OnProcessor
    BY Typed DEF IInv
  <1>2. \A p \in Slots : InUserMode(p) => processes[p].pid # 0
    BY <1>1 DEF OnProcessor, InUserMode
  <1>3. ASSUME NEW pid \in Killable, ByPid(pid) # Null
        PROVE  ByPid(pid) \in Slots
    <2>1. WithPid(pid) # {} /\ WithPid(pid) \in SUBSET Slots
      BY <1>3 DEF ByPid, WithPid
    <2>2. \E s \in WithPid(pid) : \A t \in WithPid(pid) : s <= t
      BY <2>1, Least, Constants
    <2> QED
      BY <2>1, <2>2 DEF ByPid
  <1>4. processes_count \in Int /\ next_pid \in Int
    BY <1>1, Constants DEF ScalarsOK
  <1> QED
    BY <1>1, <1>2, <1>3, <1>4

\* A step that reads memory that is not there changes nothing else.
LEMMA BrokenStep ==
  ASSUME IInv, NEW d \in Damages, Broken(d)
  PROVE  IInv'
  <1>1. ScalarsOK' /\ OnProcessor' /\ UNCHANGED tty
    BY Facts DEF Broken, ScalarsOK, OnProcessor, tty
  <1>2. Quiet(processes, processes')
    BY Facts, QuietItself DEF Broken
  <1> QED
    BY <1>1, <1>2, Facts, QuietStep DEF Broken

\* Calls that return: current_process goes on in user mode.
LEMMA ReturnStep ==
  ASSUME IInv, NEW p \in Slots, InUserMode(p), NEW t, Quiet(processes, t),
         processes' = Returning(t, p), ScalarsOK',
         UNCHANGED <<current_process, mode, tty>>,
         processes_count' >= processes_count, next_pid' >= next_pid
  PROVE  IInv'
  <1>1. t \in Table /\ Vacant(t)
    BY Facts, KinVacant DEF Quiet
  <1>2. Quiet(processes, processes')
    BY <1>1, Facts, ReturningQuiet, QuietAfterQuiet
  <1>3. processes'[p].pid # 0
    BY <1>2, Facts DEF Quiet, Kin, SameProcess
  <1>4. OnProcessor'
    BY <1>3 DEF OnProcessor, InUserMode
  <1> QED
    BY <1>2, <1>4, QuietStep

\* A spawn that finds no place, or is refused.
LEMMA SpawnUnplacedStep ==
  ASSUME IInv, NEW p \in Slots, spawn_unplaced(p) \/ spawn_refused(p)
  PROVE  IInv'
  <1>1. Quiet(processes, processes)
    BY Facts, QuietItself
  <1>2. ScalarsOK' /\ processes_count' >= processes_count /\ next_pid' >= next_pid
    BY Facts, Constants DEF ScalarsOK, spawn_unplaced, spawn_refused, tty,
                            scheduler_can_populate_process
  <1> QED
    BY <1>1, <1>2, ReturnStep DEF spawn_unplaced, spawn_refused

\* signal.
LEMMA SignalStep ==
  ASSUME IInv, NEW p \in Slots, NEW sig \in Catchable, sys_signal(p, sig)
  PROVE  IInv'
  <1> DEFINE e == processes[p]
             r == [e EXCEPT !.handlers = e.handlers \cup {sig}]
             t == [processes EXCEPT ![p].handlers = @ \cup {sig}]
  <1>1. e \in Process /\ e.handlers \cup {sig} \in SUBSET Catchable
    BY Facts DEF Table, Process
  <1>2. t = With(processes, p, r)
    BY DEF With
  <1> HIDE DEF e
  <1>3. r \in Process /\ SameProcess(e, r) /\ r.pstate = e.pstate
        /\ r.frame = e.frame /\ r.pending_signals = e.pending_signals
    BY <1>1 DEF Process, SameProcess
  <1> HIDE DEF r
  <1>4. Mild(processes[p], r)
    BY <1>3 DEF Mild, Notified, e
  <1> HIDE DEF t
  <1>5. Quiet(processes, t)
    BY <1>2, <1>4, Facts, WithQuiet
  <1>6. processes' = Returning(t, p) /\ ScalarsOK' /\ InUserMode(p)
        /\ UNCHANGED <<current_process, mode, tty, processes_count, next_pid>>
    BY Facts DEF sys_signal, ScalarsOK, tty, t
  <1> QED
    BY <1>5, <1>6, Facts, ReturnStep

\* kill with SIGTERM.
LEMMA KillTermStep ==
  ASSUME IInv, NEW p \in Slots, NEW pid \in Killable, sys_kill_term(p, pid)
  PROVE  IInv'
  <1> DEFINE s == ByPid(pid)
             t == signal_notify(processes, s, "SIGTERM")
  <1>1. s \in Slots
    BY Facts DEF sys_kill_term
  <1>2. Quiet(processes, t)
    BY <1>1, Facts, NotifyQuiet DEF Signals
  <1>3. processes' = Returning(t, p) /\ ScalarsOK' /\ InUserMode(p)
        /\ UNCHANGED <<current_process, mode, tty, processes_count, next_pid>>
    BY Facts DEF sys_kill_term, ScalarsOK, tty
  <1> HIDE DEF t
  <1> QED
    BY <1>2, <1>3, Facts, ReturnStep

\* What may be killed without damage.
LEMMA Killing ==
  ASSUME IInv, NEW t, Quiet(processes, t), NEW s \in Slots, t[s].stack # "null",
         KillDamage(processes, s) = "none"
  PROVE  Quiet(processes, Killed(t, s))
  <1>1. processes[s].parent # Null
    BY DEF KillDamage
  <1>2. processes[s].parent \in Slots
    BY <1>1, Facts, Entry
  <1>3. t \in Table /\ Vacant(t) /\ t[s].parent = processes[s].parent
    BY Facts, KinVacant DEF Quiet, Kin, SameProcess
  <1>4. t[s].parent # s /\ t[s].pid # 0
    BY <1>3, Facts DEF Family, Vacant
  <1> QED
    BY <1>2, <1>3, <1>4, Facts, KilledQuiet, QuietAfterQuiet

\* The damage of a kill is one of those that are named.
LEMMA Damaged ==
  ASSUME NEW s
  PROVE  KillDamage(processes, s) \in Damages
  BY DEF KillDamage, Damages

\* kill with any other signal.
LEMMA KillStep ==
  ASSUME IInv, NEW p \in Slots, NEW pid \in Killable, sys_kill(p, pid)
  PROVE  IInv'
  <1> DEFINE s == ByPid(pid)
  <1>1. s \in Slots /\ InUserMode(p)
    BY Facts DEF sys_kill
  <1>2. CASE KillDamage(processes, s) # "none"
    BY <1>2, Damaged, BrokenStep DEF sys_kill
  <1>3. CASE KillDamage(processes, s) = "none" /\ s = p
    BY <1>3, BrokenStep DEF sys_kill, Damages
  <1>4. CASE KillDamage(processes, s) = "none" /\ s # p
    <2> DEFINE t == Killed(processes, s)
    <2>1. processes' = Returning(t, p) /\ ScalarsOK'
          /\ UNCHANGED <<current_process, mode, tty, processes_count, next_pid>>
      BY <1>4, Facts DEF sys_kill, ScalarsOK, tty
    <2>2. Quiet(processes, processes)
      BY Facts, QuietItself
    <2>3. processes[s].stack # "null"
      BY <1>4, Facts, <1>1 DEF KillDamage, Family, Vacant
    <2>4. Quiet(processes, t)
      BY <1>1, <1>4, <2>2, <2>3, Killing
    <2> HIDE DEF t
    <2> QED
      BY <1>1, <2>1, <2>4, Facts, ReturnStep
  <1> QED
    BY <1>2, <1>3, <1>4

\* exit, and a stack overflow.
LEMMA ExitStep ==
  ASSUME IInv, NEW p \in Slots, sys_exit(p) \/ isr_usagefault(p)
  PROVE  IInv'
  <1>1. PICK flag \in BOOLEAN : Exit(p, flag)
    BY Facts DEF sys_exit, isr_usagefault, Table, Process
  <1>2. CASE KillDamage(processes, p) # "none"
    BY <1>1, <1>2, Damaged, BrokenStep DEF Exit
  <1>3. CASE KillDamage(processes, p) = "none"
    <2> DEFINE t == Killed(processes, p)
    <2>1. /\ processes' = [t EXCEPT ![p].kernel_mode = flag]
          /\ mode' = "switch" /\ InUserMode(p)
          /\ UNCHANGED <<current_process, current_index, processes_count,
                         next_pid, damage, tty>>
      BY <1>1, <1>3 DEF Exit
    <2>2. Quiet(processes, processes) /\ processes[p].stack # "null"
      BY <2>1, Facts, QuietItself DEF Vacant
    <2>3. Quiet(processes, t)
      BY <1>3, <2>2, Killing
    <2> HIDE DEF t
    <2>4. processes' = With(t, p, Flag(t[p], flag))
      BY <2>1 DEF With, Flag
    <2>5. t \in Table /\ t[p] \in Process /\ Vacant(t)
      BY <2>3, Facts, KinVacant DEF Quiet, Table
    <2>6. Quiet(t, processes')
      BY <2>4, <2>5, FlagMild, WithQuiet
    <2>7. Quiet(processes, processes')
      BY <2>3, <2>6, Facts, QuietAfterQuiet
    <2>8. ScalarsOK' /\ OnProcessor'
      BY <2>1, Facts DEF ScalarsOK, OnProcessor, tty
    <2> QED
      BY <2>1, <2>7, <2>8, Facts, QuietStep
  <1> QED
    BY <1>2, <1>3

\* A read of an empty pipe and a wait for a mutex, first or repeated.
LEMMA YieldStep ==
  ASSUME IInv, NEW p \in Slots, processes[p].pid # 0,
         processes' = Blocking(processes, p, "yield", "READY"), mode' = "switch",
         UNCHANGED <<current_process, current_index, processes_count, next_pid,
                     damage, tty>>
  PROVE  IInv'
  <1>1. Quiet(processes, processes')
    BY Facts, YieldQuiet
  <1>2. ScalarsOK' /\ OnProcessor'
    BY Facts DEF ScalarsOK, OnProcessor, tty
  <1> QED
    BY <1>1, <1>2, Facts, QuietStep

\* The end of a signal handler.
LEMMA SigreturnStep ==
  ASSUME IInv, NEW p \in Slots, sys_sigreturn(p)
  PROVE  IInv'
  <1> DEFINE e == processes[p]
             r == [e EXCEPT !.kernel_mode = TRUE, !.signal_handled = FALSE,
                            !.pstate = "READY"]
  <1>1. e \in Process /\ e.pid # 0
    BY Facts DEF Table, sys_sigreturn
  <1>2. processes' = With(processes, p, r)
    BY DEF With, sys_sigreturn, InUserMode
  <1> HIDE DEF e
  <1>3. r \in Process /\ SameProcess(e, r) /\ r.pstate = "READY"
        /\ r.frame = e.frame /\ r.pending_signals = e.pending_signals
    BY <1>1 DEF Process, SameProcess
  <1> HIDE DEF r
  <1>4. Mild(processes[p], r)
    BY <1>1, <1>3 DEF Mild, Notified, e
  <1>5. Quiet(processes, processes')
    BY <1>2, <1>4, Facts, WithQuiet
  <1>6. /\ ScalarsOK' /\ OnProcessor' /\ UNCHANGED tty
        /\ processes_count' = processes_count /\ next_pid' = next_pid
    BY Facts DEF ScalarsOK, OnProcessor, tty, sys_sigreturn
  <1> QED
    BY <1>5, <1>6, Facts, QuietStep

State(e, st) == [e EXCEPT !.pstate = st]

\* A process may be made ready or running.
LEMMA StateMild ==
  ASSUME NEW e \in Process, e.pid # 0, NEW st \in {"RUNNING", "READY"}
  PROVE  Mild(e, State(e, st)) /\ State(e, st).pid # 0
  <1>1. /\ State(e, st) \in Process /\ SameProcess(e, State(e, st))
        /\ State(e, st).pstate = st /\ State(e, st).frame = e.frame
    BY DEF Process, SameProcess, State
  <1> QED
    BY <1>1 DEF Mild, SameProcess

\* SysTick.
LEMMA TickStep ==
  ASSUME IInv, tick
  PROVE  IInv'
  <1> DEFINE p == current_process
  <1>1. /\ ScalarsOK' /\ OnProcessor' /\ UNCHANGED tty
        /\ processes_count' = processes_count /\ next_pid' = next_pid
    BY Facts DEF ScalarsOK, OnProcessor, tty, tick
  <1>2. CASE processes' = processes
    BY <1>1, <1>2, Facts, QuietItself, QuietStep
  <1>3. CASE p \in Slots /\ processes' = [processes EXCEPT ![p].pstate = "READY"]
    <2>1. processes' = With(processes, p, State(processes[p], "READY"))
      BY <1>3 DEF With, State
    <2>2. processes[p] \in Process /\ processes[p].pid # 0
      BY <1>3, Facts DEF Table, tick, OnProcessor
    <2>3. Mild(processes[p], State(processes[p], "READY"))
      BY <2>2, StateMild
    <2>4. processes \in Table /\ Vacant(processes) /\ p \in Slots
      BY <1>3, Facts
    <2>5. Quiet(processes, processes')
      BY <2>1, <2>3, <2>4, WithQuiet
    <2> QED
      BY <1>1, <2>5, Facts, QuietStep
  <1> QED
    BY <1>2, <1>3 DEF tick

-----------------------------------------------------------------------------
(* The switch                                                              *)

\* The first signal of e is taken off its queue.
Rest(q)   == IF q = <<>> THEN <<>> ELSE Tail(q)
Popped(e) == Queued(e, Rest(e.pending_signals))

\* Taking a signal that is no SIGCHLD leaves a SIGCHLD that was there.
LEMMA RestOfSignals ==
  ASSUME NEW q \in SignalQueues
  PROVE  /\ Rest(q) \in SignalQueues
         /\ (q = <<>> \/ Head(q) # "SIGCHLD") =>
              \A i \in DOMAIN q :
                q[i] = "SIGCHLD" => \E j \in DOMAIN Rest(q) : Rest(q)[j] = "SIGCHLD"
  <1>1. q \in Seq(Signals)
    BY DEF SignalQueues
  <1>2. CASE q = <<>>
    BY <1>2 DEF Rest, SignalQueues
  <1>3. CASE q # <<>>
    <2> DEFINE r == Tail(q)
    <2>1. /\ r \in Seq(Signals) /\ Rest(q) = r /\ Head(q) = q[1]
          /\ Len(q) \in Nat /\ Len(r) = Len(q) - 1 /\ DOMAIN q = 1 .. Len(q)
          /\ DOMAIN r = 1 .. Len(r)
          /\ \A i \in 1 .. Len(q) - 1 : r[i] = q[i + 1]
      BY <1>1, <1>3 DEF Rest
    <2> HIDE DEF r
    <2>2. ASSUME Head(q) # "SIGCHLD", NEW i \in DOMAIN q, q[i] = "SIGCHLD"
          PROVE  \E j \in DOMAIN r : r[j] = "SIGCHLD"
      <3>1. i - 1 \in DOMAIN r /\ r[i - 1] = q[i]
        <4>1. i \in 1 .. Len(q) /\ i # 1
          BY <2>1, <2>2
        <4>2. i - 1 \in 1 .. Len(q) - 1
          BY <2>1, <4>1
        <4>3. r[i - 1] = q[(i - 1) + 1] /\ (i - 1) + 1 = i
          BY <2>1, <4>1, <4>2
        <4> QED
          BY <2>1, <4>2, <4>3
      <3> QED
        BY <2>2, <3>1
    <2> QED
      BY <1>3, <2>1, <2>2 DEF SignalQueues
  <1> QED
    BY <1>2, <1>3

\* It may be taken off unless the process waits for it.
LEMMA PoppedMild ==
  ASSUME NEW e \in Process
  PROVE  /\ Popped(e) \in Process /\ SameProcess(e, Popped(e))
         /\ Popped(e).pstate = e.pstate /\ Popped(e).frame = e.frame
         /\ \/ e.pstate # "WAITING_FOR_CHILD_EXIT"
            \/ e.pending_signals = <<>> \/ Head(e.pending_signals) # "SIGCHLD"
            => Mild(e, Popped(e))
  <1> DEFINE q == e.pending_signals
             r == Popped(e)
  <1>1. q \in SignalQueues
    BY DEF Process
  <1>2. /\ r \in Process /\ SameProcess(e, r) /\ r.pstate = e.pstate
        /\ r.frame = e.frame /\ r.pending_signals = Rest(q)
    BY <1>1, RestOfSignals, QueuedEntry DEF Popped
  <1> HIDE DEF r
  <1>3. ASSUME q = <<>> \/ Head(q) # "SIGCHLD", Notified(e)
        PROVE  Notified(r)
    BY <1>1, <1>2, <1>3, RestOfSignals DEF Notified
  <1>4. \/ e.pstate # "WAITING_FOR_CHILD_EXIT" \/ q = <<>> \/ Head(q) # "SIGCHLD"
        => Mild(e, r)
    BY <1>2, <1>3 DEF Mild
  <1> QED
    BY <1>2, <1>4 DEF r

\* A process that gets a signal and runs, or is ready, is mildly changed.
LEMMA PoppedState ==
  ASSUME NEW e \in Process, e.pid # 0, NEW st \in {"RUNNING", "READY"}
  PROVE  Mild(e, State(Popped(e), st))
  <1> DEFINE f == Popped(e)
             r == State(f, st)
  <1>1. f \in Process /\ SameProcess(e, f) /\ f.frame = e.frame
    BY PoppedMild
  <1> HIDE DEF f
  <1>2. r \in Process /\ SameProcess(f, r) /\ r.pstate = st /\ r.frame = f.frame
    BY <1>1 DEF Process, SameProcess, State
  <1> HIDE DEF r
  <1>3. SameProcess(e, r)
    BY <1>1, <1>2 DEF SameProcess
  <1>4. Mild(e, r)
    BY <1>1, <1>2, <1>3 DEF Mild
  <1> QED
    BY <1>4 DEF f, r

Handle(e) == [e EXCEPT !.signal_handled = TRUE]

\* A process that starts a handler of its own is mildly changed.
LEMMA PoppedHandle ==
  ASSUME NEW e \in Process, e.pid # 0
  PROVE  Mild(e, State(Handle(Popped(e)), "RUNNING"))
  <1> DEFINE f == Popped(e)
             g == Handle(f)
             r == State(g, "RUNNING")
  <1>1. f \in Process /\ SameProcess(e, f) /\ f.frame = e.frame
    BY PoppedMild
  <1> HIDE DEF f
  <1>2. g \in Process /\ SameProcess(f, g) /\ g.frame = f.frame
    BY <1>1 DEF Process, SameProcess, Handle
  <1> HIDE DEF g
  <1>3. r \in Process /\ SameProcess(g, r) /\ r.pstate = "RUNNING" /\ r.frame = g.frame
    BY <1>2 DEF Process, SameProcess, State
  <1> HIDE DEF r
  <1>4. SameProcess(e, r)
    BY <1>1, <1>2, <1>3 DEF SameProcess
  <1>5. Mild(e, r)
    BY <1>1, <1>2, <1>3, <1>4 DEF Mild
  <1> QED
    BY <1>5 DEF f, g, r

\* Whatever the switch resumes, it is quiet.
LEMMA ResumeQuiet ==
  ASSUME IInv, NEW s \in Slots, ResumeDamage(s) = "none", Resume(s)
  PROVE  /\ Quiet(processes, processes')
         /\ processes[s].pid # 0
         /\ mode' \in {"user", "kernel", "switch"}
  <1> DEFINE e   == processes[s]
             q   == e.pending_signals
             sig == Head(q)
             t   == With(processes, s, Popped(e))
             r   == State(e, "RUNNING")
             v   == With(processes, s, r)
  <1>1. /\ processes \in Table /\ Vacant(processes) /\ e \in Process
        /\ q \in SignalQueues
    BY Facts DEF Table, Process
  <1>2. e.stack # "null" /\ e.pid # 0
    BY <1>1 DEF ResumeDamage, Vacant
  <1>3. t = [processes EXCEPT ![s].pending_signals = IF @ = <<>> THEN <<>> ELSE Tail(@)]
    BY DEF With, Popped, Queued, Rest
  <1>4. t \in Table /\ t[s] = Popped(e) /\ \A x \in Slots \ {s} : t[x] = processes[x]
    BY <1>1, PoppedMild, WithEntries
  <1> DEFINE Recall == \/ processes' = t /\ mode' = "kernel"
                       \/ processes' = [t EXCEPT ![s].pstate = "RUNNING"] /\ mode' = "user"
  <1>5. CASE /\ e.signal_handled
             /\ processes' = [processes EXCEPT ![s].pstate = "RUNNING"] /\ mode' = "user"
    <2>1. processes' = v
      BY <1>5 DEF With, State
    <2>2. Mild(e, r)
      BY <1>1, <1>2, StateMild
    <2>3. Quiet(processes, processes')
      BY <1>1, <2>1, <2>2, WithQuiet
    <2> QED
      BY <1>2, <1>5, <2>3
  <1>6. CASE /\ q = <<>> \/ (sig = "SIGCHLD" => e.pstate # "WAITING_FOR_CHILD_EXIT")
             /\ Recall
    <2>1. CASE processes' = t /\ mode' = "kernel"
      <3>1. Mild(e, Popped(e))
        BY <1>1, <1>6, PoppedMild
      <3> QED
        BY <1>1, <1>2, <2>1, <3>1, WithQuiet
    <2>2. CASE processes' = [t EXCEPT ![s].pstate = "RUNNING"] /\ mode' = "user"
      <3>1. processes' = With(processes, s, State(Popped(e), "RUNNING"))
        BY <2>2, <1>1, <1>4 DEF With, State, Table
      <3>2. Mild(e, State(Popped(e), "RUNNING"))
        BY <1>1, <1>2, PoppedState
      <3>3. Quiet(processes, processes')
        BY <1>1, <3>1, <3>2, WithQuiet
      <3> QED
        BY <1>2, <2>2, <3>3
    <2> QED
      BY <1>6, <2>1, <2>2
  <1>7. CASE processes' = [t EXCEPT ![s].pstate = "READY"] /\ mode' = "kernel"
    <2>1. processes' = With(processes, s, State(Popped(e), "READY"))
      BY <1>7, <1>1, <1>4 DEF With, State, Table
    <2>2. Mild(e, State(Popped(e), "READY"))
      BY <1>1, <1>2, PoppedState
    <2>3. Quiet(processes, processes')
      BY <1>1, <2>1, <2>2, WithQuiet
    <2> QED
      BY <1>2, <1>7, <2>3
  <1>8. CASE /\ processes' = [[t EXCEPT ![s].signal_handled = TRUE]
                                EXCEPT ![s].pstate = "RUNNING"]
             /\ mode' = "user"
    <2>1. processes' = With(processes, s, State(Handle(Popped(e)), "RUNNING"))
      BY <1>8, <1>1, <1>4 DEF With, State, Handle, Table
    <2>2. Mild(e, State(Handle(Popped(e)), "RUNNING"))
      BY <1>1, <1>2, PoppedHandle
    <2>3. Quiet(processes, processes')
      BY <1>1, <2>1, <2>2, WithQuiet
    <2> QED
      BY <1>2, <1>8, <2>3
  <1>9. CASE /\ ~e.signal_handled /\ q # <<>> /\ Terminates(s, sig)
             /\ processes' = Killed(t, s) /\ mode' = "switch"
    <2>1. sig # "SIGCHLD"
      BY <1>9 DEF Terminates
    <2>2. Quiet(processes, t)
      BY <1>1, <2>1, PoppedMild, WithQuiet
    <2>3. KillDamage(processes, s) = "none"
      BY <1>2, <1>9 DEF ResumeDamage
    <2>4. t[s].stack # "null"
      BY <1>1, <1>2, <1>4, PoppedMild DEF SameProcess
    <2> HIDE DEF t
    <2> QED
      BY <1>2, <1>9, <2>2, <2>3, <2>4, Killing
  <1>10. q # <<>> => sig \in Signals
    BY <1>1 DEF SignalQueues
  <1>11. ~e.signal_handled /\ q # <<>> /\ sig \notin e.handlers /\ ~Terminates(s, sig)
           => sig = "SIGCHLD"
    BY <1>10 DEF Terminates, Signals
  <1> QED
    BY <1>3, <1>5, <1>6, <1>7, <1>8, <1>9, <1>11 DEF Resume, ToUser, ToKernel

\* scheduler_get_next_process finds an entry of the table, or none.
LEMMA NextSlot ==
  ASSUME ScalarsOK
  PROVE  scheduler_get_next_process \in Slots \cup {Idle}
  <1>1. CASE processes_count = 1
    BY <1>1 DEF scheduler_get_next_process, ScalarsOK
  <1>2. CASE processes_count # 1 /\ NextRunnable = {}
    BY <1>2 DEF scheduler_get_next_process
  <1>3. CASE processes_count # 1 /\ NextRunnable # {}
    <2> DEFINE n == CHOOSE n \in NextRunnable : \A m \in NextRunnable : n <= m
    <2>1. NextRunnable \in SUBSET Nat
      BY Constants DEF NextRunnable
    <2>2. n \in NextRunnable
      BY <1>3, <2>1, Least
    <2>3. n \in Nat /\ current_index \in Nat
      BY <2>1, <2>2, Constants DEF ScalarsOK
    <2> HIDE DEF n
    <2>4. After(n) \in Slots
      BY <2>3, Constants DEF After, Slots
    <2> QED
      BY <1>3, <2>4 DEF scheduler_get_next_process, n
  <1> QED
    BY <1>1, <1>2, <1>3

\* The switch.
LEMMA SwitchStep ==
  ASSUME IInv, context_switch
  PROVE  IInv'
  <1> DEFINE s == scheduler_get_next_process
  <1>1. s \in Slots \cup {Idle}
    BY Facts, NextSlot
  <1> HIDE DEF s
  <1>2. CASE s = Idle
    <2>1. /\ ScalarsOK' /\ OnProcessor' /\ UNCHANGED tty /\ processes' = processes
          /\ processes_count' = processes_count /\ next_pid' = next_pid
      BY <1>2, Facts, Constants DEF context_switch, ScalarsOK, OnProcessor, tty, s
    <2> QED
      BY <2>1, Facts, QuietItself, QuietStep
  <1>3. CASE s \in Slots /\ ResumeDamage(s) # "none"
    <2>1. ResumeDamage(s) \in Damages
      BY DEF ResumeDamage, KillDamage, Damages
    <2> QED
      BY <1>3, <2>1, Constants, BrokenStep DEF context_switch, s
  <1>4. CASE s \in Slots /\ ResumeDamage(s) = "none"
    <2>1. /\ current_process' = s /\ Resume(s)
          /\ current_index' \in {current_index, s}
          /\ UNCHANGED <<processes_count, next_pid, damage, tty>>
      BY <1>4, Constants DEF context_switch, s
    <2>2. /\ Quiet(processes, processes') /\ processes[s].pid # 0
          /\ mode' \in {"user", "kernel", "switch"}
      BY <1>4, <2>1, ResumeQuiet
    <2>3. processes'[s].pid # 0
      BY <1>4, <2>2 DEF Quiet, Kin, SameProcess
    <2>4. ScalarsOK' /\ OnProcessor'
      BY <1>4, <2>1, <2>2, <2>3, Facts DEF ScalarsOK, OnProcessor, tty
    <2> QED
      BY <2>1, <2>2, <2>4, Facts, QuietStep
  <1> QED
    BY <1>1, <1>2, <1>3, <1>4

-----------------------------------------------------------------------------
(* The terminal                                                            *)

\* Kinship is transitive.
LEMMA KinAfterKin ==
  ASSUME NEW t, NEW u, NEW v, Kin(t, u), Kin(u, v)
  PROVE  Kin(t, v)
  BY DEF Kin, SameProcess

Unframed(e) == [e EXCEPT !.frame = "none"]

\* The frame of a call that ends may go.
LEMMA UnframedMild ==
  ASSUME NEW e \in Process, e.pid # 0
  PROVE  Mild(e, Unframed(e)) /\ Unframed(e).frame = "none"
  <1>1. /\ Unframed(e) \in Process /\ SameProcess(e, Unframed(e))
        /\ Unframed(e).pstate = e.pstate /\ Unframed(e).frame = "none"
        /\ Unframed(e).pending_signals = e.pending_signals
    BY DEF Process, SameProcess, Unframed
  <1> QED
    BY <1>1 DEF Mild, Notified

\* The pipe or mutex call goes on.
LEMMA YieldResumedStep ==
  ASSUME IInv, yield_resumed
  PROVE  IInv'
  <1> DEFINE p == current_process
  <1>1. p \in Slots /\ processes[p].pid # 0
    BY Facts DEF yield_resumed, OnProcessor
  <1> HIDE DEF p
  <1>2. CASE processes' = Returning([processes EXCEPT ![p].frame = "none"], p)
             /\ mode' = "user"
    <2> DEFINE t == With(processes, p, Unframed(processes[p]))
    <2>1. t = [processes EXCEPT ![p].frame = "none"]
      BY DEF With, Unframed
    <2>2. Mild(processes[p], Unframed(processes[p])) /\ processes[p] \in Process
      BY <1>1, Facts, UnframedMild DEF Table
    <2>3. Quiet(processes, t)
      BY <1>1, <2>2, Facts, WithQuiet
    <2> HIDE DEF t
    <2>4. Quiet(t, processes')
      BY <1>1, <1>2, <2>1, <2>3, Facts, KinVacant, ReturningQuiet DEF Quiet
    <2>5. Quiet(processes, processes')
      BY <2>3, <2>4, Facts, QuietAfterQuiet
    <2>6. processes'[p].pid # 0
      BY <1>1, <2>5 DEF Quiet, Kin, SameProcess
    <2>7. /\ ScalarsOK' /\ OnProcessor' /\ UNCHANGED tty
          /\ processes_count' = processes_count /\ next_pid' = next_pid
      BY <1>1, <1>2, <2>6, Facts
         DEF yield_resumed, ScalarsOK, OnProcessor, tty, p
    <2> QED
      BY <2>5, <2>7, Facts, QuietStep
  <1>3. CASE processes' = Blocking(processes, p, "yield", "READY") /\ mode' = "switch"
    BY <1>1, <1>3, YieldStep DEF yield_resumed
  <1> QED
    BY <1>2, <1>3 DEF yield_resumed, p

\* The interrupt of the key that ends a line.
LEMMA InterruptStep ==
  ASSUME IInv, write_to_keyboard_buffer
  PROVE  IInv'
  <1> DEFINE h == Head(read_wait)
             woken == read_wait # <<>> /\ processes[h].stack # "null"
  <1>1. /\ processes \in Table /\ Vacant(processes) /\ Family(processes)
        /\ read_wait \in Seq(Slots)
    BY Facts DEF ScalarsOK
  <1>2. read_wait # <<>> => h \in Slots
    BY <1>1
  <1> HIDE DEF h
  <1>3. \A s \in Slots :
          processes'[s] = IF woken /\ s = h THEN State(processes[s], "READY")
                          ELSE processes[s]
    BY DEF write_to_keyboard_buffer, State, h
  <1>4. ASSUME NEW s \in Slots
        PROVE  Mild(processes[s], processes'[s])
    <2>1. processes[s] \in Process
      BY <1>1 DEF Table
    <2>2. CASE woken /\ s = h
      <3>1. processes[s].pid # 0
        BY <1>1, <2>2 DEF Vacant
      <3> QED
        BY <1>3, <2>1, <2>2, <3>1, StateMild
    <2>3. CASE ~(woken /\ s = h)
      BY <1>3, <2>1, <2>3, MildItself
    <2> QED
      BY <2>2, <2>3
  <1>5. processes' \in Table
    <2>1. processes' = [s \in Slots |-> processes'[s]]
      BY DEF write_to_keyboard_buffer
    <2>2. \A s \in Slots : processes'[s] \in Process
      BY <1>4 DEF Mild
    <2> QED
      BY <2>1, <2>2 DEF Table
  <1>6. Quiet(processes, processes')
    BY <1>1, <1>4, <1>5, MildQuiet
  <1>7. ScalarsOK' /\ OnProcessor' /\ read_wait' = read_wait
        /\ processes_count' = processes_count /\ next_pid' = next_pid
    <2>1. \A s \in Slots : processes'[s].pid = processes[s].pid
      BY <1>6 DEF Quiet, Kin, SameProcess
    <2> QED
      BY <2>1, Facts DEF write_to_keyboard_buffer, ScalarsOK, OnProcessor
  <1>8. Exits(processes')
    BY <1>1, <1>5, <1>6, ToldExits DEF IInv, Quiet
  <1>9. Len(read_wait') >= Cardinality(Reading(processes'))
    <2>1. Cardinality(Reading(processes')) <= Cardinality(Reading(processes))
      BY <1>1, <1>5, <1>6, CalmReading DEF Quiet
    <2>2. /\ Cardinality(Reading(processes)) \in Nat
          /\ Cardinality(Reading(processes')) \in Nat
          /\ Len(read_wait) \in Nat
      BY <1>1, FiniteSlots DEF Reading
    <2> QED
      BY <1>7, <2>1, <2>2 DEF IInv, Queue
  <1>10. SleepersAreQueued'
    BY <1>6, <1>7 DEF IInv, Queue, SleepersAreQueued, Quiet, Calm
  <1>11. NoLostWakeUp'
    <2> SUFFICES ASSUME read_wait # <<>>
                 PROVE  processes'[h].pstate # "WAITING_FOR_RESOURCE"
      BY <1>7 DEF NoLostWakeUp, h
    <2>1. CASE woken
      BY <1>2, <1>3, <1>1, <2>1 DEF State, Table, Process
    <2>2. CASE ~woken
      BY <1>1, <1>2, <1>3, <2>2 DEF Vacant
    <2> QED
      BY <2>1, <2>2
  <1> QED
    BY <1>5, <1>6, <1>7, <1>8, <1>9, <1>10, <1>11, Facts, KinStep DEF Quiet, Queue

\* The end of a read, in a table t where p is in one.
LEMMA LineReadStep ==
  ASSUME IInv, NEW p \in Slots, processes[p].pid # 0, current_process = p,
         NEW t \in Table, Kin(processes, t), Told(processes, t),
         t[p].frame = "read",
         NEW queue \in Seq(Slots), Len(queue) >= Cardinality(Reading(t)),
         \A s \in Slots : t[s].pstate = "WAITING_FOR_RESOURCE" =>
           \E i \in DOMAIN queue : queue[i] = s,
         LineRead(t, p, queue)
  PROVE  IInv'
  <1> DEFINE h  == Head(queue)
             t1 == With(t, p, Unframed(t[p]))
             t2 == With(t1, h, State(t1[h], "READY"))
  <1>1. Vacant(t) /\ Family(t) /\ Exits(t)
    BY Facts, KinFamily, ToldExits DEF IInv
  <1>2. Reading(t) \in SUBSET Slots /\ p \in Reading(t)
    BY DEF Reading
  <1>3. IsFiniteSet(Reading(t)) /\ Cardinality(Reading(t)) \in Nat
        /\ Cardinality(Reading(t)) # 0
    BY <1>2, FiniteSlots, FS_EmptySet
  <1>4. Len(queue) \in Nat /\ Len(queue) >= 1 /\ DOMAIN queue = 1 .. Len(queue)
    BY <1>3
  <1>5. /\ h \in Slots /\ h = queue[1]
        /\ Tail(queue) \in Seq(Slots) /\ Len(Tail(queue)) = Len(queue) - 1
        /\ DOMAIN Tail(queue) = 1 .. Len(queue) - 1
        /\ \A i \in 1 .. Len(queue) - 1 : Tail(queue)[i] = queue[i + 1]
    BY <1>4
  <1>6. CASE t[h].stack = "null"
    BY <1>6, BrokenStep DEF LineRead, Damages
  <1>7. CASE t[h].stack # "null"
    <2>1. t[p].pid # 0 /\ t[h].pid # 0
      BY <1>1, <1>5, <1>7 DEF Kin, SameProcess, Vacant
    <2>2. t1 = [t EXCEPT ![p].frame = "none"]
      BY DEF With, Unframed
    <2>3. Mild(t[p], Unframed(t[p])) /\ Unframed(t[p]).frame = "none"
      BY <2>1, UnframedMild DEF Table
    <2>4. Quiet(t, t1)
      BY <1>1, <2>3, WithQuiet
    <2>5. t1[p].frame = "none"
      BY <2>3, WithEntries DEF Mild
    <2> HIDE DEF t1
    <2>6. t1 \in Table /\ Vacant(t1) /\ t1[h] \in Process /\ t1[h].pid # 0
      BY <1>1, <1>5, <2>1, <2>4, KinVacant DEF Quiet, Kin, SameProcess, Table
    <2>7. Mild(t1[h], State(t1[h], "READY"))
      BY <2>6, StateMild
    <2>8. Quiet(t1, t2)
      BY <1>5, <2>6, <2>7, WithQuiet
    <2>9. t2[h].pstate = "READY"
      <3> DEFINE r == State(t1[h], "READY")
      <3>1. r \in Process /\ r.pstate = "READY"
        BY <2>6, <2>7 DEF State, Process, Mild
      <3> HIDE DEF r
      <3>2. With(t1, h, r)[h] = r
        BY <1>5, <2>6, <3>1, WithEntries, SMTT(30)
      <3> QED
        BY <3>1, <3>2 DEF r
    <2>10. t2 = [t1 EXCEPT ![h].pstate = "READY"]
      BY DEF With, State
    <2> HIDE DEF t2, h
    <2>11. /\ processes' = Returning(t2, p)
           /\ read_wait' = Tail(queue) /\ newline_present' = FALSE /\ mode' = "user"
           /\ UNCHANGED <<current_process, current_index, processes_count,
                          next_pid, damage>>
      BY <1>7, <2>2, <2>10 DEF LineRead, h
    <2>12. Quiet(t2, processes')
      BY <2>6, <2>8, <2>11, KinVacant, ReturningQuiet DEF Quiet
    <2>13. Quiet(t1, processes') /\ Quiet(t, processes')
      BY <1>1, <2>4, <2>6, <2>8, <2>12, QuietAfterQuiet
    <2>14. processes' \in Table /\ Kin(processes, processes') /\ Exits(processes')
      BY <1>1, <2>13, KinAfterKin, ToldExits DEF Quiet
    <2>15. processes'[p].pid # 0
      BY <2>14 DEF Kin, SameProcess
    <2>16. ScalarsOK' /\ OnProcessor'
      BY <1>5, <2>11, <2>15, Facts DEF ScalarsOK, OnProcessor
    <2>17. Len(read_wait') >= Cardinality(Reading(processes'))
      <3>1. Reading(processes') \in SUBSET (Reading(t) \ {p})
        BY <2>5, <2>13 DEF Quiet, Calm, Reading
      <3>2. IsFiniteSet(Reading(t) \ {p})
            /\ Cardinality(Reading(t) \ {p}) = Cardinality(Reading(t)) - 1
        BY <1>2, <1>3, FS_RemoveElement
      <3>3. Cardinality(Reading(processes')) <= Cardinality(Reading(t) \ {p})
        BY <3>1, <3>2, FS_Subset
      <3>4. Cardinality(Reading(processes')) \in Nat
        BY FiniteSlots DEF Reading
      <3> QED
        BY <1>3, <1>4, <1>5, <2>11, <3>2, <3>3, <3>4
    <2>18. SleepersAreQueued'
      <3> SUFFICES ASSUME NEW s \in Slots,
                          processes'[s].pstate = "WAITING_FOR_RESOURCE"
                   PROVE  \E i \in DOMAIN Tail(queue) : Tail(queue)[i] = s
        BY <2>11 DEF SleepersAreQueued
      <3>1. t[s].pstate = "WAITING_FOR_RESOURCE" /\ s # h
        BY <2>9, <2>12, <2>13 DEF Quiet, Calm
      <3>2. PICK i \in DOMAIN queue : queue[i] = s
        BY <3>1
      <3>3. i \in 1 .. Len(queue) /\ i # 1
        BY <1>4, <1>5, <3>1, <3>2
      <3>4. i - 1 \in 1 .. Len(queue) - 1 /\ (i - 1) + 1 = i
        BY <1>4, <3>3
      <3>5. Tail(queue)[i - 1] = s
        BY <1>5, <3>2, <3>4
      <3> QED
        BY <1>5, <3>4, <3>5
    <2>19. NoLostWakeUp'
      BY <2>11 DEF NoLostWakeUp
    <2> QED
      BY <2>11, <2>14, <2>16, <2>17, <2>18, <2>19, Facts, KinStep DEF Queue
  <1> QED
    BY <1>6, <1>7

\* A read of the terminal.
LEMMA ReadStep ==
  ASSUME IInv, NEW p \in Slots, tty_read(p)
  PROVE  IInv'
  <1> DEFINE t     == Blocking(processes, p, "read", "WAITING_FOR_RESOURCE")
             queue == Append(read_wait, p)
  <1>1. /\ processes \in Table /\ Vacant(processes) /\ Family(processes)
        /\ read_wait \in Seq(Slots) /\ Len(read_wait) \in Nat
        /\ processes[p].pid # 0 /\ current_process = p
    BY Facts DEF ScalarsOK, tty_read, InUserMode
  <1>2. /\ t \in Table /\ SameProcess(processes[p], t[p])
        /\ t[p].pstate = "WAITING_FOR_RESOURCE" /\ t[p].frame = "read"
        /\ \A s \in Slots \ {p} : t[s] = processes[s]
    <2>1. Blocks(processes, t, p, "read", "WAITING_FOR_RESOURCE")
      BY <1>1, BlockingTable
    <2> HIDE DEF t
    <2> QED
      BY <2>1 DEF Blocks
  <1> HIDE DEF t
  <1>3. Kin(processes, t)
    BY <1>1, <1>2 DEF Kin, SameProcess, Vacant
  <1>4. Told(processes, t)
    BY <1>2 DEF Told
  <1>5. /\ queue \in Seq(Slots) /\ Len(queue) = Len(read_wait) + 1
        /\ DOMAIN queue = 1 .. Len(read_wait) + 1 /\ DOMAIN read_wait = 1 .. Len(read_wait)
        /\ queue[Len(read_wait) + 1] = p
        /\ \A i \in 1 .. Len(read_wait) : queue[i] = read_wait[i]
    BY <1>1
  <1> HIDE DEF queue
  <1>6. Len(queue) >= Cardinality(Reading(t))
    <2>1. Reading(t) = Reading(processes) \cup {p}
      BY <1>2 DEF Reading
    <2>2. IsFiniteSet(Reading(processes)) /\ Cardinality(Reading(processes)) \in Nat
      BY FiniteSlots DEF Reading
    <2>3. Cardinality(Reading(t)) <= Cardinality(Reading(processes)) + 1
      <3>1. Cardinality(Reading(processes) \cup {p}) =
              IF p \in Reading(processes) THEN Cardinality(Reading(processes))
              ELSE Cardinality(Reading(processes)) + 1
        BY <2>2, FS_AddElement
      <3> QED
        BY <2>1, <2>2, <3>1
    <2>4. Cardinality(Reading(t)) \in Nat
      BY FiniteSlots DEF Reading
    <2> QED
      BY <1>1, <1>5, <2>2, <2>3, <2>4 DEF IInv, Queue
  <1>7. ASSUME NEW s \in Slots, t[s].pstate = "WAITING_FOR_RESOURCE"
        PROVE  \E i \in DOMAIN queue : queue[i] = s
    <2>1. CASE s = p
      BY <1>1, <1>5, <2>1
    <2>2. CASE s # p
      <3>1. PICK i \in DOMAIN read_wait : read_wait[i] = s
        BY <1>2, <1>7, <2>2 DEF IInv, Queue, SleepersAreQueued
      <3> QED
        BY <1>1, <1>5, <3>1
    <2> QED
      BY <2>1, <2>2
  <1>8. CASE newline_present
    <2>1. LineRead(t, p, queue)
      BY <1>8 DEF tty_read, t, queue
    <2> QED
      BY <1>1, <1>2, <1>3, <1>4, <1>5, <1>6, <1>7, <2>1, LineReadStep
  <1>9. CASE ~newline_present
    <2>1. /\ processes' = t /\ read_wait' = queue /\ mode' = "switch"
          /\ UNCHANGED <<current_process, current_index, processes_count,
                         next_pid, damage, newline_present>>
      BY <1>9 DEF tty_read, t, queue
    <2>2. ScalarsOK' /\ OnProcessor'
      BY <1>5, <2>1, Facts DEF ScalarsOK, OnProcessor
    <2>3. Exits(processes')
      BY <1>1, <1>2, <1>3, <1>4, <2>1, ToldExits DEF IInv
    <2>4. Queue'
      BY <1>6, <1>7, <1>9, <2>1 DEF Queue, SleepersAreQueued, NoLostWakeUp
    <2> QED
      BY <1>2, <1>3, <2>1, <2>2, <2>3, <2>4, Facts, KinStep
  <1> QED
    BY <1>8, <1>9

\* A reader that was woken.
LEMMA ReadResumedStep ==
  ASSUME IInv, read_resumed
  PROVE  IInv'
  <1> DEFINE p == current_process
  <1>1. p \in Slots /\ processes[p].pid # 0 /\ processes[p].frame = "read"
    BY Facts DEF read_resumed, OnProcessor
  <1>2. Quiet(processes, processes) /\ read_wait \in Seq(Slots)
    BY Facts, QuietItself DEF ScalarsOK
  <1>3. CASE newline_present
    <2>1. LineRead(processes, p, read_wait)
      BY <1>3 DEF read_resumed
    <2>2. Len(read_wait) >= Cardinality(Reading(processes)) /\ SleepersAreQueued
      BY DEF IInv, Queue
    <2> QED
      BY <1>1, <1>2, <2>1, <2>2, Facts, LineReadStep DEF Quiet, SleepersAreQueued
  <1>4. CASE ~newline_present
    <2>1. /\ ScalarsOK' /\ OnProcessor' /\ UNCHANGED tty /\ processes' = processes
          /\ processes_count' = processes_count /\ next_pid' = next_pid
      BY <1>4, Facts DEF read_resumed, ScalarsOK, OnProcessor, tty
    <2> QED
      BY <1>2, <2>1, Facts, QuietStep
  <1> QED
    BY <1>3, <1>4

-----------------------------------------------------------------------------
(* wait: the end of a child                                                *)

\* What an empty entry is.
LEMMA BlankEntry ==
  /\ Blank \in Process /\ Blank.pid = 0 /\ Blank.pstate = "NEW"
  /\ Blank.parent = Null /\ Blank.stack = "null" /\ Blank.frame = "none"
  /\ Blank.max_children_count = 0 /\ Blank.children_count = 0
  /\ Blank.kernel_mode = FALSE /\ Blank.signal_handled = FALSE
  /\ Blank.handlers = {} /\ Blank.pending_signals = <<>>
  /\ DOMAIN Blank.children = 0 .. 0 - 1
  <1> DEFINE none == <<>>
  <1>1. none \in SignalQueues
    BY DEF SignalQueues
  <1>2. DOMAIN none = {} /\ none = [i \in {} |-> none[i]] /\ 0 .. 0 - 1 = {}
    OBVIOUS
  <1>3. none \in [0 .. 0 - 1 -> Slots \cup {Null}]
    BY <1>2
  <1>4. none \in ChildTables
    BY <1>3, Constants DEF ChildTables
  <1>5. /\ Blank = [pid |-> 0, pstate |-> "NEW", kernel_mode |-> FALSE,
                    parent |-> Null, children |-> none, children_count |-> 0,
                    max_children_count |-> 0, pending_signals |-> none,
                    signal_handled |-> FALSE, handlers |-> {}, stack |-> "null",
                    frame |-> "none"]
    BY DEF Blank
  <1> HIDE DEF none
  <1> QED
    BY <1>1, <1>2, <1>4, <1>5, Constants DEF Process

\* The entry of a parent that has reaped the child at index i.
Bereft(e, i) ==
  [e EXCEPT !.children_count = @ - 1, !.children = [@ EXCEPT ![i] = Null],
            !.pstate = "RUNNING", !.frame = "none", !.kernel_mode = FALSE]

\* A table of children with one index changed.
LEMMA ChildTableWith ==
  ASSUME NEW c \in ChildTables, NEW i \in DOMAIN c, NEW x \in Slots \cup {Null}
  PROVE  /\ [c EXCEPT ![i] = x] \in ChildTables
         /\ DOMAIN [c EXCEPT ![i] = x] = DOMAIN c
         /\ [c EXCEPT ![i] = x][i] = x
         /\ \A j \in DOMAIN c \ {i} : [c EXCEPT ![i] = x][j] = c[j]
  <1>1. PICK n \in Slots : c \in [0 .. n - 1 -> Slots \cup {Null}]
    BY DEF ChildTables
  <1>2. [c EXCEPT ![i] = x] \in [0 .. n - 1 -> Slots \cup {Null}]
    BY <1>1
  <1> QED
    BY <1>1, <1>2 DEF ChildTables

\* What the reaping of a child leaves of its parent.
LEMMA BereftEntry ==
  ASSUME NEW e \in Process, NEW i \in DOMAIN e.children, e.children_count # 0
  PROVE  LET r == Bereft(e, i)
         IN  /\ r \in Process
             /\ r.pid = e.pid /\ r.parent = e.parent /\ r.stack = e.stack
             /\ r.max_children_count = e.max_children_count
             /\ r.children_count = e.children_count - 1
             /\ r.pstate = "RUNNING" /\ r.frame = "none" /\ r.kernel_mode = FALSE
             /\ r.pending_signals = e.pending_signals
             /\ r.signal_handled = e.signal_handled /\ r.handlers = e.handlers
             /\ DOMAIN r.children = DOMAIN e.children
             /\ r.children[i] = Null
             /\ \A j \in DOMAIN e.children \ {i} : r.children[j] = e.children[j]
  <1> DEFINE c == [e.children EXCEPT ![i] = Null]
             n == e.children_count - 1
             r == Bereft(e, i)
  <1>1. e.children \in ChildTables /\ e.children_count \in Slots
    BY DEF Process
  <1>2. /\ c \in ChildTables /\ DOMAIN c = DOMAIN e.children /\ c[i] = Null
        /\ \A j \in DOMAIN e.children \ {i} : c[j] = e.children[j]
    BY <1>1, ChildTableWith
  <1>3. n \in Slots
    BY <1>1, Constants DEF Slots
  <1>4. r = [e EXCEPT !.children_count = n, !.children = c, !.pstate = "RUNNING",
                      !.frame = "none", !.kernel_mode = FALSE]
    BY DEF Bereft
  <1> HIDE DEF c, n, r
  <1>5. /\ r \in Process
        /\ r.pid = e.pid /\ r.parent = e.parent /\ r.stack = e.stack
        /\ r.max_children_count = e.max_children_count
        /\ r.children_count = n /\ r.children = c
        /\ r.pstate = "RUNNING" /\ r.frame = "none" /\ r.kernel_mode = FALSE
        /\ r.pending_signals = e.pending_signals
        /\ r.signal_handled = e.signal_handled /\ r.handlers = e.handlers
    BY <1>2, <1>3, <1>4 DEF Process
  <1> QED
    BY <1>2, <1>5 DEF r, n

\* Table u is t after p has reaped its child at index i.
Reaped(t, u, p, i) ==
  LET e == t[p]
      r == u[p]
      c == e.children[i]
  IN  /\ u[c] = Blank
      /\ r.pid = e.pid /\ r.parent = e.parent /\ r.stack = e.stack
      /\ r.max_children_count = e.max_children_count
      /\ r.children_count = e.children_count - 1
      /\ r.pstate = "RUNNING" /\ r.frame = "none"
      /\ DOMAIN r.children = DOMAIN e.children
      /\ r.children[i] = Null
      /\ \A j \in DOMAIN e.children \ {i} : r.children[j] = e.children[j]
      /\ \A s \in Slots \ {c, p} : u[s] = t[s]

\* The child, and that nobody else has it.
LEMMA ReapedChild ==
  ASSUME NEW t \in Table, Vacant(t), Family(t), NEW p \in Slots, NEW i \in Taken(t, p)
  PROVE  LET c == t[p].children[i]
         IN  /\ c \in Slots /\ c # p /\ t[c].pid # 0 /\ t[c].parent = p
             /\ i \in DOMAIN t[p].children
             /\ \A q \in Slots : \A j \in Taken(t, q) :
                  t[q].children[j] = c => q = p /\ j = i
  <1> DEFINE c == t[p].children[i]
  <1>1. c \in Slots
    BY ChildSlot
  <1>2. t[c].pid # 0 /\ t[c].parent = p /\ i \in DOMAIN t[p].children
    BY DEF Family, Taken
  <1>3. c # p
    BY <1>1, <1>2 DEF Family
  <1>4. ASSUME NEW q \in Slots, NEW j \in Taken(t, q), t[q].children[j] = c
        PROVE  q = p /\ j = i
    <2>1. t[t[q].children[j]].parent = q
      BY DEF Family
    <2>2. q = p
      BY <1>2, <1>4, <2>1
    <2> QED
      BY <1>4, <2>2 DEF Family
  <1> QED
    BY <1>1, <1>2, <1>3, <1>4

\* The other families are whole, and that of p has one child less.
LEMMA ReapedFamily ==
  ASSUME NEW t \in Table, NEW u \in Table, Vacant(t), Family(t),
         NEW p \in Slots, t[p].pid # 0, NEW i \in Taken(t, p), Reaped(t, u, p, i)
  PROVE  Vacant(u) /\ Family(u)
  <1> DEFINE c == t[p].children[i]
  <1>1. /\ c \in Slots /\ c # p /\ t[c].pid # 0 /\ t[c].parent = p
        /\ i \in DOMAIN t[p].children
        /\ \A q \in Slots : \A j \in Taken(t, q) :
             t[q].children[j] = c => q = p /\ j = i
    BY ReapedChild
  <1>2. /\ u[c] = Blank
        /\ \A s \in Slots \ {c, p} : u[s] = t[s]
        /\ u[p].pid = t[p].pid /\ u[p].parent = t[p].parent
        /\ u[p].stack = t[p].stack
        /\ u[p].max_children_count = t[p].max_children_count
        /\ u[p].children_count = t[p].children_count - 1
        /\ DOMAIN u[p].children = DOMAIN t[p].children
        /\ u[p].children[i] = Null
        /\ \A j \in DOMAIN t[p].children \ {i} : u[p].children[j] = t[p].children[j]
    BY DEF Reaped
  <1> HIDE DEF c
  <1>3. Vacant(u)
    <2> SUFFICES ASSUME NEW s \in Slots
                 PROVE  /\ u[s].pid = 0 <=> u[s].stack = "null"
                        /\ u[s].pid = 0 => /\ u[s].parent = Null
                                           /\ u[s].pstate = "NEW"
                                           /\ u[s].frame = "none"
                                           /\ u[s].max_children_count = 0
      BY DEF Vacant
    <2>1. CASE s = c
      BY <2>1, <1>2, BlankEntry
    <2>2. CASE s = p
      BY <2>2, <1>2 DEF Vacant
    <2>3. CASE s \notin {c, p}
      BY <2>3, <1>2 DEF Vacant
    <2> QED
      BY <2>1, <2>2, <2>3
  <1>4. Taken(u, c) = {} /\ DOMAIN u[c].children = Indices(u, c)
        /\ u[c].children_count = Cardinality(Taken(u, c)) /\ u[c].parent # c
    <2>1. Indices(u, c) = 0 .. 0 - 1 /\ Taken(u, c) = {}
      BY <1>2, BlankEntry DEF Indices, Taken
    <2> QED
      BY <1>1, <1>2, <2>1, BlankEntry, Constants, FS_EmptySet
  <1>5. Indices(u, p) = Indices(t, p) /\ Taken(u, p) = Taken(t, p) \ {i}
    <2>1. Indices(u, p) = Indices(t, p)
      BY <1>2 DEF Indices
    <2>2. DOMAIN t[p].children = Indices(t, p)
      BY DEF Family
    <2>3. ASSUME NEW j \in Indices(t, p)
          PROVE  u[p].children[j] # Null <=> t[p].children[j] # Null /\ j # i
      BY <1>2, <2>2, <2>3
    <2> QED
      BY <2>1, <2>3 DEF Taken
  <1>6. u[p].children_count = Cardinality(Taken(u, p))
    <2>1. IsFiniteSet(Taken(t, p)) /\ t[p].children_count = Cardinality(Taken(t, p))
      <3>1. Taken(t, p) \in SUBSET Slots
        BY Entry, Constants DEF Taken, Indices, Slots
      <3> QED
        BY <3>1, FiniteSlots DEF Family
    <2> QED
      BY <1>2, <1>5, <2>1, FS_RemoveElement
  <1>7. ASSUME NEW q \in Slots \ {c, p}
        PROVE  Taken(u, q) = Taken(t, q) /\ Indices(u, q) = Indices(t, q)
    BY <1>2, <1>7 DEF Taken, Indices
  <1>8. ASSUME NEW q \in Slots
        PROVE  /\ u[q].parent # q
               /\ DOMAIN u[q].children = Indices(u, q)
               /\ u[q].children_count = Cardinality(Taken(u, q))
    <2>1. CASE q = c
      BY <1>4, <2>1
    <2>2. CASE q = p
      BY <1>2, <1>5, <1>6, <2>2 DEF Family
    <2>3. CASE q \notin {c, p}
      BY <1>2, <1>7, <2>3 DEF Family
    <2> QED
      BY <2>1, <2>2, <2>3
  <1>9. ASSUME NEW q \in Slots, NEW j \in Taken(u, q)
        PROVE  /\ j \in Taken(t, q) /\ u[q].children[j] = t[q].children[j]
               /\ t[q].children[j] \in Slots \ {c}
    <2>1. j \in Taken(t, q) /\ u[q].children[j] = t[q].children[j] /\ <<q, j>> # <<p, i>>
      <3>1. q # c
        BY <1>4, <1>9
      <3>2. CASE q = p
        BY <1>2, <1>5, <1>9, <3>2, ZenonT(40) DEF Taken, Family
      <3>3. CASE q # p
        BY <1>2, <1>7, <1>9, <3>1, <3>3
      <3> QED
        BY <3>2, <3>3
    <2> QED
      BY <1>1, <2>1, ChildSlot
  <1>10. ASSUME NEW q \in Slots, NEW j \in Taken(u, q)
         PROVE  /\ u[u[q].children[j]].pid # 0
                /\ u[u[q].children[j]].parent = q
                /\ \A k \in Taken(u, q) : u[q].children[j] = u[q].children[k] => j = k
    <2> DEFINE d == t[q].children[j]
    <2>1. j \in Taken(t, q) /\ u[q].children[j] = d /\ d \in Slots \ {c}
      BY <1>9, <1>10
    <2>2. t[d].pid # 0 /\ t[d].parent = q
      BY <2>1 DEF Family
    <2> HIDE DEF d
    <2>3. u[d].pid = t[d].pid /\ u[d].parent = t[d].parent
      BY <1>2, <2>1
    <2>4. \A k \in Taken(u, q) : u[q].children[j] = u[q].children[k] => j = k
      BY <1>9, <1>10 DEF Family
    <2> QED
      BY <2>1, <2>2, <2>3, <2>4
  <1> QED
    BY <1>3, <1>8, <1>10 DEF Family

\* The rest of the invariant.
LEMMA ReapedTable ==
  ASSUME NEW t \in Table, NEW u \in Table, Vacant(t), Family(t), Exits(t),
         NEW p \in Slots, t[p].pid # 0, NEW i \in Taken(t, p), Reaped(t, u, p, i),
         NEW n \in Int, Numbered(t, n)
  PROVE  /\ Numbered(u, n) /\ Exits(u) /\ Calm(t, u)
         /\ Cardinality(Used(u)) = Cardinality(Used(t)) - 1
         /\ Cardinality(Used(u)) >= 1
  <1> DEFINE c == t[p].children[i]
  <1>1. /\ c \in Slots /\ c # p /\ t[c].pid # 0 /\ t[c].parent = p
    BY ReapedChild
  <1>2. /\ u[c] = Blank
        /\ \A s \in Slots \ {c, p} : u[s] = t[s]
        /\ u[p].pid = t[p].pid /\ u[p].parent = t[p].parent
        /\ u[p].max_children_count = t[p].max_children_count
        /\ u[p].pstate = "RUNNING" /\ u[p].frame = "none"
        /\ DOMAIN u[p].children = DOMAIN t[p].children
    BY DEF Reaped
  <1> HIDE DEF c
  <1>3. Numbered(u, n)
    <2>1. c # 0
      BY <1>1, Constants DEF Numbered
    <2>2. \A s \in Slots \ {c} : u[s].pid = t[s].pid /\ u[s].parent = t[s].parent
      BY <1>2
    <2>3. u[c].pid = 0 /\ u[0].pid = PID_INIT /\ u[0].parent = Null /\ t[0].pid = PID_INIT
      BY <1>2, <2>1, <2>2, BlankEntry, Constants DEF Numbered
    <2>4. \A s \in Slots : u[s].pid < n
      BY <2>1, <2>2, <2>3, Constants DEF Numbered, PID_INIT
    <2>5. \A q, s \in Slots : u[q].pid = u[s].pid /\ u[q].pid # 0 => q = s
      BY <2>2, <2>3 DEF Numbered
    <2> QED
      BY <2>3, <2>4, <2>5 DEF Numbered
  <1>4. Calm(t, u)
    BY <1>2, BlankEntry DEF Calm
  <1>5. /\ Cardinality(Used(u)) = Cardinality(Used(t)) - 1
        /\ Cardinality(Used(u)) >= 1
    <2>1. Used(u) = Used(t) \ {c} /\ c \in Used(t) /\ p \in Used(u)
      BY <1>1, <1>2, BlankEntry DEF Used
    <2>2. /\ IsFiniteSet(Used(t)) /\ IsFiniteSet(Used(u))
          /\ Cardinality(Used(t)) \in Nat /\ Cardinality(Used(u)) \in Nat
      BY FiniteSlots DEF Used
    <2>3. Cardinality(Used(u)) # 0
      BY <2>1, <2>2, FS_EmptySet
    <2> QED
      BY <2>1, <2>2, <2>3, FS_RemoveElement
  <1>6. Exits(u)
    <2> SUFFICES ASSUME NEW q \in Slots, NEW j \in Taken(u, q),
                        u[q].pstate = "WAITING_FOR_CHILD_EXIT",
                        u[u[q].children[j]].pstate = "TERMINATED"
                 PROVE  Notified(u[q])
      BY DEF Exits
    <2>1. q \notin {c, p}
      BY <1>2, BlankEntry
    <2>2. u[q] = t[q] /\ j \in Taken(t, q)
      BY <1>2, <2>1 DEF Taken, Indices
    <2> DEFINE d == t[q].children[j]
    <2>3. d \in Slots /\ u[d].pstate = "TERMINATED"
      BY <2>2, ChildSlot
    <2> HIDE DEF d
    <2>4. t[d].pstate = "TERMINATED"
      BY <1>2, <2>3, BlankEntry
    <2> QED
      BY <2>2, <2>4 DEF Exits, d
  <1> QED
    BY <1>3, <1>4, <1>5, <1>6

\* What the second half of sys_wait does to the table: the last dead child goes,
\* its parent goes on, and nothing else changes.
LEMMA ReapEntries ==
  ASSUME IInv, NEW p \in Slots, Reap(p), Zombies(p) # {}
  PROVE  \E i \in Taken(processes, p) :
           LET c == processes[p].children[i]
           IN  /\ c \in Slots \ {p} /\ processes[c].pid # 0
               /\ processes[c].parent = p /\ processes[c].pstate = "TERMINATED"
               /\ i \in DOMAIN processes[p].children
               /\ processes[p].children_count # 0
               /\ Bereft(processes[p], i) \in Process
               /\ processes' \in Table
               /\ processes'[c] = Blank /\ processes'[p] = Bereft(processes[p], i)
               /\ \A s \in Slots \ {c, p} : processes'[s] = processes[s]
  <1> DEFINE t == processes
             e == t[p]
             i == CHOOSE i \in Zombies(p) : \A j \in Zombies(p) : j <= i
             c == e.children[i]
             r == Bereft(e, i)
             u == processes'
  <1>1. /\ t \in Table /\ Vacant(t) /\ Family(t)
        /\ \A s \in Slots : t[s] \in Process
    BY Facts DEF Table
  <1>2. i \in Zombies(p)
    <2>1. e.max_children_count \in Nat
      BY <1>1, Constants DEF Process
    <2>2. Zombies(p) \in SUBSET (0 .. e.max_children_count)
      BY <2>1 DEF Zombies, ChildIndices
    <2>3. \E n \in Zombies(p) : \A m \in Zombies(p) : m <= n
      BY <2>1, <2>2, Greatest
    <2> QED
      BY <2>3
  <1> HIDE DEF i
  <1>3. i \in Taken(t, p) /\ i \in DOMAIN e.children /\ t[c].pstate = "TERMINATED"
    BY <1>1, <1>2 DEF Zombies, ChildIndices, Taken, Indices, Family
  <1>4. c \in Slots /\ t[c].pid # 0 /\ t[c].parent = p /\ c # p
    BY <1>1, <1>3, ChildSlot DEF Family
  <1>5. e.children_count # 0
    <2>1. Taken(t, p) \in SUBSET Slots
      BY <1>1, Constants DEF Taken, Indices, Process, Slots
    <2>2. Cardinality(Taken(t, p)) # 0
      BY <1>3, <2>1, FiniteSlots, FS_EmptySet
    <2> QED
      BY <1>1, <2>2 DEF Family
  <1>6. r \in Process
    BY <1>1, <1>3, <1>5, BereftEntry
  <1>7. u = With(With(t, c, Blank), p, r)
    <2>1. u = Returning([Evaporated(processes, p, i)
                           EXCEPT ![p].pstate = "RUNNING", ![p].frame = "none"], p)
      BY DEF Reap, Reapable, i
    <2> QED
      BY <1>1, <1>4, <2>1, ZenonT(40) DEF Evaporated, Returning, With, Bereft, Table
  <1> HIDE DEF r, u
  <1>8. /\ u \in Table /\ u[c] = Blank /\ u[p] = r
        /\ \A s \in Slots \ {c, p} : u[s] = t[s]
    <2> DEFINE w == With(t, c, Blank)
    <2>1. w \in Table /\ w[c] = Blank /\ \A s \in Slots \ {c} : w[s] = t[s]
      <3>1. Blank \in Process
        BY BlankEntry
      <3> QED
        BY <1>1, <1>4, <3>1, WithEntries, ZenonT(40)
    <2> HIDE DEF w
    <2>2. With(w, p, r) \in Table /\ With(w, p, r)[p] = r
          /\ \A s \in Slots \ {p} : With(w, p, r)[s] = w[s]
      BY <1>6, <2>1, WithEntries
    <2> QED
      BY <1>4, <1>7, <2>1, <2>2 DEF w
  <1> QED
    BY <1>3, <1>4, <1>5, <1>6, <1>8 DEF r, u

\* The second half of sys_wait.
LEMMA ReapStep ==
  ASSUME IInv, NEW p \in Slots, processes[p].pid # 0, current_process = p, Reap(p)
  PROVE  IInv'
  <1>1. CASE Zombies(p) = {}
    BY <1>1, BrokenStep DEF Reap, Reapable, Damages
  <1>2. CASE Zombies(p) # {}
    <2> DEFINE t == processes
               e == t[p]
               u == processes'
    <2>1. /\ t \in Table /\ Vacant(t) /\ Family(t) /\ ScalarsOK
          /\ \A s \in Slots : t[s] \in Process
      BY Facts DEF Table
    <2>2. PICK i \in Taken(t, p) :
            LET c == e.children[i]
            IN  /\ c \in Slots \ {p} /\ t[c].pid # 0
                /\ t[c].parent = p /\ t[c].pstate = "TERMINATED"
                /\ i \in DOMAIN e.children /\ e.children_count # 0
                /\ Bereft(e, i) \in Process
                /\ u \in Table /\ u[c] = Blank /\ u[p] = Bereft(e, i)
                /\ \A s \in Slots \ {c, p} : u[s] = t[s]
      BY <1>2, ReapEntries
    <2> DEFINE r == Bereft(e, i)
    <2>3. /\ r.pid = e.pid /\ r.parent = e.parent /\ r.stack = e.stack
          /\ r.max_children_count = e.max_children_count
          /\ r.children_count = e.children_count - 1
          /\ r.pstate = "RUNNING" /\ r.frame = "none"
          /\ DOMAIN r.children = DOMAIN e.children
          /\ r.children[i] = Null
          /\ \A j \in DOMAIN e.children \ {i} : r.children[j] = e.children[j]
      BY <2>1, <2>2, BereftEntry
    <2>4. /\ processes_count' = processes_count - 1 /\ mode' = "user"
          /\ UNCHANGED <<current_process, current_index, next_pid, damage, tty>>
      BY <1>2 DEF Reap, Reapable
    <2> HIDE DEF r, u
    <2>5. Reaped(t, u, p, i) /\ u \in Table
      BY <2>2, <2>3 DEF Reaped, r, u
    <2>6. Vacant(u) /\ Family(u)
      BY <2>1, <2>2, <2>5, ReapedFamily
    <2>7. next_pid \in Int /\ Numbered(t, next_pid) /\ Exits(t)
      BY Facts DEF IInv
    <2>8. /\ Numbered(u, next_pid) /\ Exits(u) /\ Calm(t, u)
          /\ Cardinality(Used(u)) = Cardinality(Used(t)) - 1
          /\ Cardinality(Used(u)) >= 1
      BY <2>1, <2>2, <2>5, <2>7, ReapedTable
    <2>9. processes_count' >= Cardinality(Used(u)) /\ processes_count' >= 1
      <3>1. Cardinality(Used(t)) \in Nat /\ Cardinality(Used(u)) \in Nat
        BY FiniteSlots DEF Used
      <3>2. processes_count \in Int /\ processes_count >= Cardinality(Used(t))
        BY Facts DEF IInv
      <3> QED
        BY <2>4, <2>8, <3>1, <3>2
    <2>10. ScalarsOK'
      BY <2>1, <2>4, <2>9, Constants DEF ScalarsOK, tty
    <2>11. OnProcessor'
      <3>1. processes'[p].pid # 0 /\ current_process' = p /\ mode' = "user"
        BY <2>2, <2>3, <2>4 DEF r, u
      <3> QED
        BY <3>1 DEF OnProcessor
    <2>12. TypeOK'
      <3>1. \A s \in Slots : DOMAIN u[s].children = ChildIndices(s)'
        BY <2>6 DEF Family, Indices, ChildIndices, u
      <3> QED
        BY <2>5, <2>10, <3>1 DEF TypeOK, ScalarsOK, Table, u
    <2>13. Queue'
      BY <2>4, <2>8, <2>12, CalmQueue DEF IInv, u
    <2> QED
      BY <2>4, <2>6, <2>8, <2>9, <2>11, <2>12, <2>13 DEF IInv, u
  <1> QED
    BY <1>1, <1>2

\* sys_wait: it sleeps only when no child of its own is dead.
LEMMA WaitStep ==
  ASSUME IInv, NEW p \in Slots, sys_wait(p)
  PROVE  IInv'
  <1>1. /\ processes \in Table /\ Vacant(processes) /\ Family(processes)
        /\ processes[p].pid # 0 /\ current_process = p /\ InUserMode(p)
    BY Facts DEF sys_wait, InUserMode
  <1>2. CASE Zombies(p) # {}
    BY <1>1, <1>2, ReapStep DEF sys_wait
  <1>3. CASE Zombies(p) = {}
    <2> DEFINE t == processes
               u == Blocking(t, p, "wait", "WAITING_FOR_CHILD_EXIT")
    <2>0. Blocks(t, u, p, "wait", "WAITING_FOR_CHILD_EXIT")
      BY <1>1, BlockingTable
    <2> HIDE DEF u
    <2>1. /\ u \in Table /\ SameProcess(t[p], u[p])
          /\ u[p].pstate = "WAITING_FOR_CHILD_EXIT" /\ u[p].frame = "wait"
      BY <2>0 DEF Blocks
    <2>2. \A s \in Slots \ {p} : u[s] = t[s]
      BY <2>0 DEF Blocks
    <2>3. /\ processes' = u /\ mode' = "switch"
          /\ UNCHANGED <<current_process, current_index, processes_count,
                         next_pid, damage, tty>>
      BY <1>3 DEF sys_wait, u
    <2>4. Kin(t, u)
      BY <1>1, <2>1, <2>2 DEF Kin, SameProcess, Vacant
    <2>5. Calm(t, u)
      BY <2>1, <2>2 DEF Calm
    <2>6. Exits(u)
      <3> SUFFICES ASSUME NEW q \in Slots, NEW i \in Taken(u, q),
                          u[q].pstate = "WAITING_FOR_CHILD_EXIT",
                          u[u[q].children[i]].pstate = "TERMINATED"
                   PROVE  Notified(u[q])
        BY DEF Exits
      <3> DEFINE d == t[q].children[i]
      <3>1. i \in Taken(t, q) /\ u[q].children = t[q].children
        BY <1>1, <2>1, <2>4, KinSets DEF Kin, SameProcess
      <3>2. d \in Slots /\ t[d].parent = q /\ u[d].pstate = "TERMINATED"
        BY <1>1, <3>1, ChildSlot DEF Family
      <3>3. t[d].pstate = "TERMINATED"
        BY <2>1, <2>2, <3>2
      <3>4. q # p
        BY <1>3, <3>1, <3>3 DEF Zombies, Taken, Indices, ChildIndices
      <3>5. u[q] = t[q]
        BY <2>2, <3>4
      <3> QED
        BY <3>1, <3>3, <3>5 DEF IInv, Exits
    <2>7. ScalarsOK' /\ OnProcessor'
      BY <2>3, Facts DEF ScalarsOK, OnProcessor, tty
    <2>8. TypeOK'
      <3>1. \A s \in Slots : DOMAIN u[s].children = ChildIndices(s)'
        BY <1>1, <2>3, <2>4 DEF Kin, SameProcess, Family, Indices, ChildIndices
      <3> QED
        BY <2>1, <2>3, <2>7, <3>1 DEF TypeOK, ScalarsOK, Table
    <2>9. Queue'
      BY <2>3, <2>5, <2>8, CalmQueue DEF IInv
    <2> QED
      BY <2>3, <2>4, <2>6, <2>7, <2>8, <2>9, Facts, Conclude
  <1> QED
    BY <1>2, <1>3

\* sys_wait after its sleep.
LEMMA WaitResumedStep ==
  ASSUME IInv, wait_resumed
  PROVE  IInv'
  <1>1. current_process \in Slots /\ processes[current_process].pid # 0
    BY Facts DEF wait_resumed, OnProcessor
  <1> QED
    BY <1>1, ReapStep DEF wait_resumed

-----------------------------------------------------------------------------
(* spawn: a new child                                                      *)

\* Table u is t after p has spawned a child in slot c, numbered n.
Spawned(t, u, p, c, n) ==
  LET e == t[p]
      r == u[p]
  IN  /\ t[c].pid = 0
      /\ u[c].pid = n /\ u[c].parent = p /\ u[c].stack # "null"
      /\ u[c].pstate = "READY" /\ u[c].frame = "none" /\ u[c].children_count = 0
      /\ DOMAIN u[c].children = Indices(u, c)
      /\ \A j \in Indices(u, c) : u[c].children[j] = Null
      /\ r.pid = e.pid /\ r.parent = e.parent /\ r.stack = e.stack
      /\ r.max_children_count = e.max_children_count
      /\ r.pstate = e.pstate /\ r.frame = e.frame
      /\ r.pending_signals = e.pending_signals
      /\ DOMAIN r.children = DOMAIN e.children
      /\ \/ r.children = e.children /\ r.children_count = e.children_count
         \/ \E i \in Indices(t, p) \ Taken(t, p) :
              /\ r.children[i] = c /\ r.children_count = e.children_count + 1
              /\ \A j \in DOMAIN e.children \ {i} : r.children[j] = e.children[j]
      /\ \A s \in Slots \ {c, p} : u[s] = t[s]

\* A child that is in the table of its parent, or in none.
LEMMA SpawnedFamily ==
  ASSUME NEW t \in Table, NEW u \in Table, Vacant(t), Family(t),
         NEW p \in Slots, t[p].pid # 0, NEW c \in Slots, NEW n \in Nat \ {0},
         Spawned(t, u, p, c, n)
  PROVE  Vacant(u) /\ Family(u)
  <1>1. c # p
    BY DEF Spawned
  <1>2. /\ \A s \in Slots \ {c, p} : u[s] = t[s]
        /\ u[p].pid = t[p].pid /\ u[p].parent = t[p].parent
        /\ u[p].stack = t[p].stack
        /\ u[p].max_children_count = t[p].max_children_count
        /\ DOMAIN u[p].children = DOMAIN t[p].children
    BY DEF Spawned
  <1>3. /\ t[c].pid = 0 /\ u[c].pid = n /\ u[c].parent = p /\ u[c].stack # "null"
        /\ u[c].children_count = 0 /\ DOMAIN u[c].children = Indices(u, c)
        /\ \A j \in Indices(u, c) : u[c].children[j] = Null
    BY DEF Spawned
  <1>4. Vacant(u)
    <2> SUFFICES ASSUME NEW s \in Slots
                 PROVE  /\ u[s].pid = 0 <=> u[s].stack = "null"
                        /\ u[s].pid = 0 => /\ u[s].parent = Null
                                           /\ u[s].pstate = "NEW"
                                           /\ u[s].frame = "none"
                                           /\ u[s].max_children_count = 0
      BY DEF Vacant
    <2>1. CASE s = c
      BY <2>1, <1>3
    <2>2. CASE s = p
      BY <2>2, <1>2 DEF Vacant
    <2>3. CASE s \notin {c, p}
      BY <2>3, <1>2 DEF Vacant
    <2> QED
      BY <2>1, <2>2, <2>3
  <1>5. Taken(u, c) = {}
    BY <1>3 DEF Taken
  <1>6. Indices(u, p) = Indices(t, p) /\ DOMAIN t[p].children = Indices(t, p)
    BY <1>2 DEF Indices, Family
  <1>7. IsFiniteSet(Taken(t, p)) /\ t[p].children_count = Cardinality(Taken(t, p))
    <2>1. Taken(t, p) \in SUBSET Slots
      BY Entry, Constants DEF Taken, Indices, Slots
    <2> QED
      BY <2>1, FiniteSlots DEF Family
  \* The index that p gives to the child, if it has one.
  <1>8. /\ u[p].children_count = Cardinality(Taken(u, p))
        /\ \A j, k \in Taken(u, p) :
             u[p].children[j] = c /\ u[p].children[k] = c => j = k
        /\ \A j \in Taken(u, p) :
             u[p].children[j] # c => j \in Taken(t, p) /\ u[p].children[j] = t[p].children[j]
    <2>0. \A j \in Taken(t, p) : t[p].children[j] # c
      BY <1>3 DEF Family
    <2>1. CASE u[p].children = t[p].children /\ u[p].children_count = t[p].children_count
      <3>1. Taken(u, p) = Taken(t, p)
        BY <1>6, <2>1 DEF Taken
      <3> QED
        BY <1>7, <2>0, <2>1, <3>1
    <2>2. ASSUME NEW i \in Indices(t, p) \ Taken(t, p),
                 u[p].children[i] = c, u[p].children_count = t[p].children_count + 1,
                 \A j \in DOMAIN t[p].children \ {i} : u[p].children[j] = t[p].children[j]
          PROVE  /\ u[p].children_count = Cardinality(Taken(u, p))
                 /\ \A j, k \in Taken(u, p) :
                      u[p].children[j] = c /\ u[p].children[k] = c => j = k
                 /\ \A j \in Taken(u, p) :
                      u[p].children[j] # c =>
                        j \in Taken(t, p) /\ u[p].children[j] = t[p].children[j]
      <3>1. ASSUME NEW j \in Indices(t, p)
            PROVE  u[p].children[j] # Null <=> t[p].children[j] # Null \/ j = i
        BY <1>6, <2>2, <3>1, Constants
      <3>2. Taken(u, p) = Taken(t, p) \cup {i}
        BY <1>6, <3>1 DEF Taken
      <3>3. \A j \in Taken(t, p) : j # i /\ u[p].children[j] = t[p].children[j]
        BY <1>6, <2>2 DEF Taken
      <3>4. Cardinality(Taken(u, p)) = Cardinality(Taken(t, p)) + 1
        BY <1>7, <3>2, FS_AddElement
      <3> QED
        BY <1>7, <2>0, <2>2, <3>2, <3>3, <3>4
    <2> QED
      BY <2>1, <2>2 DEF Spawned
  <1>9. ASSUME NEW q \in Slots \ {c, p}
        PROVE  Taken(u, q) = Taken(t, q) /\ Indices(u, q) = Indices(t, q) /\ u[q] = t[q]
    BY <1>2, <1>9 DEF Taken, Indices
  <1>10. ASSUME NEW q \in Slots
         PROVE  /\ u[q].parent # q
                /\ DOMAIN u[q].children = Indices(u, q)
                /\ u[q].children_count = Cardinality(Taken(u, q))
    <2>1. CASE q = c
      BY <1>1, <1>3, <1>5, <2>1, FS_EmptySet
    <2>2. CASE q = p
      BY <1>2, <1>6, <1>8, <2>2 DEF Family
    <2>3. CASE q \notin {c, p}
      BY <1>9, <2>3 DEF Family
    <2> QED
      BY <2>1, <2>2, <2>3
  \* A child that t had is unchanged, as far as its parent is concerned.
  <1>11. ASSUME NEW q \in Slots, NEW j \in Taken(t, q)
         PROVE  LET d == t[q].children[j]
                IN  d # c /\ u[d].pid # 0 /\ u[d].parent = q
    <2> DEFINE d == t[q].children[j]
    <2>1. d \in Slots /\ t[d].pid # 0 /\ t[d].parent = q
      BY ChildSlot DEF Family
    <2> HIDE DEF d
    <2>2. d # c /\ u[d].pid = t[d].pid /\ u[d].parent = t[d].parent
      BY <1>2, <1>3, <2>1
    <2> QED
      BY <2>1, <2>2 DEF d
  <1>12. ASSUME NEW q \in Slots, NEW j \in Taken(u, q)
         PROVE  /\ u[u[q].children[j]].pid # 0
                /\ u[u[q].children[j]].parent = q
                /\ \A k \in Taken(u, q) : u[q].children[j] = u[q].children[k] => j = k
    <2>1. CASE q = c
      BY <1>5, <1>12, <2>1
    <2>2. CASE q = p /\ u[p].children[j] = c
      BY <1>3, <1>8, <1>12, <2>2
    <2>3. CASE q = p /\ u[p].children[j] # c
      <3>1. j \in Taken(t, p) /\ u[p].children[j] = t[p].children[j]
        BY <1>8, <1>12, <2>3
      <3>2. \A k \in Taken(u, p) : u[p].children[j] = u[p].children[k] => j = k
        BY <1>8, <2>3, <3>1 DEF Family
      <3> QED
        BY <1>11, <2>3, <3>1, <3>2
    <2>4. CASE q \notin {c, p}
      <3>1. j \in Taken(t, q) /\ u[q] = t[q] /\ Taken(u, q) = Taken(t, q)
        BY <1>9, <1>12, <2>4
      <3>2. \A k \in Taken(u, q) : u[q].children[j] = u[q].children[k] => j = k
        BY <3>1 DEF Family
      <3> QED
        BY <1>11, <3>1, <3>2
    <2> QED
      BY <2>1, <2>2, <2>3, <2>4
  <1> QED
    BY <1>4, <1>10, <1>12 DEF Family

\* The rest of the invariant after it.
LEMMA SpawnedTable ==
  ASSUME NEW t \in Table, NEW u \in Table, Vacant(t), Family(t), Exits(t),
         NEW p \in Slots, t[p].pid # 0, NEW c \in Slots, NEW n \in Nat \ {0},
         Spawned(t, u, p, c, n), Numbered(t, n)
  PROVE  /\ Numbered(u, n + 1) /\ Exits(u) /\ Calm(t, u)
         /\ Cardinality(Used(u)) = Cardinality(Used(t)) + 1
  <1>1. /\ \A s \in Slots \ {c, p} : u[s] = t[s]
        /\ c # p /\ t[c].pid = 0 /\ u[c].pid = n
        /\ u[c].pstate = "READY" /\ u[c].frame = "none"
        /\ u[p].pid = t[p].pid /\ u[p].parent = t[p].parent
        /\ u[p].pstate = t[p].pstate /\ u[p].frame = t[p].frame
        /\ u[p].pending_signals = t[p].pending_signals
    BY DEF Spawned
  <1>2. \A s \in Slots : t[s].pid \in Nat
    BY Entry
  <1>3. Numbered(u, n + 1)
    <2>1. \A s \in Slots \ {c} : u[s].pid = t[s].pid /\ u[s].parent = t[s].parent
      BY <1>1
    <2>2. c # 0
      BY <1>1 DEF Numbered, PID_INIT
    <2>3. u[0].pid = PID_INIT /\ u[0].parent = Null
      BY <2>1, <2>2, Constants DEF Numbered
    <2>4. \A s \in Slots : u[s].pid < n + 1
      BY <1>1, <1>2, <2>1 DEF Numbered
    <2>5. \A q, s \in Slots : u[q].pid = u[s].pid /\ u[q].pid # 0 => q = s
      BY <1>1, <1>2, <2>1 DEF Numbered
    <2> QED
      BY <2>3, <2>4, <2>5 DEF Numbered
  <1>4. Calm(t, u)
    BY <1>1 DEF Calm
  <1>5. Cardinality(Used(u)) = Cardinality(Used(t)) + 1
    <2>1. Used(u) = Used(t) \cup {c} /\ c \notin Used(t)
      BY <1>1 DEF Used
    <2>2. IsFiniteSet(Used(t))
      BY FiniteSlots DEF Used
    <2> QED
      BY <2>1, <2>2, FS_AddElement
  <1>6. Exits(u)
    <2> SUFFICES ASSUME NEW q \in Slots, NEW j \in Taken(u, q),
                        u[q].pstate = "WAITING_FOR_CHILD_EXIT",
                        u[u[q].children[j]].pstate = "TERMINATED"
                 PROVE  Notified(u[q])
      BY DEF Exits
    <2>1. q # c /\ u[q].children[j] # c
      BY <1>1
    <2>2. /\ j \in Taken(t, q) /\ u[q].children[j] = t[q].children[j]
          /\ t[q].pstate = "WAITING_FOR_CHILD_EXIT"
          /\ u[q].pending_signals = t[q].pending_signals
      <3>1. CASE q = p
        <4>1. j \in Indices(t, p) /\ DOMAIN t[p].children = Indices(t, p)
          BY <3>1 DEF Taken, Indices, Spawned, Family
        <4>2. u[p].children[j] = t[p].children[j]
          BY <2>1, <3>1, <4>1 DEF Spawned
        <4> QED
          BY <1>1, <3>1, <4>1, <4>2 DEF Taken
      <3>2. CASE q # p
        BY <1>1, <2>1, <3>2 DEF Taken, Indices
      <3> QED
        BY <3>1, <3>2
    <2> DEFINE d == t[q].children[j]
    <2>3. d \in Slots /\ d # c /\ u[d].pstate = "TERMINATED"
      BY <2>1, <2>2, ChildSlot
    <2> HIDE DEF d
    <2>4. t[d].pstate = "TERMINATED"
      BY <1>1, <2>3
    <2> QED
      BY <2>2, <2>4 DEF Exits, Notified, d
  <1> QED
    BY <1>3, <1>4, <1>5, <1>6

\* The entry of a parent with a child in slot c at the free index i.
Adopter(e, i, c) ==
  [e EXCEPT !.children = [@ EXCEPT ![i] = c], !.children_count = @ + 1,
            !.kernel_mode = FALSE]

\* What a new child changes of its parent.
LEMMA AdopterEntry ==
  ASSUME NEW e \in Process, NEW i \in DOMAIN e.children, NEW c \in Slots,
         e.children_count + 1 \in Slots
  PROVE  LET r == Adopter(e, i, c)
         IN  /\ r \in Process
             /\ r.pid = e.pid /\ r.parent = e.parent /\ r.stack = e.stack
             /\ r.max_children_count = e.max_children_count
             /\ r.pstate = e.pstate /\ r.frame = e.frame
             /\ r.pending_signals = e.pending_signals
             /\ r.signal_handled = e.signal_handled /\ r.handlers = e.handlers
             /\ r.children_count = e.children_count + 1
             /\ DOMAIN r.children = DOMAIN e.children
             /\ r.children[i] = c
             /\ \A j \in DOMAIN e.children \ {i} : r.children[j] = e.children[j]
  <1> DEFINE k == [e.children EXCEPT ![i] = c]
             n == e.children_count + 1
             r == Adopter(e, i, c)
  <1>1. /\ k \in ChildTables /\ DOMAIN k = DOMAIN e.children /\ k[i] = c
        /\ \A j \in DOMAIN e.children \ {i} : k[j] = e.children[j]
    BY ChildTableWith DEF Process
  <1>2. r = [e EXCEPT !.children = k, !.children_count = n, !.kernel_mode = FALSE]
    BY DEF Adopter
  <1>3. n \in Slots
    OBVIOUS
  <1> HIDE DEF k, n, r
  <1>4. /\ r \in Process
        /\ r.pid = e.pid /\ r.parent = e.parent /\ r.stack = e.stack
        /\ r.max_children_count = e.max_children_count
        /\ r.pstate = e.pstate /\ r.frame = e.frame
        /\ r.pending_signals = e.pending_signals
        /\ r.signal_handled = e.signal_handled /\ r.handlers = e.handlers
        /\ r.children_count = n /\ r.children = k
    BY <1>1, <1>2, <1>3 DEF Process
  <1> QED
    BY <1>1, <1>4 DEF r, n

\* What the new child is.
LEMMA NewChildEntry ==
  ASSUME NEW p \in Slots, processes \in Table, processes[p].max_children_count > 0,
         next_pid \in 1 .. MaxPid
  PROVE  LET r == NewChild(p)
             m == processes[p].max_children_count - 1
         IN  /\ r \in Process
             /\ r.pid = next_pid /\ r.parent = p /\ r.stack = "page"
             /\ r.pstate = "READY" /\ r.frame = "none" /\ r.children_count = 0
             /\ r.kernel_mode = FALSE /\ r.signal_handled = FALSE
             /\ r.handlers = {} /\ r.pending_signals = <<>>
             /\ r.max_children_count = m
             /\ r.children = [i \in 0 .. m - 1 |-> Null]
  <1> DEFINE m == processes[p].max_children_count - 1
             k == [i \in 0 .. m - 1 |-> Null]
             r == NewChild(p)
  <1>1. processes[p].max_children_count \in Slots
    BY Entry
  <1>2. m \in Slots
    BY <1>1, Constants DEF Slots
  <1>3. k \in [0 .. m - 1 -> Slots \cup {Null}]
    OBVIOUS
  <1>4. k \in ChildTables
    BY <1>2, <1>3 DEF ChildTables
  <1>5. processes[p].max_children_count - 2 = m - 1
    <2>1. \A x \in Nat : x - 2 = (x - 1) - 1
      OBVIOUS
    <2>2. processes[p].max_children_count \in Nat
      BY <1>1, Constants
    <2> QED
      BY <2>1, <2>2
  <1>6. r = [Blank EXCEPT !.pid = next_pid, !.pstate = "READY", !.parent = p,
                          !.max_children_count = m, !.children = k, !.stack = "page"]
    BY <1>5 DEF NewChild
  <1> HIDE DEF m, k, r
  <1>7. /\ r \in Process
        /\ r.pid = next_pid /\ r.parent = p /\ r.stack = "page"
        /\ r.pstate = "READY" /\ r.frame = "none"
        /\ r.children_count = Blank.children_count
        /\ r.kernel_mode = Blank.kernel_mode /\ r.signal_handled = Blank.signal_handled
        /\ r.handlers = Blank.handlers /\ r.pending_signals = Blank.pending_signals
        /\ r.max_children_count = m /\ r.children = k
    <2>1. Blank \in Process /\ Blank.frame = "none" /\ next_pid \in 0 .. MaxPid
      BY BlankEntry
    <2> HIDE DEF Blank
    <2> QED
      BY <1>2, <1>4, <1>6, <2>1 DEF Process
  <1> QED
    BY <1>7, BlankEntry DEF r, m, k

\* What spawn does to the table: a child of p in an empty slot.
LEMMA SpawnEntries ==
  ASSUME IInv, NEW p \in Slots, spawn(p)
  PROVE  \E c \in Slots \ {p} :
           /\ processes[c] = Blank
           /\ processes' \in Table
           /\ Spawned(processes, processes', p, c, next_pid)
           /\ processes'[c].stack = "page" /\ processes'[p].kernel_mode = FALSE
           /\ c = FirstEmpty /\ processes'[c] = NewChild(p)
           /\ processes'[p].signal_handled = processes[p].signal_handled
           /\ processes'[p].handlers = processes[p].handlers
           /\ Taken(processes, p) # Indices(processes, p) =>
                \E i \in Indices(processes, p) : processes'[p].children[i] = c
  <1> DEFINE t == processes
             e == t[p]
             c == FirstEmpty
             n == NewChild(p)
             w == With(t, c, n)
             u == processes'
  <1>1. /\ t \in Table /\ Vacant(t) /\ Family(t) /\ e \in Process
        /\ e.pid # 0 /\ next_pid \in 1 .. MaxPid
    BY Facts, Constants DEF spawn, InUserMode, Table, ScalarsOK
  <1>2. c \in Slots /\ t[c] = Blank /\ c # p
    <2>1. Empty # {} /\ Empty \in SUBSET Nat
      BY Constants DEF spawn, Empty
    <2>2. \E s \in Empty : \A q \in Empty : s <= q
      BY <2>1, Least
    <2>3. c \in Empty
      BY <2>2 DEF FirstEmpty
    <2> QED
      BY <1>1, <2>3, BlankEntry DEF Empty
  <1> HIDE DEF c
  <1>3. /\ n \in Process
        /\ n.pid = next_pid /\ n.parent = p /\ n.stack = "page"
        /\ n.pstate = "READY" /\ n.frame = "none" /\ n.children_count = 0
        /\ n.children = [i \in 0 .. n.max_children_count - 1 |-> Null]
    <2>1. e.max_children_count > 0
      BY DEF spawn
    <2> QED
      BY <1>1, <2>1, NewChildEntry
  <1>4. u = Returning(Adopted(w, p, c), p)
    BY DEF spawn, With, c
  <1> HIDE DEF n, w
  <1>5. w \in Table /\ w[c] = n /\ w[p] = e /\ \A s \in Slots \ {c} : w[s] = t[s]
    <2>1. w \in Table /\ w[c] = n /\ \A s \in Slots \ {c} : w[s] = t[s]
      BY <1>1, <1>2, <1>3, WithEntries DEF w
    <2> QED
      BY <1>2, <2>1
  \* The new entry of p, with the child at a free index or at none.
  <1>6. \E r \in Process :
          /\ u = With(w, p, r)
          /\ r.pid = e.pid /\ r.parent = e.parent /\ r.stack = e.stack
          /\ r.max_children_count = e.max_children_count
          /\ r.pstate = e.pstate /\ r.frame = e.frame /\ r.kernel_mode = FALSE
          /\ r.pending_signals = e.pending_signals
          /\ r.signal_handled = e.signal_handled /\ r.handlers = e.handlers
          /\ DOMAIN r.children = DOMAIN e.children
          /\ \/ /\ Taken(t, p) = Indices(t, p)
                /\ r.children = e.children /\ r.children_count = e.children_count
             \/ \E i \in Indices(t, p) \ Taken(t, p) :
                  /\ r.children[i] = c /\ r.children_count = e.children_count + 1
                  /\ \A j \in DOMAIN e.children \ {i} : r.children[j] = e.children[j]
    <2>1. CASE FreeIndices(p) = {}
      <3>1. u = With(w, p, Flag(e, FALSE))
        BY <1>4, <1>5, <2>1 DEF Adopted, Returning, With, Flag
      <3>2. Flag(e, FALSE) \in Process /\ SameProcess(e, Flag(e, FALSE))
        BY <1>1, FlagMild DEF Mild
      <3>3. /\ Flag(e, FALSE).pstate = e.pstate /\ Flag(e, FALSE).frame = e.frame
            /\ Flag(e, FALSE).pending_signals = e.pending_signals
            /\ Flag(e, FALSE).signal_handled = e.signal_handled
            /\ Flag(e, FALSE).handlers = e.handlers
            /\ Flag(e, FALSE).stack = e.stack /\ Flag(e, FALSE).kernel_mode = FALSE
        BY <1>1 DEF Flag, Process
      <3>4. Taken(t, p) = Indices(t, p)
        BY <2>1 DEF FreeIndices, ChildIndices, Indices, Taken
      <3> QED
        BY <3>1, <3>2, <3>3, <3>4 DEF SameProcess
    <2>2. CASE FreeIndices(p) # {}
      <3> DEFINE i == CHOOSE i \in FreeIndices(p) : \A j \in FreeIndices(p) : i <= j
                 r == Adopter(e, i, c)
      <3>1. i \in FreeIndices(p)
        <4>1. FreeIndices(p) \in SUBSET Nat
          BY <1>1, Constants DEF FreeIndices, ChildIndices, Process
        <4>2. \E a \in FreeIndices(p) : \A b \in FreeIndices(p) : a <= b
          BY <2>2, <4>1, Least
        <4> QED
          BY <4>2
      <3>2. u = [[w EXCEPT ![p].children[i] = c, ![p].children_count = @ + 1]
                   EXCEPT ![p].kernel_mode = FALSE]
        BY <1>4, <2>2 DEF Adopted, Returning
      <3> HIDE DEF i
      <3>3. u = With(w, p, r)
        BY <1>5, <3>2 DEF With, Adopter, Table
      <3>4. i \in Indices(t, p) \ Taken(t, p) /\ DOMAIN e.children = Indices(t, p)
        BY <1>1, <3>1 DEF FreeIndices, ChildIndices, Indices, Taken, Family
      <3>5. e.children_count + 1 \in Slots
        <4>1. e.max_children_count \in Slots
          BY <1>1 DEF Process
        <4>2. /\ IsFiniteSet(Indices(t, p))
              /\ Cardinality(Indices(t, p)) = e.max_children_count
          <5>1. e.max_children_count \in Nat
            BY <4>1, Constants
          <5>2. \A x \in Nat : IsFiniteSet(0 .. x - 1) /\ Cardinality(0 .. x - 1) = x
            BY FS_Interval
          <5> QED
            BY <5>1, <5>2 DEF Indices
        <4>3. Taken(t, p) \in SUBSET Indices(t, p)
              /\ Taken(t, p) \cup {i} \in SUBSET Indices(t, p) /\ i \notin Taken(t, p)
          BY <3>4 DEF Taken
        <4>4. IsFiniteSet(Taken(t, p)) /\ Cardinality(Taken(t, p)) \in Nat
          BY <4>2, <4>3, FS_Subset, FS_CardinalityType
        <4>5. Cardinality(Taken(t, p) \cup {i}) = Cardinality(Taken(t, p)) + 1
          BY <4>3, <4>4, FS_AddElement
        <4>6. Cardinality(Taken(t, p) \cup {i}) <= e.max_children_count
          BY <4>2, <4>3, FS_Subset
        <4>7. e.children_count = Cardinality(Taken(t, p))
          BY <1>1 DEF Family
        <4> QED
          BY <4>1, <4>4, <4>5, <4>6, <4>7, Constants DEF Slots
      <3>6. /\ r \in Process
            /\ r.pid = e.pid /\ r.parent = e.parent /\ r.stack = e.stack
            /\ r.max_children_count = e.max_children_count
            /\ r.pstate = e.pstate /\ r.frame = e.frame
            /\ r.pending_signals = e.pending_signals
            /\ r.signal_handled = e.signal_handled /\ r.handlers = e.handlers
            /\ r.children_count = e.children_count + 1
            /\ DOMAIN r.children = DOMAIN e.children
            /\ r.children[i] = c
            /\ \A j \in DOMAIN e.children \ {i} : r.children[j] = e.children[j]
        BY <1>1, <1>2, <3>4, <3>5, AdopterEntry
      <3>7. r.kernel_mode = FALSE
        BY <1>1 DEF Adopter, Process
      <3> HIDE DEF r
      <3> QED
        BY <3>3, <3>4, <3>6, <3>7
    <2> QED
      BY <2>1, <2>2
  <1>7. PICK r \in Process :
          /\ u = With(w, p, r)
          /\ r.pid = e.pid /\ r.parent = e.parent /\ r.stack = e.stack
          /\ r.max_children_count = e.max_children_count
          /\ r.pstate = e.pstate /\ r.frame = e.frame /\ r.kernel_mode = FALSE
          /\ r.pending_signals = e.pending_signals
          /\ r.signal_handled = e.signal_handled /\ r.handlers = e.handlers
          /\ DOMAIN r.children = DOMAIN e.children
          /\ \/ /\ Taken(t, p) = Indices(t, p)
                /\ r.children = e.children /\ r.children_count = e.children_count
             \/ \E i \in Indices(t, p) \ Taken(t, p) :
                  /\ r.children[i] = c /\ r.children_count = e.children_count + 1
                  /\ \A j \in DOMAIN e.children \ {i} : r.children[j] = e.children[j]
    BY <1>6
  <1> HIDE DEF u
  <1>8. /\ u \in Table /\ u[c] = n /\ u[p] = r /\ \A s \in Slots \ {c, p} : u[s] = t[s]
    <2>1. u \in Table /\ u[p] = r /\ \A s \in Slots \ {p} : u[s] = w[s]
      BY <1>5, <1>7, WithEntries
    <2> QED
      BY <1>2, <1>5, <2>1
  <1>9. Spawned(t, u, p, c, next_pid)
    <2>1. /\ DOMAIN u[c].children = Indices(u, c)
          /\ \A j \in Indices(u, c) : u[c].children[j] = Null
      BY <1>3, <1>8 DEF Indices
    <2>2. t[c].pid = 0
      BY <1>2, BlankEntry
    <2> QED
      BY <1>3, <1>7, <1>8, <2>1, <2>2 DEF Spawned
  <1> QED
    BY <1>2, <1>3, <1>7, <1>8, <1>9 DEF u, c, n

\* spawn.
LEMMA SpawnStep ==
  ASSUME IInv, NEW p \in Slots, spawn(p)
  PROVE  IInv'
  <1> DEFINE t == processes
             u == processes'
  <1>1. /\ t \in Table /\ Vacant(t) /\ Family(t) /\ ScalarsOK /\ t[p].pid # 0
        /\ current_process = p /\ mode = "user"
        /\ Exits(t) /\ Numbered(t, next_pid) /\ next_pid \in Nat \ {0}
    BY Facts, Constants DEF IInv, spawn, InUserMode, ScalarsOK
  <1>2. PICK c \in Slots \ {p} : u \in Table /\ Spawned(t, u, p, c, next_pid)
    BY SpawnEntries
  <1> HIDE DEF u
  <1>3. Vacant(u) /\ Family(u)
    BY <1>1, <1>2, SpawnedFamily
  <1>4. /\ Numbered(u, next_pid + 1) /\ Exits(u) /\ Calm(t, u)
         /\ Cardinality(Used(u)) = Cardinality(Used(t)) + 1
    BY <1>1, <1>2, SpawnedTable
  <1>5. /\ processes_count' = processes_count + 1 /\ next_pid' = next_pid + 1
         /\ processes_count <= max_processes /\ next_pid <= MaxPid
         /\ UNCHANGED <<current_process, current_index, mode, damage, tty>>
    BY DEF spawn, scheduler_can_populate_process
  <1>6. processes_count' >= Cardinality(Used(u))
    <2>1. Cardinality(Used(t)) \in Nat /\ processes_count \in Int
      BY FiniteSlots, Facts DEF Used
    <2> QED
      BY <1>4, <1>5, <2>1 DEF IInv
  <1>7. ScalarsOK'
    BY <1>1, <1>5, Constants DEF ScalarsOK, tty
  <1>8. OnProcessor'
    <2>1. current_process' = p /\ mode' = "user" /\ u[p].pid # 0
      BY <1>1, <1>2, <1>5 DEF Spawned
    <2> QED
      BY <2>1 DEF OnProcessor, u
  <1>9. TypeOK'
    <2>1. \A s \in Slots : DOMAIN u[s].children = ChildIndices(s)'
      BY <1>3 DEF Family, Indices, ChildIndices, u
    <2> QED
      BY <1>2, <1>7, <2>1 DEF TypeOK, ScalarsOK, Table, u
  <1>10. Queue'
    BY <1>4, <1>5, <1>9, CalmQueue DEF IInv, u
  <1> QED
    BY <1>3, <1>4, <1>5, <1>6, <1>8, <1>9, <1>10 DEF IInv, u

\* spawn by a process whose children may have none.
LEMMA SpawnWipesStep ==
  ASSUME IInv, NEW p \in Slots, spawn_wipes(p)
  PROVE  IInv'
  BY BrokenStep DEF spawn_wipes, Damages

-----------------------------------------------------------------------------
(* The theorems                                                            *)

\* The invariant holds when init starts.
LEMMA Start ==
  Init => IInv
  <1> SUFFICES ASSUME Init
               PROVE  IInv
    OBVIOUS
  <1> DEFINE t == processes
             k == [i \in 0 .. max_processes - 2 |-> Null]
             none == <<>>
  <1>1. /\ t = [s \in Slots |-> IF s = 0 THEN InitProcess ELSE Blank]
        /\ current_process = 0 /\ current_index = PID_INIT /\ processes_count = 1
        /\ next_pid = PID_INIT + 1 /\ mode = "user" /\ damage = "none"
        /\ read_wait = none /\ newline_present = FALSE
    BY DEF Init
  <1>2. none \in Seq(Slots) /\ Len(none) = 0
    OBVIOUS
  <1> HIDE DEF none
  <1>3. k \in ChildTables /\ max_processes - 1 \in Slots
        /\ max_processes - 2 = (max_processes - 1) - 1
    <2>1. max_processes - 2 = (max_processes - 1) - 1 /\ max_processes - 1 \in Slots
      BY Constants DEF Slots
    <2>2. k \in [0 .. (max_processes - 1) - 1 -> Slots \cup {Null}]
      BY <2>1
    <2> QED
      BY <2>1, <2>2 DEF ChildTables
  <1> DEFINE e == InitProcess
  <1>4. e = [Blank EXCEPT !.pid = PID_INIT, !.pstate = "RUNNING",
                          !.max_children_count = max_processes - 1,
                          !.children = k, !.stack = "page"]
    BY DEF InitProcess
  <1> HIDE DEF k, e
  <1>5. /\ e \in Process /\ e.pid = PID_INIT /\ e.pstate = "RUNNING"
        /\ e.max_children_count = max_processes - 1 /\ e.children = k
        /\ e.stack = "page" /\ e.parent = Null /\ e.frame = "none"
        /\ e.children_count = 0
    <2>1. /\ Blank \in Process /\ Blank.parent = Null /\ Blank.frame = "none"
          /\ Blank.children_count = 0 /\ PID_INIT \in 0 .. MaxPid
      BY BlankEntry, Constants DEF PID_INIT
    <2> HIDE DEF Blank
    <2> QED
      BY <1>3, <1>4, <2>1 DEF Process
  <1>6. /\ t \in Table /\ t[0] = e /\ \A s \in Slots \ {0} : t[s] = Blank
    <2>1. t = [s \in Slots |-> IF s = 0 THEN e ELSE Blank]
      BY <1>1 DEF e
    <2> QED
      BY <2>1, <1>5, BlankEntry, Constants DEF Table
  <1> HIDE DEF t
  <1>7. ASSUME NEW s \in Slots
        PROVE  DOMAIN t[s].children = Indices(t, s) /\ Taken(t, s) = {}
    <2>1. CASE s = 0
      <3>1. Indices(t, s) = 0 .. max_processes - 2 /\ t[s].children = k
        BY <1>3, <1>5, <1>6, <2>1 DEF Indices
      <3> QED
        BY <3>1 DEF Taken, k
    <2>2. CASE s # 0
      <3>1. t[s] = Blank
        BY <1>6, <2>2
      <3>2. Indices(t, s) = 0 .. 0 - 1
        BY <3>1, BlankEntry DEF Indices
      <3>3. Taken(t, s) = {}
        BY <3>2 DEF Taken
      <3> QED
        BY <3>1, <3>2, <3>3, BlankEntry
    <2> QED
      BY <2>1, <2>2
  <1>8. Vacant(t)
    BY <1>5, <1>6, BlankEntry, Constants DEF Vacant, PID_INIT
  <1>9. Family(t)
    <2>1. \A s \in Slots : t[s].parent = Null /\ t[s].children_count = 0
      BY <1>5, <1>6, BlankEntry
    <2> QED
      BY <1>7, <2>1, FS_EmptySet, Constants DEF Family
  <1>10. Numbered(t, next_pid)
    BY <1>1, <1>5, <1>6, BlankEntry, Constants DEF Numbered, PID_INIT
  <1>11. Cardinality(Used(t)) = 1
    <2>1. \A s \in Slots : t[s].pid # 0 <=> s = 0
      BY <1>5, <1>6, BlankEntry DEF PID_INIT
    <2>2. Used(t) = {0}
      BY <2>1, Constants DEF Used
    <2> QED
      BY <2>2, FS_Singleton
  <1>12. Exits(t)
    BY <1>7 DEF Exits
  <1>13. Queue
    <2>1. Reading(t) = {} /\ \A s \in Slots : t[s].pstate # "WAITING_FOR_RESOURCE"
      BY <1>5, <1>6, BlankEntry DEF Reading
    <2> QED
      BY <1>1, <1>2, <2>1, FS_EmptySet DEF Queue, SleepersAreQueued, NoLostWakeUp, t
  <1>14. TypeOK
    <2>1. /\ current_process \in Slots \cup {Idle} /\ current_index \in Slots
          /\ processes_count \in 1 .. max_processes + 1
          /\ next_pid \in 2 .. MaxPid + 1
      BY <1>1, Constants DEF PID_INIT
    <2>2. /\ mode \in {"user", "kernel", "switch"} /\ damage \in Damages
          /\ read_wait \in Seq(Slots) /\ newline_present \in BOOLEAN
      BY <1>1, <1>2 DEF Damages
    <2> QED
      BY <1>6, <1>7, <2>1, <2>2 DEF TypeOK, Table, Indices, ChildIndices, t
  <1>15. OnProcessor
    BY <1>1, <1>5, <1>6, Constants DEF OnProcessor, PID_INIT, t
  <1> QED
    BY <1>1, <1>8, <1>9, <1>10, <1>11, <1>12, <1>13, <1>14, <1>15 DEF IInv, t

\* Every step keeps it: one case for each action.
LEMMA Step ==
  IInv /\ [Next]_vars => IInv'
  <1> SUFFICES ASSUME IInv, [Next]_vars
               PROVE  IInv'
    OBVIOUS
  <1>1. CASE Tick
    BY <1>1, TickStep DEF Tick
  <1>2. CASE ContextSwitch
    BY <1>2, SwitchStep DEF ContextSwitch
  <1>3. CASE Resumed
    BY <1>3, WaitResumedStep, YieldResumedStep, ReadResumedStep DEF Resumed
  <1>4. CASE Interrupt
    BY <1>4, InterruptStep DEF Interrupt
  <1>5. CASE Program
    <2>1. PICK p \in Slots : UserStep(p)
      BY <1>5 DEF Program
    <2>2. CASE spawn(p) \/ spawn_unplaced(p) \/ spawn_refused(p) \/ spawn_wipes(p)
      BY <2>2, SpawnStep, SpawnUnplacedStep, SpawnWipesStep
    <2>3. CASE \E sig \in Catchable : sys_signal(p, sig)
      BY <2>3, SignalStep
    <2>4. CASE \E pid \in Killable : sys_kill_term(p, pid) \/ sys_kill(p, pid)
      BY <2>4, KillTermStep, KillStep
    <2>5. CASE sys_exit(p) \/ isr_usagefault(p)
      BY <2>5, ExitStep
    <2>6. CASE sys_wait(p)
      BY <2>6, WaitStep
    <2>7. CASE yield(p)
      BY <2>7, Facts, YieldStep DEF yield
    <2>8. CASE tty_read(p)
      BY <2>8, ReadStep
    <2>9. CASE sys_sigreturn(p)
      BY <2>9, SigreturnStep
    <2> QED
      BY <2>1, <2>2, <2>3, <2>4, <2>5, <2>6, <2>7, <2>8, <2>9 DEF UserStep
  <1>6. CASE UNCHANGED vars
    <2>1. /\ ScalarsOK' /\ OnProcessor' /\ UNCHANGED tty /\ processes' = processes
          /\ processes_count' = processes_count /\ next_pid' = next_pid
      BY <1>6, Facts DEF vars, ScalarsOK, OnProcessor, tty
    <2> QED
      BY <2>1, Facts, QuietItself, QuietStep
  <1> QED
    BY <1>1, <1>2, <1>3, <1>4, <1>5, <1>6 DEF Next

\* Whatever programs do, in every order and with every number of processes, the
\* inductive invariant of the process table, the processor and the terminal's
\* queue holds.
THEOREM Invariance == Spec => []IInv
  <1> QED
    BY Start, Step, PTL DEF Spec

\* The table keeps its types: in particular the count of processes and the pid
\* counter stay in their bounds.
THEOREM TypeCorrect == Spec => []TypeOK
  <1>1. IInv => TypeOK
    BY DEF IInv
  <1> QED
    BY <1>1, Invariance, PTL

\* The pointers that wait and kill follow from a parent to its children lead to
\* processes that are its children, however slots are used again.
THEOREM ChildrenCorrect == Spec => []ChildrenAreOurs
  <1>1. IInv => ChildrenAreOurs
    BY DEF IInv, Family, Taken, Indices, ChildrenAreOurs, ChildIndices
  <1> QED
    BY <1>1, Invariance, PTL

\* No exit is lost between the check of sys_wait and its sleep, or after it.
THEOREM ChildExitCorrect == Spec => []NoLostChildExit
  <1>1. ASSUME IInv
        PROVE  NoLostChildExit
    <2> SUFFICES ASSUME NEW p \in Slots,
                        processes[p].pstate = "WAITING_FOR_CHILD_EXIT", Zombies(p) # {}
                 PROVE  "SIGCHLD" \in Pending(p)
      BY DEF NoLostChildExit
    <2>1. PICK i \in Zombies(p) : TRUE
      OBVIOUS
    <2>2. i \in Taken(processes, p)
          /\ processes[processes[p].children[i]].pstate = "TERMINATED"
      BY <2>1 DEF Zombies, Taken, Indices, ChildIndices
    <2>3. Notified(processes[p])
      BY <1>1, <2>2 DEF IInv, Exits
    <2> QED
      BY <2>3 DEF Notified, Pending
  <1> QED
    BY <1>1, Invariance, PTL

\* A reader that sleeps is in the queue, though others take its entry for theirs.
THEOREM SleepersCorrect == Spec => []SleepersAreQueued
  <1>1. IInv => SleepersAreQueued
    BY DEF IInv, Queue
  <1> QED
    BY <1>1, Invariance, PTL

\* And it is not at the head of the queue once there is a line: no wake-up is
\* lost, though readers are woken, signalled and killed.
THEOREM WakeUpCorrect == Spec => []NoLostWakeUp
  <1>1. IInv => NoLostWakeUp
    BY DEF IInv, Queue
  <1> QED
    BY <1>1, Invariance, PTL

-----------------------------------------------------------------------------
(* The lives of processes                                                 *)

\* Entry r takes the place of e, and neither is the process another one, nor is
\* it newly dead; an entry without a process stays as it is or gets a signal.
Keeps(e, r) ==
  /\ r.pid = e.pid /\ r.stack = e.stack
  /\ r.pstate = "TERMINATED" => e.pstate = "TERMINATED"
  /\ e.pid = 0 => r = e \/ r.pending_signals # <<>>

\* And it does not newly run.
Rests(e, r) ==
  r.pstate = "RUNNING" =>
    /\ e.pstate = "RUNNING"
    /\ r.signal_handled = e.signal_handled /\ r.kernel_mode = e.kernel_mode

\* In table u nothing but entry p runs that did not in t.
Kept(t, u)     == u \in Table /\ \A s \in Slots : Keeps(t[s], u[s])
Others(t, u, p) == \A s \in Slots \ {p} : Rests(t[s], u[s])

-----------------------------------------------------------------------------
(* The changes of tables that the actions are made of                      *)

\* A table that stays as it is.
LEMMA KeptItself ==
  ASSUME NEW t \in Table, NEW p
  PROVE  Kept(t, t) /\ Others(t, t, p)
  BY DEF Kept, Keeps, Others, Rests

\* One change after another.
LEMMA KeptAfterKept ==
  ASSUME NEW t, NEW u, NEW v, Kept(t, u), Kept(u, v)
  PROVE  Kept(t, v)
  BY DEF Kept, Keeps

\* One change after another leaves at rest what both leave at rest.
LEMMA OthersAfterOthers ==
  ASSUME NEW t, NEW u, NEW v, NEW p, Others(t, u, p), Others(u, v, p)
  PROVE  Others(t, v, p)
  BY DEF Others, Rests

\* An entry that keeps its process is put in its place.
LEMMA WithKept ==
  ASSUME NEW t \in Table, NEW p \in Slots, NEW r \in Process, Keeps(t[p], r),
         NEW u, u = With(t, p, r)
  PROVE  /\ Kept(t, u) /\ u[p] = r /\ Others(t, u, p)
         /\ Rests(t[p], r) => \A q : Others(t, u, q)
  <1>1. u \in Table /\ u[p] = r /\ \A s \in Slots \ {p} : u[s] = t[s]
    BY WithEntries
  <1>2. \A s \in Slots : Keeps(t[s], t[s]) /\ Rests(t[s], t[s])
    BY DEF Keeps, Rests
  <1>3. Kept(t, u) /\ Others(t, u, p)
    BY <1>1, <1>2 DEF Kept, Others
  <1>4. Rests(t[p], r) => \A q : Others(t, u, q)
    BY <1>1, <1>2 DEF Others
  <1> QED
    BY <1>1, <1>3, <1>4

\* What setting kernel_mode leaves alone.
LEMMA FlagFields ==
  ASSUME NEW e \in Process, NEW b \in BOOLEAN
  PROVE  LET r == Flag(e, b)
         IN  /\ r \in Process /\ r.pid = e.pid /\ r.stack = e.stack
             /\ r.pstate = e.pstate /\ r.signal_handled = e.signal_handled
             /\ r.kernel_mode = b /\ r.pending_signals = e.pending_signals
  BY DEF Flag, Process

\* A call returns.
LEMMA ReturningKept ==
  ASSUME NEW t \in Table, NEW p \in Slots, t[p].pid # 0,
         NEW u, u = Returning(t, p)
  PROVE  Kept(t, u) /\ Others(t, u, p) /\ u[p].kernel_mode = FALSE
  <1> DEFINE r == Flag(t[p], FALSE)
  <1>1. u = With(t, p, r) /\ t[p] \in Process
    BY DEF Returning, With, Flag, Table
  <1>2. r \in Process /\ Keeps(t[p], r) /\ r.kernel_mode = FALSE
    BY <1>1, FlagFields DEF Keeps
  <1> HIDE DEF r
  <1> QED
    BY <1>1, <1>2, WithKept

\* A call blocks.
LEMMA BlockingKept ==
  ASSUME NEW t \in Table, NEW p \in Slots, t[p].pid # 0,
         NEW c \in {"wait", "yield", "read"},
         NEW st \in {"READY", "WAITING_FOR_RESOURCE", "WAITING_FOR_CHILD_EXIT"},
         NEW u, u = Blocking(t, p, c, st)
  PROVE  Kept(t, u) /\ u[p].pstate = st /\ \A q : Others(t, u, q)
  <1> DEFINE r == Stop(t[p], c, st)
  <1>1. u = With(t, p, r) /\ t[p] \in Process
    BY BlockingEntry DEF Table
  <1>2. /\ r \in Process /\ r.pid = t[p].pid /\ r.stack = t[p].stack /\ r.pstate = st
    BY <1>1 DEF Process, Stop
  <1> HIDE DEF r
  <1>3. Keeps(t[p], r) /\ Rests(t[p], r)
    BY <1>2 DEF Keeps, Rests
  <1> QED
    BY <1>1, <1>2, <1>3, WithKept

\* What a change of the pending signals leaves alone.
LEMMA QueuedFields ==
  ASSUME NEW e \in Process, NEW q \in SignalQueues
  PROVE  LET r == Queued(e, q)
         IN  /\ r \in Process /\ r.pid = e.pid /\ r.stack = e.stack
             /\ r.pstate = e.pstate /\ r.signal_handled = e.signal_handled
             /\ r.kernel_mode = e.kernel_mode /\ r.pending_signals = q
  BY DEF Queued, Process

\* A signal is queued, perhaps at an entry without a process.
LEMMA NotifyKept ==
  ASSUME NEW t \in Table, NEW p \in Slots, NEW sig \in Signals,
         NEW u, u = signal_notify(t, p, sig)
  PROVE  Kept(t, u) /\ \A q : Others(t, u, q)
  <1> DEFINE o == t[p].pending_signals
             n == Append(o, sig)
             r == Queued(t[p], n)
  <1>1. u = With(t, p, r) /\ t[p] \in Process /\ o \in Seq(Signals)
    BY DEF signal_notify, With, Queued, Table, Process, SignalQueues
  <1>2. n \in SignalQueues /\ n # <<>>
    BY <1>1 DEF SignalQueues
  <1> HIDE DEF n
  <1>3. r \in Process /\ Keeps(t[p], r) /\ Rests(t[p], r)
    BY <1>1, <1>2, QueuedFields DEF Keeps, Rests
  <1> HIDE DEF r
  <1> QED
    BY <1>1, <1>3, WithKept

\* A process becomes ready, or runs.
LEMMA StateKept ==
  ASSUME NEW t \in Table, NEW p \in Slots, t[p].pid # 0, NEW st \in {"RUNNING", "READY"},
         NEW u, u = With(t, p, State(t[p], st))
  PROVE  /\ Kept(t, u) /\ u[p].pstate = st /\ Others(t, u, p)
         /\ u[p].kernel_mode = t[p].kernel_mode
         /\ u[p].signal_handled = t[p].signal_handled
         /\ st = "READY" => \A q : Others(t, u, q)
  <1> DEFINE r == State(t[p], st)
  <1>1. u = With(t, p, r) /\ t[p] \in Process
    BY DEF Table
  <1>2. /\ r \in Process /\ r.pid = t[p].pid /\ r.stack = t[p].stack /\ r.pstate = st
        /\ r.kernel_mode = t[p].kernel_mode /\ r.signal_handled = t[p].signal_handled
    BY <1>1 DEF Process, State
  <1> HIDE DEF r
  <1>3. Keeps(t[p], r) /\ (st = "READY" => Rests(t[p], r))
    BY <1>2 DEF Keeps, Rests
  <1>4. Kept(t, u) /\ u[p] = r /\ Others(t, u, p)
    BY <1>1, <1>2, <1>3, WithKept
  <1>5. ASSUME st = "READY"
        PROVE  \A q : Others(t, u, q)
    <2>1. Rests(t[p], r)
      BY <1>3, <1>5
    <2> QED
      BY <1>1, <1>2, <1>3, <2>1, WithKept
  <1> QED
    BY <1>2, <1>4, <1>5

\* The frame of a blocked call is taken off the kernel stack.
LEMMA UnframedKept ==
  ASSUME NEW t \in Table, NEW p \in Slots, t[p].pid # 0,
         NEW u, u = [t EXCEPT ![p].frame = "none"]
  PROVE  Kept(t, u) /\ \A q : Others(t, u, q)
  <1> DEFINE r == Unframed(t[p])
  <1>1. u = With(t, p, r) /\ t[p] \in Process
    BY DEF With, Unframed, Table
  <1>2. /\ r \in Process /\ r.pid = t[p].pid /\ r.stack = t[p].stack
        /\ r.pstate = t[p].pstate /\ r.kernel_mode = t[p].kernel_mode
        /\ r.signal_handled = t[p].signal_handled
    BY <1>1 DEF Process, Unframed
  <1> HIDE DEF r
  <1>3. Keeps(t[p], r) /\ Rests(t[p], r)
    BY <1>2 DEF Keeps, Rests
  <1> QED
    BY <1>1, <1>2, <1>3, WithKept

\* Entry s is the only one whose process dies.
Died(t, u, s) ==
  /\ u \in Table
  /\ \A x \in Slots \ {s} : Keeps(t[x], u[x])
  /\ u[s].pid = t[s].pid /\ u[s].stack = "freed"

\* The table after a death.
LEMMA KilledDied ==
  ASSUME NEW t \in Table, NEW s \in Slots,
         t[s].pid # 0, t[s].parent \in Slots, t[s].stack # "null",
         NEW u, u = Killed(t, s)
  PROVE  Died(t, u, s) /\ u[s].pstate = "TERMINATED" /\ \A q : Others(t, u, q)
  <1> DEFINE q    == t[s].parent
             chld == signal_notify(t, q, "SIGCHLD")
             hung == [x \in Slots |-> signal_notify(chld, x, "SIGHUP")[x]]
             hup  == [x \in Slots |-> IF x \in HungUp(t, s) THEN hung[x] ELSE chld[x]]
  <1>1. q \in Slots /\ "SIGCHLD" \in Signals /\ "SIGHUP" \in Signals
    BY DEF Signals
  <1> HIDE DEF q
  <1>2. Kept(t, chld) /\ \A a : Others(t, chld, a)
    BY <1>1, NotifyKept
  <1>3. u = With(hup, s, Die(hup[s]))
    BY DEF Killed, With, Die, q
  <1> HIDE DEF chld
  <1>4. ASSUME NEW x \in Slots
        PROVE  /\ hung[x] \in Process /\ Keeps(chld[x], hung[x])
               /\ Rests(chld[x], hung[x])
    <2> DEFINE v == signal_notify(chld, x, "SIGHUP")
    <2>1. Kept(chld, v) /\ \A a : Others(chld, v, a)
      BY <1>1, <1>2, NotifyKept DEF Kept
    <2> HIDE DEF v
    <2>2. v[x] \in Process /\ Keeps(chld[x], v[x])
      BY <2>1 DEF Kept, Table
    <2>3. Rests(chld[x], v[x])
      <3>1. Others(chld, v, Null) /\ x # Null
        BY <2>1, Constants
      <3> QED
        BY <3>1 DEF Others
    <2> QED
      BY <2>2, <2>3 DEF v
  <1> HIDE DEF hung
  <1>5. ASSUME NEW x \in Slots
        PROVE  hup[x] \in Process /\ Keeps(chld[x], hup[x]) /\ Rests(chld[x], hup[x])
    <2>1. chld[x] \in Process /\ Keeps(chld[x], chld[x]) /\ Rests(chld[x], chld[x])
      BY <1>2 DEF Kept, Table, Keeps, Rests
    <2> QED
      BY <2>1, <1>4
  <1>6. hup \in Table
    BY <1>5 DEF Table
  <1> HIDE DEF hup
  <1>7. Kept(t, hup) /\ \A a : Others(t, hup, a)
    <2>1. Kept(chld, hup) /\ \A a : Others(chld, hup, a)
      BY <1>5, <1>6 DEF Kept, Others
    <2> QED
      BY <1>2, <2>1, KeptAfterKept, OthersAfterOthers
  <1>8. hup[s] \in Process /\ hup[s].pid = t[s].pid /\ hup[s].stack # "null"
    BY <1>5, <1>7 DEF Kept, Keeps
  <1> DEFINE r == Die(hup[s])
  <1>9. r \in Process /\ r.pid = t[s].pid /\ r.pstate = "TERMINATED" /\ r.stack = "freed"
    <2>1. r \in Process /\ SameProcess(hup[s], r) /\ r.pstate = "TERMINATED"
      BY <1>8, DieEntry
    <2>2. r.stack = "freed"
      BY <1>8 DEF Die, Process
    <2> QED
      BY <1>8, <2>1, <2>2 DEF SameProcess
  <1> HIDE DEF r
  <1>10. u \in Table /\ u[s] = r /\ \A x \in Slots \ {s} : u[x] = hup[x]
    BY <1>3, <1>6, <1>9, WithEntries DEF r
  <1>11. \A a : Others(t, u, a)
    BY <1>7, <1>9, <1>10 DEF Others, Rests
  <1>12. \A x \in Slots \ {s} : Keeps(t[x], u[x])
    BY <1>7, <1>10 DEF Kept
  <1> QED
    BY <1>9, <1>10, <1>11, <1>12 DEF Died

-----------------------------------------------------------------------------
(* The five kinds of steps, and what runs after them                       *)

Still == Kept(processes, processes') /\ UNCHANGED <<next_pid, processes_count>>

Death ==
  \E s \in Slots :
    /\ processes[s].pid # 0 /\ processes[s].stack = "page"
    /\ Died(processes, processes', s)
    /\ UNCHANGED <<next_pid, processes_count>>

Counted == next_pid <= MaxPid /\ next_pid' = next_pid + 1
           /\ processes_count <= max_processes
           /\ processes_count' = processes_count + 1

Birth ==
  \E s \in Slots :
    /\ processes[s] = Blank
    /\ processes'[s].pid = next_pid /\ processes'[s].stack = "page"
    /\ processes'[s].pstate = "READY"
    /\ \A x \in Slots \ {s} : Keeps(processes[x], processes'[x])
    /\ Counted

Refusal == Empty = {} /\ Kept(processes, processes') /\ Counted

Farewell ==
  \E s \in Slots :
    /\ processes[s].pid # 0 /\ processes[s].pstate = "TERMINATED"
    /\ processes'[s] = Blank
    /\ \A x \in Slots \ {s} : Keeps(processes[x], processes'[x])
    /\ next_pid' = next_pid /\ processes_count' = processes_count - 1

Effect == Still \/ Death \/ Birth \/ Refusal \/ Farewell

\* The processes off the processor that the scheduler does not find.
Handling(e) == e.signal_handled /\ e.kernel_mode

OffCpu ==
  /\ \A s \in Slots :
       processes[s].pstate = "RUNNING" =>
         \/ mode = "user" /\ s = current_process
         \/ Handling(processes[s])
  /\ mode = "user" /\ current_process \in Slots =>
       (processes[current_process].kernel_mode =>
          processes[current_process].signal_handled)

\* A step of process p, or of the processor while p is on it.
LEMMA OffCpuStep ==
  ASSUME OffCpu, NEW p,
         mode = "user" /\ current_process \in Slots => current_process = p,
         Others(processes, processes', p),
         \/ /\ mode' = "user" /\ current_process' = p
            /\ p \in Slots => (processes'[p].kernel_mode => processes'[p].signal_handled)
         \/ /\ mode' # "user"
            /\ p \in Slots => (processes'[p].pstate = "RUNNING" => Handling(processes'[p]))
  PROVE  OffCpu'
  BY DEF OffCpu, Others, Rests, Handling

\* A step that reads what is not there.
LEMMA BrokenEffect ==
  ASSUME IInv, OffCpu, NEW d, Broken(d)
  PROVE  Effect /\ OffCpu'
  <1>1. Kept(processes, processes)
    BY Facts, KeptItself
  <1> QED
    BY <1>1 DEF Broken, Effect, Still, OffCpu

\* A call that returns, from a table where p has done what it asked for.
LEMMA ReturnEffect ==
  ASSUME IInv, OffCpu, NEW p \in Slots, processes[p].pid # 0, current_process = p,
         NEW t, Kept(processes, t), Others(processes, t, p),
         processes' = Returning(t, p), mode' = "user", current_process' = p
  PROVE  Kept(processes, processes') /\ OffCpu'
  <1>1. t \in Table /\ t[p].pid # 0
    BY DEF Kept, Keeps
  <1>2. /\ Kept(t, processes') /\ Others(t, processes', p)
        /\ processes'[p].kernel_mode = FALSE
    BY <1>1, ReturningKept
  <1>3. Kept(processes, processes') /\ Others(processes, processes', p)
    BY <1>2, KeptAfterKept, OthersAfterOthers
  <1> QED
    BY <1>2, <1>3, OffCpuStep

\* spawn on a full table, or refused.
LEMMA UnplacedEffect ==
  ASSUME IInv, OffCpu, NEW p \in Slots, spawn_unplaced(p) \/ spawn_refused(p)
  PROVE  Effect /\ OffCpu'
  <1>1. /\ processes[p].pid # 0 /\ current_process = p /\ mode = "user"
        /\ processes' = Returning(processes, p) /\ mode' = "user" /\ current_process' = p
    BY Facts DEF spawn_unplaced, spawn_refused, InUserMode
  <1>2. Kept(processes, processes) /\ Others(processes, processes, p)
    BY Facts, KeptItself
  <1>3. Kept(processes, processes') /\ OffCpu'
    BY <1>1, <1>2, ReturnEffect
  <1>4. CASE spawn_unplaced(p)
    BY <1>3, <1>4 DEF spawn_unplaced, scheduler_can_populate_process, Effect,
                      Refusal, Counted
  <1>5. CASE spawn_refused(p)
    BY <1>3, <1>5 DEF spawn_refused, Effect, Still
  <1> QED
    BY <1>3, <1>4, <1>5

\* signal.
LEMMA SignalEffect ==
  ASSUME IInv, OffCpu, NEW p \in Slots, NEW sig \in Catchable, sys_signal(p, sig)
  PROVE  Effect /\ OffCpu'
  <1> DEFINE e == processes[p]
             r == [e EXCEPT !.handlers = e.handlers \cup {sig}]
             t == [processes EXCEPT ![p].handlers = @ \cup {sig}]
  <1>1. /\ processes \in Table /\ e \in Process /\ e.pid # 0
        /\ e.handlers \cup {sig} \in SUBSET Catchable
    BY Facts DEF Table, Process, sys_signal
  <1>2. t = With(processes, p, r)
    BY DEF With
  <1> HIDE DEF e
  <1>3. /\ r \in Process /\ r.pid = e.pid /\ r.stack = e.stack /\ r.pstate = e.pstate
        /\ r.kernel_mode = e.kernel_mode /\ r.signal_handled = e.signal_handled
    BY <1>1 DEF Process
  <1> HIDE DEF r, t
  <1>4. Kept(processes, t) /\ Others(processes, t, p)
    <2>1. Keeps(processes[p], r)
      BY <1>1, <1>3 DEF Keeps, e
    <2> QED
      BY <1>1, <1>2, <1>3, <2>1, WithKept
  <1>5. /\ processes' = Returning(t, p) /\ mode' = "user" /\ current_process = p
        /\ current_process' = p /\ UNCHANGED <<next_pid, processes_count>>
    BY DEF sys_signal, InUserMode, t
  <1>6. Kept(processes, processes') /\ OffCpu'
    BY <1>1, <1>4, <1>5, ReturnEffect DEF e
  <1> QED
    BY <1>5, <1>6 DEF Effect, Still

\* kill with SIGTERM.
LEMMA KillTermEffect ==
  ASSUME IInv, OffCpu, NEW p \in Slots, NEW pid \in Killable, sys_kill_term(p, pid)
  PROVE  Effect /\ OffCpu'
  <1> DEFINE t == signal_notify(processes, ByPid(pid), "SIGTERM")
  <1>1. /\ ByPid(pid) \in Slots /\ processes \in Table /\ processes[p].pid # 0
        /\ "SIGTERM" \in Signals
    BY Facts DEF sys_kill_term, Signals
  <1>2. Kept(processes, t) /\ Others(processes, t, p)
    BY <1>1, NotifyKept
  <1>3. /\ processes' = Returning(t, p) /\ mode' = "user" /\ current_process = p
        /\ current_process' = p /\ UNCHANGED <<next_pid, processes_count>>
    BY DEF sys_kill_term, InUserMode
  <1> HIDE DEF t
  <1>4. Kept(processes, processes') /\ OffCpu'
    BY <1>1, <1>2, <1>3, ReturnEffect
  <1> QED
    BY <1>3, <1>4 DEF Effect, Still

\* What can be killed without damage is a live process.
LEMMA KillableLives ==
  ASSUME IInv, NEW s \in Slots, KillDamage(processes, s) = "none"
  PROVE  /\ processes[s].pid # 0 /\ processes[s].stack = "page"
         /\ processes[s].parent \in Slots
  <1>1. processes \in Table /\ Vacant(processes) /\ processes[s] \in Process
    BY Facts DEF Table
  <1>2. processes[s].stack # "freed" /\ processes[s].parent # Null
    BY DEF KillDamage
  <1>3. processes[s].pid # 0
    BY <1>1, <1>2 DEF Vacant
  <1>4. processes[s].stack \in {"null", "page", "freed"}
        /\ processes[s].parent \in Slots \cup {Null}
    BY <1>1 DEF Process
  <1> QED
    BY <1>1, <1>2, <1>3, <1>4 DEF Vacant

\* A death with other changes before or after it.
LEMMA DiedKept ==
  ASSUME NEW t, NEW u, NEW v, NEW s \in Slots
  PROVE  /\ Died(t, u, s) /\ Kept(u, v) => Died(t, v, s)
         /\ Kept(t, u) /\ Died(u, v, s) => Died(t, v, s)
  BY DEF Died, Kept, Keeps

\* kill with any other signal.
LEMMA KillEffect ==
  ASSUME IInv, OffCpu, NEW p \in Slots, NEW pid \in Killable, sys_kill(p, pid)
  PROVE  Effect /\ OffCpu'
  <1> DEFINE s == ByPid(pid)
             t == Killed(processes, s)
  <1>1. /\ s \in Slots /\ processes \in Table /\ processes[p].pid # 0
        /\ current_process = p /\ mode = "user"
    BY Facts DEF sys_kill, InUserMode
  <1>2. CASE KillDamage(processes, s) # "none" \/ s = p
    BY <1>2, BrokenEffect DEF sys_kill
  <1>3. CASE KillDamage(processes, s) = "none" /\ s # p
    <2>1. /\ processes[s].pid # 0 /\ processes[s].stack = "page"
          /\ processes[s].parent \in Slots
      BY <1>1, <1>3, KillableLives
    <2>2. Died(processes, t, s) /\ \A q : Others(processes, t, q)
      BY <1>1, <2>1, KilledDied
    <2>3. /\ processes' = Returning(t, p) /\ mode' = "user" /\ current_process' = p
          /\ UNCHANGED <<next_pid, processes_count>>
      BY <1>1, <1>3 DEF sys_kill
    <2> HIDE DEF t, s
    <2>4. t \in Table /\ t[p].pid # 0
      BY <1>1, <1>3, <2>2 DEF Died, Keeps
    <2>5. /\ Kept(t, processes') /\ Others(t, processes', p)
          /\ processes'[p].kernel_mode = FALSE
      BY <2>3, <2>4, ReturningKept
    <2>6. Died(processes, processes', s) /\ Others(processes, processes', p)
      BY <1>1, <2>2, <2>5, DiedKept, OthersAfterOthers
    <2>7. OffCpu'
      BY <1>1, <2>3, <2>5, <2>6, OffCpuStep
    <2> QED
      BY <1>1, <2>1, <2>3, <2>6, <2>7 DEF Effect, Death
  <1> QED
    BY <1>2, <1>3

\* exit, and a stack overflow.
LEMMA ExitEffect ==
  ASSUME IInv, OffCpu, NEW p \in Slots, sys_exit(p) \/ isr_usagefault(p)
  PROVE  Effect /\ OffCpu'
  <1>1. PICK flag \in BOOLEAN : Exit(p, flag)
    BY Facts DEF sys_exit, isr_usagefault, Table, Process
  <1>2. processes \in Table /\ current_process = p /\ mode = "user"
    BY <1>1, Facts DEF Exit, InUserMode
  <1>3. CASE KillDamage(processes, p) # "none"
    BY <1>1, <1>3, BrokenEffect DEF Exit
  <1>4. CASE KillDamage(processes, p) = "none"
    <2> DEFINE t == Killed(processes, p)
               r == Flag(t[p], flag)
    <2>1. /\ processes[p].pid # 0 /\ processes[p].stack = "page"
          /\ processes[p].parent \in Slots
      BY <1>4, KillableLives
    <2>2. /\ Died(processes, t, p) /\ \A q : Others(processes, t, q)
          /\ t[p].pstate = "TERMINATED"
      BY <1>2, <2>1, KilledDied
    <2>3. /\ processes' = [t EXCEPT ![p].kernel_mode = flag] /\ mode' = "switch"
          /\ UNCHANGED <<next_pid, processes_count>>
      BY <1>1, <1>4 DEF Exit
    <2> HIDE DEF t
    <2>4. t \in Table /\ t[p] \in Process /\ t[p].pid # 0
      BY <2>1, <2>2 DEF Died, Table
    <2>5. processes' = With(t, p, r)
      BY <2>3 DEF With, Flag
    <2>6. r \in Process /\ r.pstate = "TERMINATED" /\ Keeps(t[p], r)
      BY <2>2, <2>4, FlagFields DEF Keeps
    <2> HIDE DEF r
    <2>7. Kept(t, processes') /\ Others(t, processes', p) /\ processes'[p] = r
      BY <2>4, <2>5, <2>6, WithKept
    <2>8. Died(processes, processes', p) /\ Others(processes, processes', p)
      BY <2>2, <2>7, DiedKept, OthersAfterOthers
    <2>9. OffCpu'
      BY <1>2, <2>3, <2>6, <2>7, <2>8, OffCpuStep
    <2> QED
      BY <2>1, <2>3, <2>8, <2>9 DEF Effect, Death
  <1> QED
    BY <1>3, <1>4

\* A call that blocks p, or a table in which p does not run.
LEMMA AwayEffect ==
  ASSUME IInv, OffCpu, NEW p \in Slots, current_process = p,
         Kept(processes, processes'), Others(processes, processes', p),
         processes'[p].pstate # "RUNNING", mode' # "user",
         UNCHANGED <<next_pid, processes_count>>
  PROVE  Effect /\ OffCpu'
  BY OffCpuStep DEF Effect, Still

\* A read of an empty pipe and a wait for a mutex.
LEMMA YieldEffect ==
  ASSUME IInv, OffCpu, NEW p \in Slots, processes[p].pid # 0, current_process = p,
         NEW c \in {"wait", "yield", "read"},
         NEW st \in {"READY", "WAITING_FOR_RESOURCE", "WAITING_FOR_CHILD_EXIT"},
         processes' = Blocking(processes, p, c, st), mode' = "switch",
         UNCHANGED <<next_pid, processes_count>>
  PROVE  Effect /\ OffCpu'
  <1>1. /\ Kept(processes, processes') /\ Others(processes, processes', p)
        /\ processes'[p].pstate = st
    BY Facts, BlockingKept
  <1> QED
    BY <1>1, AwayEffect

\* The end of a signal handler.
LEMMA SigreturnEffect ==
  ASSUME IInv, OffCpu, NEW p \in Slots, sys_sigreturn(p)
  PROVE  Effect /\ OffCpu'
  <1> DEFINE e == processes[p]
             r == [e EXCEPT !.kernel_mode = TRUE, !.signal_handled = FALSE,
                            !.pstate = "READY"]
  <1>1. processes \in Table /\ e \in Process /\ e.pid # 0 /\ current_process = p
    BY Facts DEF Table, sys_sigreturn, InUserMode
  <1>2. processes' = With(processes, p, r) /\ mode' = "switch"
        /\ UNCHANGED <<next_pid, processes_count>>
    BY DEF With, sys_sigreturn, InUserMode
  <1>3. r \in Process /\ r.pid = e.pid /\ r.stack = e.stack /\ r.pstate = "READY"
    BY <1>1 DEF Process
  <1> HIDE DEF r
  <1>4. Keeps(e, r)
    BY <1>1, <1>3 DEF Keeps
  <1>5. /\ Kept(processes, processes') /\ Others(processes, processes', p)
        /\ processes'[p] = r
    BY <1>1, <1>2, <1>3, <1>4, WithKept
  <1> QED
    BY <1>1, <1>2, <1>3, <1>5, AwayEffect

\* SysTick.
LEMMA TickEffect ==
  ASSUME IInv, OffCpu, tick
  PROVE  Effect /\ OffCpu'
  <1> DEFINE p == current_process
  <1>1. processes \in Table /\ mode = "user" /\ mode' = "switch"
        /\ UNCHANGED <<next_pid, processes_count>>
    BY Facts DEF tick
  <1>2. CASE p \in Slots /\ ~processes[p].kernel_mode
    <2>1. processes' = With(processes, p, State(processes[p], "READY"))
      BY <1>2 DEF tick, With, State
    <2>2. processes[p].pid # 0
      BY <1>1, <1>2, Facts DEF OnProcessor
    <2>3. /\ Kept(processes, processes') /\ Others(processes, processes', p)
          /\ processes'[p].pstate = "READY"
      BY <1>1, <1>2, <2>1, <2>2, StateKept
    <2> QED
      BY <1>1, <1>2, <2>3, AwayEffect
  <1>3. CASE ~(p \in Slots /\ ~processes[p].kernel_mode)
    <2>1. processes' = processes
      BY <1>3 DEF tick
    <2>2. Kept(processes, processes') /\ Others(processes, processes', p)
      BY <1>1, <2>1, KeptItself
    <2>3. OffCpu'
      BY <1>1, <1>3, <2>1 DEF OffCpu, Handling
    <2> QED
      BY <1>1, <2>2, <2>3 DEF Effect, Still
  <1> QED
    BY <1>2, <1>3

\* The second half of sys_wait.
LEMMA ReapEffect ==
  ASSUME IInv, OffCpu, NEW p \in Slots, processes[p].pid # 0, current_process = p,
         Reap(p)
  PROVE  Effect /\ OffCpu'
  <1>1. CASE Zombies(p) = {}
    BY <1>1, BrokenEffect DEF Reap, Reapable
  <1>2. CASE Zombies(p) # {}
    <2> DEFINE e == processes[p]
    <2>1. PICK i \in Taken(processes, p) :
            LET c == e.children[i]
            IN  /\ c \in Slots \ {p} /\ processes[c].pid # 0
                /\ processes[c].pstate = "TERMINATED"
                /\ i \in DOMAIN e.children /\ e.children_count # 0
                /\ processes'[c] = Blank /\ processes'[p] = Bereft(e, i)
                /\ \A s \in Slots \ {c, p} : processes'[s] = processes[s]
      BY <1>2, ReapEntries
    <2> DEFINE c == e.children[i]
               r == Bereft(e, i)
    <2>2. e \in Process
      BY Facts DEF Table
    <2>3. /\ r.pid = e.pid /\ r.stack = e.stack /\ r.pstate = "RUNNING"
          /\ r.kernel_mode = FALSE
      BY <2>1, <2>2, BereftEntry
    <2>4. /\ processes_count' = processes_count - 1 /\ next_pid' = next_pid
          /\ mode' = "user" /\ current_process' = p
      BY <1>2 DEF Reap, Reapable
    <2> HIDE DEF r
    <2>5. Keeps(e, r)
      BY <2>3 DEF Keeps
    <2>6. \A x \in Slots \ {c} : Keeps(processes[x], processes'[x])
      <3>1. \A x \in Slots : Keeps(processes[x], processes[x])
        BY DEF Keeps
      <3> QED
        BY <2>1, <2>5, <3>1 DEF r
    <2>7. Others(processes, processes', p)
      BY <2>1, BlankEntry DEF Others, Rests
    <2>8. OffCpu'
      BY <2>1, <2>3, <2>4, <2>7, OffCpuStep DEF r
    <2> QED
      BY <2>1, <2>4, <2>6, <2>8 DEF Effect, Farewell
  <1> QED
    BY <1>1, <1>2

\* sys_wait.
LEMMA WaitEffect ==
  ASSUME IInv, OffCpu, NEW p \in Slots, sys_wait(p)
  PROVE  Effect /\ OffCpu'
  <1>1. processes[p].pid # 0 /\ current_process = p
    BY Facts DEF sys_wait, InUserMode
  <1>2. CASE Zombies(p) # {}
    BY <1>1, <1>2, ReapEffect DEF sys_wait
  <1>3. CASE Zombies(p) = {}
    BY <1>1, <1>3, YieldEffect DEF sys_wait
  <1> QED
    BY <1>2, <1>3

\* The end of a read, from a table t in which p reads.
LEMMA LineReadEffect ==
  ASSUME IInv, OffCpu, NEW p \in Slots, processes[p].pid # 0, current_process = p,
         NEW t, Kept(processes, t), \A q : Others(processes, t, q), Vacant(t),
         NEW queue \in Seq(Slots), queue # <<>>, LineRead(t, p, queue)
  PROVE  Effect /\ OffCpu'
  <1> DEFINE h == Head(queue)
             v == [t EXCEPT ![p].frame = "none"]
             w == [t EXCEPT ![p].frame = "none", ![h].pstate = "READY"]
  <1>1. h \in Slots /\ t \in Table /\ t[p].pid # 0
    BY DEF Kept, Keeps
  <1>2. CASE t[h].stack = "null"
    BY <1>2, BrokenEffect DEF LineRead
  <1>3. CASE t[h].stack # "null"
    <2>1. Kept(t, v) /\ \A q : Others(t, v, q)
      BY <1>1, UnframedKept
    <2>2. t[h].pid # 0
      BY <1>1, <1>3 DEF Vacant
    <2>3. w = With(v, h, State(v[h], "READY"))
      BY DEF With, State
    <2>4. /\ processes' = Returning(w, p) /\ mode' = "user" /\ current_process' = p
          /\ UNCHANGED <<next_pid, processes_count>>
      BY <1>3 DEF LineRead
    <2> HIDE DEF v, w, h
    <2>5. v[h].pid # 0 /\ v \in Table
      BY <1>1, <2>1, <2>2 DEF Kept, Keeps
    <2>6. Kept(v, w) /\ \A q : Others(v, w, q)
      BY <1>1, <2>3, <2>5, StateKept, ZenonT(60)
    <2>7. Kept(processes, w) /\ Others(processes, w, p)
      BY <2>1, <2>6, KeptAfterKept, OthersAfterOthers
    <2>8. Kept(processes, processes') /\ OffCpu'
      BY <2>4, <2>7, ReturnEffect
    <2> QED
      BY <2>4, <2>8 DEF Effect, Still
  <1> QED
    BY <1>2, <1>3

\* A read of the terminal.
LEMMA ReadEffect ==
  ASSUME IInv, OffCpu, NEW p \in Slots, tty_read(p)
  PROVE  Effect /\ OffCpu'
  <1> DEFINE t     == Blocking(processes, p, "read", "WAITING_FOR_RESOURCE")
             queue == Append(read_wait, p)
  <1>1. /\ processes \in Table /\ Vacant(processes) /\ read_wait \in Seq(Slots)
        /\ processes[p].pid # 0 /\ current_process = p
    BY Facts DEF ScalarsOK, tty_read, InUserMode
  <1>2. CASE newline_present
    <2>1. Kept(processes, t) /\ \A q : Others(processes, t, q)
      BY <1>1, BlockingKept
    <2>2. queue \in Seq(Slots) /\ queue # <<>>
      BY <1>1
    <2>3. LineRead(t, p, queue)
      BY <1>2 DEF tty_read
    <2>4. Blocks(processes, t, p, "read", "WAITING_FOR_RESOURCE")
      BY <1>1, BlockingTable
    <2> HIDE DEF t, queue
    <2>5. Vacant(t)
      BY <1>1, <2>4 DEF Blocks, Vacant, SameProcess
    <2> QED
      BY <1>1, <2>1, <2>2, <2>3, <2>5, LineReadEffect
  <1>3. CASE ~newline_present
    BY <1>1, <1>3, YieldEffect DEF tty_read
  <1> QED
    BY <1>2, <1>3

\* A process whose read is blocked has an entry in the queue, perhaps not its own.
LEMMA QueueNotEmpty ==
  ASSUME IInv, NEW p \in Slots, processes[p].frame = "read"
  PROVE  read_wait \in Seq(Slots) /\ read_wait # <<>>
  <1>1. Reading(processes) \in SUBSET Slots /\ p \in Reading(processes)
    BY DEF Reading
  <1>2. Cardinality(Reading(processes)) \in Nat /\ Cardinality(Reading(processes)) # 0
    BY <1>1, FiniteSlots, FS_EmptySet
  <1>3. read_wait \in Seq(Slots) /\ Len(read_wait) >= Cardinality(Reading(processes))
    BY Facts DEF ScalarsOK, IInv, Queue
  <1> QED
    BY <1>2, <1>3

\* A read that goes on.
LEMMA ReadResumedEffect ==
  ASSUME IInv, OffCpu, read_resumed
  PROVE  Effect /\ OffCpu'
  <1> DEFINE p == current_process
  <1>1. /\ p \in Slots /\ processes[p].pid # 0 /\ processes[p].frame = "read"
        /\ processes \in Table /\ Vacant(processes) /\ mode = "kernel"
    BY Facts DEF read_resumed, OnProcessor
  <1>2. Kept(processes, processes) /\ \A q : Others(processes, processes, q)
    BY <1>1, KeptItself
  <1>3. CASE newline_present
    BY <1>1, <1>2, <1>3, QueueNotEmpty, LineReadEffect DEF read_resumed
  <1>4. CASE ~newline_present
    BY <1>1, <1>2, <1>4 DEF read_resumed, Effect, Still, OffCpu
  <1> QED
    BY <1>3, <1>4

\* The pipe or mutex call that goes on.
LEMMA YieldResumedEffect ==
  ASSUME IInv, OffCpu, yield_resumed
  PROVE  Effect /\ OffCpu'
  <1> DEFINE p == current_process
             t == [processes EXCEPT ![p].frame = "none"]
  <1>1. /\ p \in Slots /\ processes[p].pid # 0 /\ processes \in Table
        /\ UNCHANGED <<current_process, next_pid, processes_count>>
    BY Facts DEF yield_resumed, OnProcessor
  <1>2. CASE processes' = Returning(t, p) /\ mode' = "user"
    <2>1. Kept(processes, t) /\ Others(processes, t, p)
      BY <1>1, UnframedKept
    <2> HIDE DEF t
    <2>2. Kept(processes, processes') /\ OffCpu'
      BY <1>1, <1>2, <2>1, ReturnEffect
    <2> QED
      BY <1>1, <2>2 DEF Effect, Still
  <1>3. CASE processes' = Blocking(processes, p, "yield", "READY") /\ mode' = "switch"
    BY <1>1, <1>3, YieldEffect
  <1> QED
    BY <1>2, <1>3 DEF yield_resumed

\* The interrupt of the key that ends a line.
LEMMA InterruptEffect ==
  ASSUME IInv, OffCpu, write_to_keyboard_buffer
  PROVE  Effect /\ OffCpu'
  <1> DEFINE h == Head(read_wait)
             woken == read_wait # <<>> /\ processes[h].stack # "null"
  <1>1. processes \in Table /\ Vacant(processes) /\ read_wait \in Seq(Slots)
    BY Facts DEF ScalarsOK
  <1>2. CASE woken
    <2>1. h \in Slots /\ processes[h].pid # 0
      BY <1>1, <1>2 DEF Vacant
    <2>2. processes' = With(processes, h, State(processes[h], "READY"))
      BY <1>1, <1>2, <2>1 DEF write_to_keyboard_buffer, With, State, Table
    <2>3. /\ mode = "user" /\ mode' = "user"
          /\ UNCHANGED <<current_process, next_pid, processes_count>>
      BY DEF write_to_keyboard_buffer
    <2> HIDE DEF h
    <2>4. /\ Kept(processes, processes') /\ \A q : Others(processes, processes', q)
          /\ processes'[h].kernel_mode = processes[h].kernel_mode
          /\ processes'[h].signal_handled = processes[h].signal_handled
          /\ \A s \in Slots \ {h} : processes'[s] = processes[s]
      <3>1. State(processes[h], "READY") \in Process
        BY <1>1, <2>1, StateMild DEF Mild, Table
      <3>2. Kept(processes, processes')
        BY <1>1, <2>1, <2>2, StateKept
      <3>4. \A q : Others(processes, processes', q)
        BY <1>1, <2>1, <2>2, StateKept
      <3>5. /\ processes'[h].kernel_mode = processes[h].kernel_mode
            /\ processes'[h].signal_handled = processes[h].signal_handled
        BY <1>1, <2>1, <2>2, StateKept
      <3>3. \A s \in Slots \ {h} : processes'[s] = processes[s]
        BY <1>1, <2>1, <2>2, <3>1, WithEntries
      <3> QED
        BY <3>2, <3>3, <3>4, <3>5
    <2>5. OffCpu'
      BY <2>3, <2>4, OffCpuStep DEF OffCpu
    <2> QED
      BY <2>3, <2>4, <2>5 DEF Effect, Still
  <1>3. CASE ~woken
    <2>1. processes' = processes
      BY <1>1, <1>3 DEF write_to_keyboard_buffer, Table
    <2>2. Kept(processes, processes)
      BY <1>1, KeptItself
    <2> QED
      BY <2>1, <2>2 DEF write_to_keyboard_buffer, Effect, Still, OffCpu
  <1> QED
    BY <1>2, <1>3

\* The first signal is taken off the queue of a process.
LEMMA PoppedKept ==
  ASSUME NEW t \in Table, NEW s \in Slots, t[s].pid # 0,
         NEW u, u = With(t, s, Popped(t[s]))
  PROVE  /\ Kept(t, u) /\ \A q : Others(t, u, q)
         /\ u[s] = Popped(t[s]) /\ Popped(t[s]) \in Process
         /\ Popped(t[s]).pstate = t[s].pstate
  <1> DEFINE r == Popped(t[s])
  <1>1. t[s] \in Process /\ t[s].pending_signals \in SignalQueues
    BY DEF Table, Process
  <1>2. /\ r \in Process /\ r.pid = t[s].pid /\ r.stack = t[s].stack
        /\ r.pstate = t[s].pstate /\ r.kernel_mode = t[s].kernel_mode
        /\ r.signal_handled = t[s].signal_handled
    BY <1>1, RestOfSignals, QueuedFields DEF Popped
  <1> HIDE DEF r
  <1>3. Keeps(t[s], r) /\ Rests(t[s], r)
    BY <1>2 DEF Keeps, Rests
  <1>4. u = With(t, s, r)
    BY DEF r
  <1>5. Kept(t, u) /\ u[s] = r /\ \A q : Others(t, u, q)
    BY <1>2, <1>3, <1>4, WithKept
  <1> QED
    BY <1>2, <1>5 DEF r

\* Slot s is resumed.
LEMMA ResumeEffect ==
  ASSUME IInv, OffCpu, mode = "switch", NEW s \in Slots, ResumeDamage(s) = "none",
         Resume(s), current_process' = s, UNCHANGED <<next_pid, processes_count>>
  PROVE  Effect /\ OffCpu'
  <1> DEFINE e   == processes[s]
             sig == Head(e.pending_signals)
             t   == With(processes, s, Popped(e))
             g   == With(t, s, Handle(t[s]))
  <1>1. /\ processes \in Table /\ Vacant(processes) /\ e \in Process
        /\ e.pending_signals \in SignalQueues
    BY Facts DEF Table, Process
  <1>2. e.stack # "null" /\ e.pid # 0
    BY <1>1 DEF ResumeDamage, Vacant
  <1>3. t = [processes EXCEPT ![s].pending_signals = IF @ = <<>> THEN <<>> ELSE Tail(@)]
    BY DEF With, Popped, Queued, Rest
  <1>4. /\ Kept(processes, t) /\ \A q : Others(processes, t, q)
        /\ t[s] = Popped(e) /\ t[s] \in Process /\ t[s].pstate = e.pstate
    BY <1>1, <1>2, PoppedKept
  <1> HIDE DEF t
  <1>5. t \in Table /\ t[s].pid # 0
    BY <1>2, <1>4 DEF Kept, Keeps
  <1>6. t[s].kernel_mode = e.kernel_mode
    <2>1. e.pending_signals \in SignalQueues
      BY <1>1
    <2> QED
      BY <1>1, <1>4, <2>1, RestOfSignals, QueuedFields DEF Popped
  <1>7. ASSUME NEW u, Kept(processes, u), Others(processes, u, s),
               NEW v, v = With(u, s, State(u[s], "RUNNING")), u[s].pid # 0,
               processes' = v, mode' = "user",
               u[s].kernel_mode => u[s].signal_handled
        PROVE  Effect /\ OffCpu'
    <2>1. u \in Table
      BY <1>7 DEF Kept
    <2>2. Kept(u, v)
      BY <1>7, <2>1, StateKept
    <2>3. Others(u, v, s)
      BY <1>7, <2>1, StateKept
    <2>4. v[s].kernel_mode = u[s].kernel_mode /\ v[s].signal_handled = u[s].signal_handled
      BY <1>7, <2>1, StateKept
    <2>5. Kept(processes, processes') /\ Others(processes, processes', s)
      BY <1>7, <2>2, <2>3, KeptAfterKept, OthersAfterOthers
    <2>6. OffCpu'
      BY <1>7, <2>4, <2>5, OffCpuStep
    <2> QED
      BY <2>5, <2>6 DEF Effect, Still
  <1>8. CASE /\ e.signal_handled
             /\ processes' = [processes EXCEPT ![s].pstate = "RUNNING"] /\ mode' = "user"
    <2>1. processes' = With(processes, s, State(e, "RUNNING"))
      BY <1>8 DEF With, State
    <2>2. Kept(processes, processes) /\ Others(processes, processes, s)
      BY <1>1, KeptItself
    <2> QED
      BY <1>2, <1>7, <1>8, <2>1, <2>2
  <1>9. CASE /\ ~e.signal_handled /\ e.kernel_mode
             /\ processes' = t /\ mode' = "kernel"
    <2>1. e.pstate # "RUNNING"
      BY <1>9 DEF OffCpu, Handling
    <2>2. OffCpu'
      BY <1>4, <1>9, <2>1, OffCpuStep
    <2> QED
      BY <1>4, <1>9, <2>2 DEF Effect, Still
  <1>10. CASE /\ ~e.signal_handled /\ ~e.kernel_mode
              /\ processes' = [t EXCEPT ![s].pstate = "RUNNING"] /\ mode' = "user"
    <2>1. processes' = With(t, s, State(t[s], "RUNNING"))
      BY <1>10 DEF With, State
    <2> QED
      BY <1>4, <1>5, <1>6, <1>7, <1>10, <2>1
  <1>11. CASE processes' = [t EXCEPT ![s].pstate = "READY"] /\ mode' = "kernel"
    <2>1. processes' = With(t, s, State(t[s], "READY"))
      BY <1>11 DEF With, State
    <2>2. Kept(t, processes') /\ processes'[s].pstate = "READY"
      BY <1>5, <2>1, StateKept
    <2>3. Others(t, processes', s)
      BY <1>5, <2>1, StateKept
    <2>4. Kept(processes, processes') /\ Others(processes, processes', s)
      BY <1>4, <2>2, <2>3, KeptAfterKept, OthersAfterOthers
    <2>5. OffCpu'
      BY <1>11, <2>2, <2>4, OffCpuStep
    <2> QED
      BY <2>4, <2>5 DEF Effect, Still
  <1>12. CASE /\ processes' = [[t EXCEPT ![s].signal_handled = TRUE]
                                 EXCEPT ![s].pstate = "RUNNING"]
              /\ mode' = "user"
    <2> DEFINE r == Handle(t[s])
    <2>1. /\ r \in Process /\ r.pid = t[s].pid /\ r.stack = t[s].stack
          /\ r.pstate = t[s].pstate /\ r.signal_handled = TRUE
      BY <1>4 DEF Handle, Process
    <2>2. Keeps(t[s], r)
      BY <1>5, <2>1 DEF Keeps
    <2>3. processes' = With(g, s, State(g[s], "RUNNING"))
      BY <1>12 DEF With, State, Handle
    <2>4. g = With(t, s, r)
      OBVIOUS
    <2> HIDE DEF r, g
    <2>5. Kept(t, g) /\ Others(t, g, s) /\ g[s] = r
      BY <1>5, <2>1, <2>2, <2>4, WithKept
    <2>6. Kept(processes, g) /\ Others(processes, g, s)
      BY <1>4, <2>5, KeptAfterKept, OthersAfterOthers
    <2>7. g[s].pid # 0 /\ (g[s].kernel_mode => g[s].signal_handled)
      BY <1>5, <2>1, <2>5
    <2> QED
      BY <1>7, <1>12, <2>3, <2>6, <2>7
  <1>13. CASE /\ ~e.signal_handled /\ e.pending_signals # <<>> /\ Terminates(s, sig)
              /\ processes' = Killed(t, s) /\ mode' = "switch"
    <2>1. KillDamage(processes, s) = "none"
      BY <1>2, <1>13 DEF ResumeDamage
    <2>2. processes[s].stack = "page" /\ processes[s].parent \in Slots
      BY <2>1, KillableLives
    <2>3. t[s].parent \in Slots /\ t[s].stack # "null"
      BY <1>1, <1>4, <2>2, PoppedMild DEF SameProcess
    <2>4. /\ Died(t, processes', s) /\ processes'[s].pstate = "TERMINATED"
          /\ \A q : Others(t, processes', q)
      BY <1>5, <1>13, <2>3, KilledDied
    <2>5. Died(processes, processes', s) /\ Others(processes, processes', s)
      BY <1>4, <2>4, DiedKept, OthersAfterOthers
    <2>6. OffCpu'
      BY <1>13, <2>4, <2>5, OffCpuStep
    <2> QED
      BY <1>2, <2>2, <2>5, <2>6 DEF Effect, Death
  <1> QED
    BY <1>3, <1>8, <1>9, <1>10, <1>11, <1>12, <1>13 DEF Resume, ToUser, ToKernel

\* The switch.
LEMMA SwitchEffect ==
  ASSUME IInv, OffCpu, context_switch
  PROVE  Effect /\ OffCpu'
  <1> DEFINE s == scheduler_get_next_process
  <1>1. s \in Slots \cup {Idle} /\ processes \in Table /\ mode = "switch"
    BY Facts, NextSlot DEF context_switch
  <1> HIDE DEF s
  <1>2. CASE s = Idle
    <2>1. /\ processes' = processes /\ current_process' = Idle
          /\ UNCHANGED <<next_pid, processes_count>>
      BY <1>2 DEF context_switch, s
    <2>2. Kept(processes, processes')
      BY <1>1, <2>1, KeptItself
    <2>3. OffCpu'
      BY <1>1, <2>1, Constants DEF OffCpu
    <2> QED
      BY <2>1, <2>2, <2>3 DEF Effect, Still
  <1>3. CASE s \in Slots /\ ResumeDamage(s) # "none"
    BY <1>3, Constants, BrokenEffect DEF context_switch, s
  <1>4. CASE s \in Slots /\ ResumeDamage(s) = "none"
    <2>1. Resume(s) /\ current_process' = s /\ UNCHANGED <<next_pid, processes_count>>
      BY <1>4, Constants DEF context_switch, s
    <2> QED
      BY <1>1, <1>4, <2>1, ResumeEffect
  <1> QED
    BY <1>1, <1>2, <1>3, <1>4

\* spawn.
LEMMA SpawnEffect ==
  ASSUME IInv, OffCpu, NEW p \in Slots, spawn(p)
  PROVE  Effect /\ OffCpu'
  <1>1. processes \in Table /\ processes[p].pid # 0 /\ current_process = p
    BY Facts DEF spawn, InUserMode
  <1>2. PICK c \in Slots \ {p} :
          /\ processes[c] = Blank
          /\ Spawned(processes, processes', p, c, next_pid)
          /\ processes'[c].stack = "page" /\ processes'[p].kernel_mode = FALSE
    BY SpawnEntries
  <1>3. \A x \in Slots \ {c} : Keeps(processes[x], processes'[x])
    <2>1. Keeps(processes[p], processes'[p])
      BY <1>1, <1>2 DEF Keeps, Spawned
    <2>2. \A x \in Slots \ {c, p} : Keeps(processes[x], processes'[x])
      BY <1>2 DEF Keeps, Spawned
    <2> QED
      BY <2>1, <2>2
  <1>4. /\ Counted /\ mode' = "user" /\ current_process' = p
    BY <1>1 DEF spawn, Counted, scheduler_can_populate_process, InUserMode
  <1>5. Others(processes, processes', p)
    BY <1>2 DEF Others, Rests, Spawned
  <1>6. OffCpu'
    BY <1>1, <1>2, <1>4, <1>5, OffCpuStep
  <1>7. Birth
    BY <1>2, <1>3, <1>4 DEF Birth, Spawned
  <1> QED
    BY <1>6, <1>7 DEF Effect

\* Every step is of one of the five kinds.
LEMMA StepEffect ==
  ASSUME IInv, OffCpu, [Next]_vars
  PROVE  Effect /\ OffCpu'
  <1>1. CASE Tick
    BY <1>1, TickEffect DEF Tick
  <1>2. CASE ContextSwitch
    BY <1>2, SwitchEffect DEF ContextSwitch
  <1>3. CASE Resumed
    <2>1. CASE wait_resumed
      <3>1. current_process \in Slots /\ processes[current_process].pid # 0
        BY <2>1, Facts DEF wait_resumed, OnProcessor
      <3> QED
        BY <2>1, <3>1, ReapEffect DEF wait_resumed
    <2> QED
      BY <1>3, <2>1, YieldResumedEffect, ReadResumedEffect DEF Resumed
  <1>4. CASE Interrupt
    BY <1>4, InterruptEffect DEF Interrupt
  <1>5. CASE Program
    <2>1. PICK p \in Slots : UserStep(p)
      BY <1>5 DEF Program
    <2>2. CASE spawn(p) \/ spawn_unplaced(p) \/ spawn_refused(p)
      BY <2>2, SpawnEffect, UnplacedEffect
    <2>3. CASE spawn_wipes(p)
      BY <2>3, BrokenEffect DEF spawn_wipes
    <2>4. CASE \E sig \in Catchable : sys_signal(p, sig)
      BY <2>4, SignalEffect
    <2>5. CASE \E pid \in Killable : sys_kill_term(p, pid) \/ sys_kill(p, pid)
      BY <2>5, KillTermEffect, KillEffect
    <2>6. CASE sys_exit(p) \/ isr_usagefault(p)
      BY <2>6, ExitEffect
    <2>7. CASE sys_wait(p)
      BY <2>7, WaitEffect
    <2>8. CASE yield(p)
      BY <2>8, Facts, YieldEffect DEF yield, InUserMode
    <2>9. CASE tty_read(p)
      BY <2>9, ReadEffect
    <2>10. CASE sys_sigreturn(p)
      BY <2>10, SigreturnEffect
    <2> QED
      BY <2>1, <2>2, <2>3, <2>4, <2>5, <2>6, <2>7, <2>8, <2>9, <2>10 DEF UserStep
  <1>6. CASE UNCHANGED vars
    <2>1. Kept(processes, processes)
      BY Facts, KeptItself
    <2> QED
      BY <1>6, <2>1 DEF vars, Effect, Still, OffCpu
  <1> QED
    BY <1>1, <1>2, <1>3, <1>4, <1>5, <1>6 DEF Next

-----------------------------------------------------------------------------
(* The count of processes, the dead and the idle processor                 *)

\* The dead have given their stack back.
DeadFreed ==
  \A s \in Slots : processes[s].pstate = "TERMINATED" => processes[s].stack = "freed"

\* The count leaves room for the empty entries, but for one refused spawn.
Reckoned == processes_count + Cardinality(Empty) <= max_processes + 1

\* While the processor idles there is more than one process: with only one the
\* scheduler would choose the idle processor again without a look at the table.
NotAlone == current_process = Idle => processes_count # 1

\* The strengthened invariant.
LifeInv == IInv /\ OffCpu /\ DeadFreed /\ Reckoned /\ NotAlone

\* What the empty entries are after a change of the others.
LEMMA EmptyAfter ==
  ASSUME NEW S \in SUBSET Slots,
         \A x \in Slots \ S : Keeps(processes[x], processes'[x])
  PROVE  Empty' \subseteq Empty \cup S
  <1> SUFFICES ASSUME NEW x \in Slots \ S, processes'[x] = Blank
               PROVE  processes[x] = Blank
    BY DEF Empty
  <1>1. Keeps(processes[x], Blank)
    OBVIOUS
  <1>2. Blank.pid = 0 /\ Blank.pending_signals = <<>>
    BY DEF Blank
  <1> HIDE DEF Blank
  <1> QED
    BY <1>1, <1>2 DEF Keeps

\* The numbers of empty entries.
LEMMA EmptyCounts ==
  ASSUME processes_count \in Int
  PROVE  /\ Empty \in SUBSET Slots /\ Empty' \in SUBSET Slots
         /\ Cardinality(Empty) \in Nat /\ Cardinality(Empty') \in Nat
         /\ Empty' \subseteq Empty => Cardinality(Empty') <= Cardinality(Empty)
         /\ \A s \in Slots :
              /\ s \in Empty /\ Empty' \subseteq Empty \ {s}
                   => Cardinality(Empty') <= Cardinality(Empty) - 1
              /\ Empty' \subseteq Empty \cup {s}
                   => Cardinality(Empty') <= Cardinality(Empty) + 1
  <1>1. Empty \in SUBSET Slots /\ Empty' \in SUBSET Slots
    BY DEF Empty
  <1> DEFINE E == Empty
             F == Empty'
  <1>2. /\ IsFiniteSet(E) /\ Cardinality(E) \in Nat
        /\ IsFiniteSet(F) /\ Cardinality(F) \in Nat
    BY <1>1, FiniteSlots
  <1> HIDE DEF E, F
  <1>3. F \subseteq E => Cardinality(F) <= Cardinality(E)
    BY <1>2, FS_Subset
  <1>4. ASSUME NEW s \in E, F \subseteq E \ {s}
        PROVE  Cardinality(F) <= Cardinality(E) - 1
    <2>1. IsFiniteSet(E \ {s}) /\ Cardinality(E \ {s}) = Cardinality(E) - 1
      BY <1>2, FS_RemoveElement
    <2> QED
      BY <1>4, <2>1, FS_Subset
  <1>5. ASSUME NEW s, F \subseteq E \cup {s}
        PROVE  Cardinality(F) <= Cardinality(E) + 1
    <2>1. /\ IsFiniteSet(E \cup {s})
          /\ Cardinality(E \cup {s}) = IF s \in E THEN Cardinality(E) ELSE Cardinality(E) + 1
      BY <1>2, FS_AddElement
    <2>2. Cardinality(F) <= Cardinality(E \cup {s})
      BY <1>5, <2>1, FS_Subset
    <2> QED
      BY <1>2, <2>1, <2>2
  <1> QED
    BY <1>1, <1>2, <1>3, <1>4, <1>5 DEF E, F

\* The count of processes after a step.
LEMMA ReckonedStep ==
  ASSUME IInv, Reckoned, Effect
  PROVE  Reckoned'
  <1>1. /\ processes_count \in Int /\ next_pid # 0 /\ Blank.pid = 0
        /\ max_processes \in Nat
    BY Facts, Constants DEF ScalarsOK, Blank
  <1>2. CASE Still
    <2>1. Empty' \subseteq Empty \cup {}
      BY <1>2, EmptyAfter DEF Still, Kept
    <2>2. Cardinality(Empty') <= Cardinality(Empty) /\ processes_count' = processes_count
      BY <1>1, <1>2, <2>1, EmptyCounts DEF Still
    <2> QED
      BY <1>1, <2>2, EmptyCounts DEF Reckoned
  <1>3. CASE Death
    <2>1. PICK s \in Slots : /\ processes[s].pid # 0 /\ Died(processes, processes', s)
                             /\ processes_count' = processes_count
      BY <1>3 DEF Death
    <2>2. Empty' \subseteq Empty \cup {s}
      BY <2>1, EmptyAfter DEF Died
    <2>3. s \notin Empty'
      BY <1>1, <2>1 DEF Died, Empty
    <2>4. Cardinality(Empty') <= Cardinality(Empty)
      BY <1>1, <2>2, <2>3, EmptyCounts
    <2> QED
      BY <1>1, <2>1, <2>4, EmptyCounts DEF Reckoned
  <1>4. CASE Birth
    <2>1. PICK s \in Slots : /\ processes[s] = Blank /\ processes'[s].pid = next_pid
                             /\ \A x \in Slots \ {s} : Keeps(processes[x], processes'[x])
                             /\ processes_count' = processes_count + 1
      BY <1>4 DEF Birth, Counted
    <2>2. Empty' \subseteq Empty \cup {s}
      BY <2>1, EmptyAfter
    <2>3. s \in Empty /\ s \notin Empty'
      BY <1>1, <2>1 DEF Empty
    <2>4. Cardinality(Empty') <= Cardinality(Empty) - 1
      <3>1. Empty' \subseteq Empty \ {s}
        BY <2>2, <2>3
      <3> QED
        BY <1>1, <2>3, <3>1, EmptyCounts
    <2> QED
      BY <1>1, <2>1, <2>4, EmptyCounts DEF Reckoned
  <1>5. CASE Refusal
    <2>1. Empty' \subseteq Empty \cup {}
      BY <1>5, EmptyAfter DEF Refusal, Kept
    <2>2. Empty' = {} /\ processes_count <= max_processes
          /\ processes_count' = processes_count + 1
      BY <1>5, <2>1 DEF Refusal, Counted
    <2> QED
      BY <1>1, <2>2, FS_EmptySet DEF Reckoned
  <1>6. CASE Farewell
    <2>1. PICK s \in Slots : /\ \A x \in Slots \ {s} : Keeps(processes[x], processes'[x])
                             /\ processes_count' = processes_count - 1
      BY <1>6 DEF Farewell
    <2>2. Cardinality(Empty') <= Cardinality(Empty) + 1
      <3>1. Empty' \subseteq Empty \cup {s}
        BY <2>1, EmptyAfter
      <3> QED
        BY <1>1, <3>1, EmptyCounts
    <2> QED
      BY <1>1, <2>1, <2>2, EmptyCounts DEF Reckoned
  <1> QED
    BY <1>2, <1>3, <1>4, <1>5, <1>6 DEF Effect

\* The dead after a step.
LEMMA DeadStep ==
  ASSUME DeadFreed, Effect
  PROVE  DeadFreed'
  <1>1. ASSUME NEW s \in Slots, Keeps(processes[s], processes'[s])
        PROVE  processes'[s].pstate = "TERMINATED" => processes'[s].stack = "freed"
    BY <1>1 DEF Keeps, DeadFreed
  <1>2. CASE Still \/ Refusal
    BY <1>1, <1>2 DEF Still, Refusal, Kept, DeadFreed
  <1>3. CASE Death
    BY <1>1, <1>3 DEF Death, Died, DeadFreed
  <1>4. CASE Birth
    BY <1>1, <1>4 DEF Birth, DeadFreed
  <1>5. CASE Farewell
    <2>1. Blank.pstate # "TERMINATED"
      BY DEF Blank
    <2> QED
      BY <1>1, <1>5, <2>1 DEF Farewell, DeadFreed
  <1> QED
    BY <1>2, <1>3, <1>4, <1>5 DEF Effect

\* Only the switch changes the process on the processor, and only a process on
\* it changes the count.
LEMMA OnlySwitchMoves ==
  ASSUME IInv, [Next]_vars
  PROVE  \/ ContextSwitch
         \/ /\ current_process' = current_process
            /\ processes_count' = processes_count \/ current_process \in Slots
  <1>1. CASE Tick \/ Interrupt \/ UNCHANGED vars
    BY <1>1 DEF Tick, tick, Interrupt, write_to_keyboard_buffer, vars
  <1>2. CASE Resumed
    <2>1. current_process \in Slots
      BY <1>2, Facts DEF Resumed, wait_resumed, yield_resumed, read_resumed, OnProcessor
    <2>2. current_process' = current_process
      BY <1>2 DEF Resumed, wait_resumed, yield_resumed, read_resumed, Reap, LineRead,
                  Broken
    <2> QED
      BY <2>1, <2>2
  <1>3. CASE Program
    <2>1. PICK p \in Slots : UserStep(p)
      BY <1>3 DEF Program
    <2>2. current_process = p
      BY <2>1 DEF UserStep, spawn, spawn_unplaced, spawn_refused, spawn_wipes,
                  sys_signal, sys_kill_term, sys_kill, sys_exit, isr_usagefault, Exit,
                  sys_wait, yield, tty_read, sys_sigreturn, InUserMode
    <2>3. current_process' = current_process
      BY <2>1 DEF UserStep, spawn, spawn_unplaced, spawn_refused, spawn_wipes,
                  sys_signal, sys_kill_term, sys_kill, sys_exit, isr_usagefault, Exit,
                  sys_wait, yield, tty_read, sys_sigreturn, Reap, LineRead, Broken
    <2> QED
      BY <2>2, <2>3
  <1> QED
    BY <1>1, <1>2, <1>3 DEF Next

\* The switch chooses the idle processor only where nothing in the table runs.
LEMMA IdleChoice ==
  ASSUME IInv, NotAlone, context_switch, current_process' = Idle
  PROVE  \/ UNCHANGED <<mode, current_process, processes_count>>
         \/ /\ NextRunnable = {} /\ processes_count # 1
            /\ processes_count' = processes_count
  <1> DEFINE s == scheduler_get_next_process
  <1>1. s \in Slots \cup {Idle}
    BY Facts, NextSlot
  <1>2. s = Idle => NextRunnable = {} /\ processes_count # 1
    <2>1. processes_count = 1 => s = current_process
      BY DEF scheduler_get_next_process
    <2>2. processes_count # 1 /\ NextRunnable # {} => s # Idle
      <3> SUFFICES ASSUME processes_count # 1, NextRunnable # {}
                   PROVE  s \in Slots
        BY Constants
      <3> DEFINE n == CHOOSE n \in NextRunnable : \A m \in NextRunnable : n <= m
      <3>1. NextRunnable \in SUBSET Nat
        BY Constants DEF NextRunnable
      <3>2. n \in NextRunnable
        BY <3>1, Least
      <3>3. n \in Nat /\ current_index \in Nat
        BY <3>1, <3>2, Facts, Constants DEF ScalarsOK
      <3>4. s = After(n)
        BY DEF scheduler_get_next_process
      <3> HIDE DEF n, s
      <3> QED
        BY <3>3, <3>4, Constants DEF After, Slots
    <2> QED
      BY <2>1, <2>2 DEF NotAlone
  <1> HIDE DEF s
  <1>3. CASE s = Idle
    BY <1>2, <1>3 DEF context_switch, s
  <1>4. CASE s \in Slots
    BY <1>4, Constants DEF context_switch, Broken, s
  <1> QED
    BY <1>1, <1>3, <1>4

\* Whether the processor idles after a step.
LEMMA NotAloneStep ==
  ASSUME IInv, NotAlone, [Next]_vars
  PROVE  NotAlone'
  <1>1. CASE ContextSwitch
    BY <1>1, IdleChoice DEF ContextSwitch, NotAlone
  <1>2. CASE /\ current_process' = current_process
             /\ processes_count' = processes_count \/ current_process \in Slots
    BY <1>2, Constants DEF NotAlone
  <1> QED
    BY <1>1, <1>2, OnlySwitchMoves

\* The strengthened invariant holds when init starts.
LEMMA LifeStart ==
  Init => LifeInv
  <1> SUFFICES ASSUME Init
               PROVE  LifeInv
    OBVIOUS
  <1>1. /\ processes = [s \in Slots |-> IF s = 0 THEN InitProcess ELSE Blank]
        /\ current_process = 0 /\ processes_count = 1 /\ mode = "user"
    BY DEF Init
  <1>2. /\ InitProcess.pstate = "RUNNING" /\ InitProcess.kernel_mode = FALSE
        /\ InitProcess.pid # 0 /\ Blank.pid = 0 /\ Blank.pstate = "NEW"
    BY DEF InitProcess, Blank, PID_INIT
  <1> HIDE DEF InitProcess, Blank
  <1>3. /\ processes[0] = InitProcess
        /\ \A s \in Slots \ {0} : processes[s] = Blank
    BY <1>1, Constants
  <1>4. OffCpu /\ DeadFreed
    BY <1>1, <1>2, <1>3 DEF OffCpu, DeadFreed
  <1>5. NotAlone
    BY <1>1, Constants DEF NotAlone
  <1>6. Reckoned
    <2>1. Empty \subseteq Slots \ {0}
      BY <1>2, <1>3 DEF Empty
    <2>2. IsFiniteSet(Slots \ {0}) /\ Cardinality(Slots \ {0}) = max_processes - 1
      <3>1. IsFiniteSet(Slots) /\ Cardinality(Slots) = max_processes
        BY FiniteSlots, FS_Interval, Constants DEF Slots
      <3> QED
        BY <3>1, FS_RemoveElement, Constants
    <2>3. Cardinality(Empty) <= max_processes - 1 /\ Cardinality(Empty) \in Nat
      BY <2>1, <2>2, FS_Subset, FS_CardinalityType
    <2> QED
      BY <1>1, <2>3, Constants DEF Reckoned
  <1> QED
    BY Start, <1>4, <1>5, <1>6 DEF LifeInv

\* And every step keeps it.
LEMMA LifeStep ==
  LifeInv /\ [Next]_vars => LifeInv'
  BY Step, StepEffect, ReckonedStep, DeadStep, NotAloneStep DEF LifeInv

\* Whatever programs do, the dead have no stack, the count leaves room for the
\* empty entries, and who runs is on the processor or in a signal handler.
THEOREM LifeInvariance == Spec => []LifeInv
  <1> QED
    BY LifeStart, LifeStep, PTL DEF Spec

\* No ready process is left in state RUNNING, where the scheduler would not find
\* it, but one interrupted in a handler with its kernel_mode set.
THEOREM NobodyIsForgotten == Spec => []RunningOffCpu
  <1>1. LifeInv => RunningOffCpu
    BY DEF LifeInv, OffCpu, Handling, RunningOffCpu
  <1> QED
    BY <1>1, LifeInvariance, PTL

\* The count and the table.
LEMMA CountLemma ==
  LifeInv => CountFollowsTable
  <1> SUFFICES ASSUME LifeInv
               PROVE  CountFollowsTable
    OBVIOUS
  <1> DEFINE U == Used(processes)
             G == {s \in Slots \ Empty : processes[s].pid = 0}
             E == Empty
  <1>1. /\ processes_count \in Int /\ processes_count >= Cardinality(U)
        /\ processes_count + Cardinality(E) <= max_processes + 1
    BY Facts DEF LifeInv, IInv, Reckoned
  <1>2. /\ U \subseteq Slots /\ G \subseteq Slots /\ E \subseteq Slots
        /\ Slots = U \cup (G \cup E) /\ U \cap (G \cup E) = {} /\ G \cap E = {}
    BY DEF Used, Empty, Blank
  <1> HIDE DEF U, G, E
  <1>3. /\ IsFiniteSet(U) /\ Cardinality(U) \in Nat
        /\ IsFiniteSet(G) /\ Cardinality(G) \in Nat
        /\ IsFiniteSet(E) /\ Cardinality(E) \in Nat
    BY <1>2, FiniteSlots
  <1>4. IsFiniteSet(G \cup E) /\ Cardinality(G \cup E) = Cardinality(G) + Cardinality(E)
    <2>1. Cardinality(G \cap E) = 0
      BY <1>2, FS_EmptySet
    <2>2. /\ IsFiniteSet(G \cup E)
          /\ Cardinality(G \cup E) = Cardinality(G) + Cardinality(E) - Cardinality(G \cap E)
      BY <1>3, FS_Union
    <2> QED
      BY <1>3, <2>1, <2>2
  <1>5. max_processes = Cardinality(U) + Cardinality(G) + Cardinality(E)
    <2>1. Cardinality(Slots) = max_processes
      BY FS_Interval, Constants DEF Slots
    <2>2. Cardinality(U \cap (G \cup E)) = 0
      BY <1>2, FS_EmptySet
    <2>3. Cardinality(U \cup (G \cup E))
            = Cardinality(U) + Cardinality(G \cup E) - Cardinality(U \cap (G \cup E))
      BY <1>3, <1>4, FS_Union
    <2> QED
      BY <1>2, <1>3, <1>4, <2>1, <2>2, <2>3
  <1>6. processes_count - Cardinality(U) \in 0 .. 1 + Cardinality(G)
    BY <1>1, <1>3, <1>5
  <1> QED
    BY <1>6 DEF CountFollowsTable, U, G, Used

\* processes_count follows the table through every spawn, refused spawn and wait.
THEOREM CountCorrect == Spec => []CountFollowsTable
  BY CountLemma, LifeInvariance, PTL

\* Every slot is at some distance from every other, going round the table.
LEMMA RoundTheTable ==
  ASSUME ScalarsOK, NEW s \in Slots
  PROVE  \E n \in 1 .. max_processes : After(n) = s
  <1>1. /\ current_index \in Nat /\ current_index < max_processes
        /\ s \in Nat /\ s < max_processes /\ max_processes \in Nat /\ max_processes > 0
    BY Constants DEF ScalarsOK, Slots
  <1>2. CASE s > current_index
    <2>1. s - current_index \in 1 .. max_processes
          /\ current_index + (s - current_index) = s
      BY <1>1, <1>2
    <2>2. s % max_processes = s
      BY <1>1
    <2> QED
      BY <2>1, <2>2 DEF After
  <1>3. CASE s <= current_index
    <2> DEFINE n == s - current_index + max_processes
    <2>1. n \in 1 .. max_processes /\ current_index + n = s + max_processes
      BY <1>1, <1>3
    <2>2. (s + max_processes) % max_processes = s
      BY <1>1
    <2> QED
      BY <2>1, <2>2 DEF After
  <1> QED
    BY <1>1, <1>2, <1>3

\* The processor idles only when no process is ready and none has a signal
\* pending: one round of the table is enough, and the shortcut for a count of 1
\* is never taken by the idle processor.
THEOREM IdleCorrect == Spec => IdlesOnlyWhenIdle
  <1>1. ASSUME LifeInv, [Next]_vars, mode = "switch", mode' = "user",
               current_process' = Idle
        PROVE  \A s \in Slots : ~Runnable(s)
    <2>1. context_switch
      <3>1. ~Tick /\ ~Resumed /\ ~Interrupt /\ ~UNCHANGED vars
        BY <1>1 DEF Tick, tick, Resumed, wait_resumed, yield_resumed, read_resumed,
                    Interrupt, write_to_keyboard_buffer, vars
      <3>2. ~Program
        BY <1>1 DEF Program, UserStep, spawn, spawn_unplaced, spawn_refused,
                    spawn_wipes, sys_signal, sys_kill_term, sys_kill, sys_exit,
                    isr_usagefault, Exit, sys_wait, yield, tty_read, sys_sigreturn,
                    InUserMode
      <3> QED
        BY <1>1, <3>1, <3>2 DEF Next, ContextSwitch
    <2>2. NextRunnable = {}
      BY <1>1, <2>1, IdleChoice DEF LifeInv
    <2> SUFFICES ASSUME NEW s \in Slots, Runnable(s)
                 PROVE  FALSE
      OBVIOUS
    <2>3. PICK n \in 1 .. max_processes : After(n) = s
      BY <1>1, Facts, RoundTheTable DEF LifeInv
    <2>4. n \in NextRunnable
      BY <2>3 DEF NextRunnable
    <2> QED
      BY <2>2, <2>4
  <1>2. LifeInv /\ [Next]_vars =>
          [mode = "switch" /\ mode' = "user" /\ current_process' = Idle
             => \A s \in Slots : ~Runnable(s)]_vars
    BY <1>1
  <1> QED
    BY <1>2, LifeInvariance, PTL DEF Spec, IdlesOnlyWhenIdle

-----------------------------------------------------------------------------
(* The refinement                                                          *)

Pids == PID_INIT .. MaxPid

\* What Life says of a pid, when t is the table and n the next pid.
Stage(t, n, pid) ==
  IF pid >= n THEN "unborn"
  ELSE IF \A s \in Slots : t[s].pid # pid THEN "gone"
  ELSE IF \E s \in Slots : t[s].pid = pid /\ t[s].stack = "freed" THEN "zombie"
  ELSE "live"

Stages(t, n) == [pid \in Pids |-> Stage(t, n, pid)]

\* Life is a function of the table and the next pid, whichever slots are used.
Charted == [pid \in Pids |-> Life(pid)] = Stages(processes, next_pid)

\* It is the stage of the pid.
LEMMA LifeIsStage ==
  IInv => Charted
  <1> SUFFICES ASSUME IInv, NEW pid \in Pids
               PROVE  Life(pid) = Stage(processes, next_pid, pid)
    BY DEF Charted, Stages
  <1>1. Numbered(processes, next_pid) /\ pid # 0 /\ pid \in Nat
    BY Constants DEF IInv, Pids, PID_INIT
  <1>2. CASE pid >= next_pid
    BY <1>2 DEF Life, Stage
  <1>3. CASE ~(pid >= next_pid) /\ WithPid(pid) = {}
    <2>1. ByPid(pid) = Null
      BY <1>3 DEF ByPid
    <2>2. \A s \in Slots : processes[s].pid # pid
      BY <1>3 DEF WithPid
    <2> QED
      BY <1>3, <2>1, <2>2 DEF Life, Stage
  <1>4. CASE ~(pid >= next_pid) /\ WithPid(pid) # {}
    <2>1. PICK s \in Slots : processes[s].pid = pid
      BY <1>4 DEF WithPid
    <2>2. \A r \in Slots : processes[r].pid = pid => r = s
      BY <1>1, <2>1 DEF Numbered
    <2>3. WithPid(pid) = {s}
      BY <2>1, <2>2 DEF WithPid
    <2>4. ByPid(pid) = s
      <3>1. s \in Nat
        BY Constants
      <3>2. s <= s
        BY <3>1
      <3> QED
        BY <2>3, <3>2 DEF ByPid
    <2>5. ByPid(pid) # Null
      BY <2>4, Constants
    <2> QED
      BY <1>4, <2>1, <2>2, <2>4, <2>5 DEF Life, Stage
  <1> QED
    BY <1>2, <1>3, <1>4

\* The stage of one pid changes.
Moves(t, n, u, m, pid, from, to) ==
  /\ Stage(t, n, pid) = from /\ Stage(u, m, pid) = to
  /\ \A q \in Pids \ {pid} : Stage(u, m, q) = Stage(t, n, q)

\* A pid whose entries keep their stack keeps its stage.
LEMMA StageKept ==
  ASSUME NEW t, NEW n, NEW u, NEW pid,
         \A s \in Slots : u[s].pid = pid <=> t[s].pid = pid,
         \A s \in Slots : t[s].pid = pid => u[s].stack = t[s].stack
  PROVE  Stage(u, n, pid) = Stage(t, n, pid)
  BY DEF Stage

\* Each of the five kinds of steps is a step of ProcessLife, or none: no pid
\* changes its stage.
LEMMA StillStage ==
  ASSUME Still
  PROVE  Stages(processes', next_pid') = Stages(processes, next_pid)
  <1>1. \A pid : Stage(processes', next_pid, pid) = Stage(processes, next_pid, pid)
    BY StageKept DEF Still, Kept, Keeps
  <1> QED
    BY <1>1 DEF Stages, Still

\* A death: the pid of the process goes from live to zombie.
LEMMA DeathStage ==
  ASSUME IInv, Death
  PROVE  \E pid \in Pids : Moves(processes, next_pid, processes', next_pid', pid,
                                 "live", "zombie")
  <1>1. PICK s \in Slots : /\ processes[s].pid # 0 /\ processes[s].stack = "page"
                           /\ Died(processes, processes', s) /\ next_pid' = next_pid
    BY DEF Death
  <1> DEFINE pid == processes[s].pid
  <1>2. /\ pid \in Pids /\ pid < next_pid /\ next_pid \in Int
        /\ \A r \in Slots : processes[r].pid = pid => r = s
    <2>1. processes \in Table /\ Numbered(processes, next_pid) /\ next_pid \in Int
      BY Facts DEF IInv
    <2>2. pid \in 0 .. MaxPid
      BY <2>1, Entry
    <2> QED
      BY <1>1, <2>1, <2>2, Constants DEF Numbered, Pids, PID_INIT
  <1>3. \A r \in Slots : processes'[r].pid = processes[r].pid
    BY <1>1 DEF Died, Keeps
  <1>4. Stage(processes, next_pid, pid) = "live"
    BY <1>1, <1>2, Constants DEF Stage, Pids
  <1>5. Stage(processes', next_pid', pid) = "zombie"
    BY <1>1, <1>2, <1>3, Constants DEF Stage, Died, Pids
  <1>6. ASSUME NEW q \in Pids \ {pid}
        PROVE  Stage(processes', next_pid, q) = Stage(processes, next_pid, q)
    <2>1. \A r \in Slots : processes[r].pid = q => processes'[r].stack = processes[r].stack
      BY <1>1 DEF Died, Keeps
    <2> QED
      BY <1>3, <2>1, StageKept
  <1> QED
    BY <1>1, <1>2, <1>4, <1>5, <1>6 DEF Moves

\* A spawn: the next pid is born.
LEMMA BirthStage ==
  ASSUME IInv, IInv', Birth
  PROVE  \E pid \in Pids : Moves(processes, next_pid, processes', next_pid', pid,
                                 "unborn", "live")
  <1> DEFINE n == next_pid
  <1>1. PICK s \in Slots : /\ processes[s] = Blank
                           /\ processes'[s].pid = n /\ processes'[s].stack = "page"
                           /\ \A x \in Slots \ {s} : Keeps(processes[x], processes'[x])
                           /\ n <= MaxPid /\ next_pid' = n + 1
    BY DEF Birth, Counted
  <1>2. n \in Pids /\ n \in Int /\ Pids \subseteq Int
    BY <1>1, Facts, Constants DEF ScalarsOK, Pids, PID_INIT
  <1>3. \A r \in Slots : processes'[r].pid = n => r = s
    <2>1. \A r, x \in Slots : processes'[r].pid = processes'[x].pid
                              /\ processes'[r].pid # 0 => r = x
      BY DEF IInv, Numbered
    <2> QED
      BY <1>1, <1>2, <2>1 DEF Pids, PID_INIT
  <1>4. Stage(processes, n, n) = "unborn"
    BY <1>2 DEF Stage
  <1>5. Stage(processes', n + 1, n) = "live"
    BY <1>1, <1>2, <1>3 DEF Stage
  <1>6. ASSUME NEW q \in Pids \ {n}
        PROVE  Stage(processes', n + 1, q) = Stage(processes, n, q)
    <2>1. CASE q > n
      BY <1>2, <2>1 DEF Stage
    <2>2. CASE q < n
      <3>1. q # 0 /\ processes[s].pid = 0
        BY <1>1 DEF Pids, PID_INIT, Blank
      <3>2. Stage(processes', n, q) = Stage(processes, n, q)
        BY <1>1, <3>1, StageKept DEF Keeps
      <3>3. Stage(processes', n + 1, q) = Stage(processes', n, q)
        BY <1>2, <2>2 DEF Stage
      <3> QED
        BY <3>2, <3>3
    <2> QED
      BY <1>2, <2>1, <2>2
  <1> QED
    BY <1>1, <1>2, <1>4, <1>5, <1>6 DEF Moves

\* A spawn that finds no place: the next pid is passed over.
LEMMA RefusalStage ==
  ASSUME IInv, Refusal
  PROVE  \E pid \in Pids : Moves(processes, next_pid, processes', next_pid', pid,
                                 "unborn", "gone")
  <1> DEFINE n == next_pid
  <1>1. /\ \A x \in Slots : processes'[x].pid = processes[x].pid
                            /\ processes'[x].stack = processes[x].stack
        /\ n <= MaxPid /\ next_pid' = n + 1
    BY DEF Refusal, Counted, Kept, Keeps
  <1>2. n \in Pids /\ n \in Int /\ Pids \subseteq Int
    BY <1>1, Facts, Constants DEF ScalarsOK, Pids, PID_INIT
  <1>3. \A s \in Slots : processes[s].pid # n
    BY <1>2 DEF IInv, Numbered
  <1>4. Stage(processes, n, n) = "unborn"
    BY <1>2 DEF Stage
  <1>5. Stage(processes', n + 1, n) = "gone"
    BY <1>1, <1>2, <1>3 DEF Stage
  <1>6. ASSUME NEW q \in Pids \ {n}
        PROVE  Stage(processes', n + 1, q) = Stage(processes, n, q)
    <2>1. Stage(processes', n, q) = Stage(processes, n, q)
      BY <1>1, StageKept
    <2>2. q >= n + 1 <=> q >= n
      BY <1>2
    <2>3. Stage(processes', n + 1, q) = Stage(processes', n, q)
      BY <2>2 DEF Stage
    <2> QED
      BY <2>1, <2>3
  <1> QED
    BY <1>1, <1>2, <1>4, <1>5, <1>6 DEF Moves

\* A wait: the pid of a zombie is gone.
LEMMA FarewellStage ==
  ASSUME IInv, DeadFreed, Farewell
  PROVE  \E pid \in Pids : Moves(processes, next_pid, processes', next_pid', pid,
                                 "zombie", "gone")
  <1>1. PICK s \in Slots : /\ processes[s].pid # 0 /\ processes[s].stack = "freed"
                           /\ processes'[s].pid = 0
                           /\ \A x \in Slots \ {s} : Keeps(processes[x], processes'[x])
                           /\ next_pid' = next_pid
    BY DEF Farewell, DeadFreed, Blank
  <1> DEFINE pid == processes[s].pid
  <1>2. /\ pid \in Pids /\ pid < next_pid /\ next_pid \in Int
        /\ \A r \in Slots : processes[r].pid = pid => r = s
    <2>1. processes \in Table /\ Numbered(processes, next_pid) /\ next_pid \in Int
      BY Facts DEF IInv
    <2>2. pid \in 0 .. MaxPid
      BY <2>1, Entry
    <2> QED
      BY <1>1, <2>1, <2>2, Constants DEF Numbered, Pids, PID_INIT
  <1>3. Stage(processes, next_pid, pid) = "zombie"
    BY <1>1, <1>2, Constants DEF Stage, Pids
  <1>4. Stage(processes', next_pid', pid) = "gone"
    BY <1>1, <1>2, Constants DEF Stage, Keeps, Pids
  <1>5. ASSUME NEW q \in Pids \ {pid}
        PROVE  Stage(processes', next_pid, q) = Stage(processes, next_pid, q)
    <2>1. q # 0
      BY DEF Pids, PID_INIT
    <2> QED
      BY <1>1, <2>1, StageKept DEF Keeps
  <1> QED
    BY <1>1, <1>2, <1>3, <1>4, <1>5 DEF Moves

\* The scheduler implements ProcessLife: a process dies once, is waited for once
\* and only when dead, and its pid never names another process, for tables and
\* numbers of processes of every size.
THEOREM LifeRefined == Spec => ImplementsProcessLife
  <1> DEFINE L == [pid \in PID_INIT .. MaxPid |-> Life(pid)]
  <1>1. Init => Lives!Init
    <2> SUFFICES ASSUME Init
                 PROVE  Lives!Init
      OBVIOUS
    <2>1. /\ processes = [s \in Slots |-> IF s = 0 THEN InitProcess ELSE Blank]
          /\ next_pid = PID_INIT + 1
      BY DEF Init
    <2>2. /\ InitProcess.pid = PID_INIT /\ InitProcess.stack = "page" /\ Blank.pid = 0
          /\ PID_INIT \in Pids /\ Pids \subseteq Nat \ {0}
      BY Constants DEF InitProcess, Blank, PID_INIT, Pids
    <2> HIDE DEF InitProcess, Blank
    <2>3. ASSUME NEW pid \in Pids
          PROVE  Stage(processes, next_pid, pid)
                   = IF pid = PID_INIT THEN "live" ELSE "unborn"
      BY <2>1, <2>2, Constants DEF Stage, Pids, PID_INIT
    <2>4. L = Stages(processes, next_pid)
      BY Start, LifeIsStage DEF Charted, Pids
    <2>5. L = [pid \in Pids |-> IF pid = PID_INIT THEN "live" ELSE "unborn"]
      BY <2>3, <2>4 DEF Stages
    <2> QED
      BY <2>2, <2>5 DEF Lives!Init, Pids
  <1>2. IInv => L = Stages(processes, next_pid)
    BY LifeIsStage DEF Charted, Pids
  <1>3. IInv' => L' = Stages(processes', next_pid')
    <2>1. IInv' => Charted'
      BY LifeIsStage, PTL
    <2> QED
      BY <2>1 DEF Charted, Pids
  <1>4. LifeInv /\ [Next]_vars => [Lives!Next]_L
    <2> SUFFICES ASSUME LifeInv, [Next]_vars
                 PROVE  Lives!Next \/ L' = L
      OBVIOUS
    <2>1. LifeInv' /\ Effect
      BY LifeStep, StepEffect DEF LifeInv
    <2>2. L = Stages(processes, next_pid)
      BY <1>2 DEF LifeInv
    <2>3. L' = Stages(processes', next_pid')
      BY <1>3, <2>1 DEF LifeInv
    <2>4. CASE Still
      BY <2>2, <2>3, <2>4, StillStage
    <2>5. ASSUME NEW pid \in Pids, NEW from, NEW to,
                 Moves(processes, next_pid, processes', next_pid', pid, from, to)
          PROVE  Lives!Becomes(pid, from, to)
      <3>1. /\ Stages(processes, next_pid)[pid] = from
            /\ Stages(processes', next_pid') = [Stages(processes, next_pid) EXCEPT ![pid] = to]
        BY <2>5 DEF Moves, Stages
      <3>2. L[pid] = from /\ L' = [L EXCEPT ![pid] = to]
        BY <2>2, <2>3, <3>1
      <3> QED
        BY <3>2 DEF Lives!Becomes
    <2> HIDE DEF L
    <2>6. CASE Death
      BY <2>1, <2>5, <2>6, DeathStage DEF LifeInv, Lives!Next, Lives!Died, Pids
    <2>7. CASE Birth
      BY <2>1, <2>5, <2>7, BirthStage DEF LifeInv, Lives!Next, Lives!Spawned, Pids
    <2>8. CASE Refusal
      BY <2>1, <2>5, <2>8, RefusalStage DEF LifeInv, Lives!Next, Lives!Refused, Pids
    <2>9. CASE Farewell
      BY <2>1, <2>5, <2>9, FarewellStage DEF LifeInv, Lives!Next, Lives!WaitedFor, Pids
    <2> QED
      BY <2>1, <2>4, <2>6, <2>7, <2>8, <2>9 DEF Effect
  <1> QED
    BY <1>1, <1>4, LifeInvariance, PTL DEF Spec, ImplementsProcessLife, Lives!Spec
=============================================================================
