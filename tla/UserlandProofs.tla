--------------------------- MODULE UserlandProofs ---------------------------
(***************************************************************************)
(* For tables of every length.  Whatever the user kills, init never runs a *)
(* second shell beside the first.  As long as the user kills the LED       *)
(* process only, nothing undefined happens, and init and the shell always  *)
(* find an empty entry for the program they start.                         *)
(*                                                                         *)
(* The first part says what each call leaves in the entries of the table,  *)
(* the second which program is in which slot (Roles), and the third who    *)
(* has started whom, who is alive, and why a parent that leaves its sleep  *)
(* in wait finds a dead child (SInv).                                      *)
(***************************************************************************)
EXTENDS Userland, SchedulerProofs

-----------------------------------------------------------------------------
(* What a call leaves in the entries of the table                          *)

\* Entry r has the process and the family of entry e.
Alike(e, r) ==
  /\ r \in Process
  /\ r.pid = e.pid /\ r.parent = e.parent /\ r.stack = e.stack
  /\ r.children = e.children /\ r.children_count = e.children_count
  /\ r.max_children_count = e.max_children_count

\* And these are its other fields.
Becomes(e, r, pstate, kernel_mode, frame, pending, handled, handlers) ==
  /\ Alike(e, r)
  /\ r.pstate = pstate /\ r.kernel_mode = kernel_mode /\ r.frame = frame
  /\ r.pending_signals = pending /\ r.signal_handled = handled
  /\ r.handlers = handlers

\* Of these fields r has its own signals only.
Hears(e, r) ==
  Becomes(e, r, e.pstate, e.kernel_mode, e.frame, r.pending_signals,
          e.signal_handled, e.handlers)

\* Table u is t but for entry p.
Only(t, u, p) ==
  u \in Table /\ u[p] \in Process /\ \A x \in Slots \ {p} : u[x] = t[x]

\* One entry is put in its place.
LEMMA OnlyWith ==
  ASSUME NEW t \in Table, NEW p \in Slots, NEW r \in Process, NEW u, u = With(t, p, r)
  PROVE  Only(t, u, p) /\ u[p] = r
  BY WithEntries DEF Only

\* signal.
LEMMA SignalTurns ==
  ASSUME IInv, NEW p \in Slots, NEW sig \in Catchable, sys_signal(p, sig)
  PROVE  LET e == processes[p]
         IN  /\ Only(processes, processes', p)
             /\ Becomes(e, processes'[p], e.pstate, FALSE, e.frame,
                        e.pending_signals, e.signal_handled, e.handlers \cup {sig})
  <1> DEFINE e == processes[p]
             r == [e EXCEPT !.handlers = @ \cup {sig}, !.kernel_mode = FALSE]
  <1>1. processes \in Table /\ e \in Process
    BY Facts DEF Table
  <1>2. processes' = With(processes, p, r)
    BY <1>1, Zenon DEF sys_signal, Returning, With, Table
  <1>3. r \in Process
        /\ Becomes(e, r, e.pstate, FALSE, e.frame, e.pending_signals,
                   e.signal_handled, e.handlers \cup {sig})
    BY <1>1 DEF Process, Becomes, Alike
  <1> HIDE DEF r
  <1> QED
    BY <1>1, <1>2, <1>3, OnlyWith

\* The way out of a call.
LEMMA ReturningTurns ==
  ASSUME NEW t \in Table, NEW p \in Slots, NEW u, u = Returning(t, p)
  PROVE  LET e == t[p]
         IN  /\ Only(t, u, p)
             /\ Becomes(e, u[p], e.pstate, FALSE, e.frame, e.pending_signals,
                        e.signal_handled, e.handlers)
  <1> DEFINE e == t[p]
             r == Flag(e, FALSE)
  <1>1. e \in Process /\ u = With(t, p, r)
    BY DEF Table, Returning, With, Flag
  <1>2. r \in Process
        /\ Becomes(e, r, e.pstate, FALSE, e.frame, e.pending_signals,
                   e.signal_handled, e.handlers)
    BY <1>1 DEF Process, Becomes, Alike, Flag
  <1> HIDE DEF r
  <1> QED
    BY <1>1, <1>2, OnlyWith

\* A signal is queued.
LEMMA NotifyTurns ==
  ASSUME NEW t \in Table, NEW s \in Slots, NEW sig \in Signals,
         NEW u, u = signal_notify(t, s, sig)
  PROVE  /\ Only(t, u, s) /\ Hears(t[s], u[s])
         /\ u[s].pending_signals = Append(t[s].pending_signals, sig)
  <1> DEFINE e == t[s]
             q == Append(e.pending_signals, sig)
             r == Queued(e, q)
  <1>1. e \in Process /\ u = With(t, s, r)
    BY DEF Table, signal_notify, With, Queued
  <1>2. q \in SignalQueues
    BY <1>1 DEF Process, SignalQueues
  <1> HIDE DEF q
  <1>3. r \in Process /\ r.pending_signals = q /\ Hears(e, r)
    BY <1>1, <1>2 DEF Process, Hears, Becomes, Alike, Queued
  <1> HIDE DEF r
  <1> QED
    BY <1>1, <1>3, OnlyWith DEF q

\* A call that blocks.
LEMMA BlockingTurns ==
  ASSUME NEW t \in Table, NEW p \in Slots,
         NEW c \in {"wait", "yield", "read"},
         NEW st \in {"READY", "WAITING_FOR_RESOURCE", "WAITING_FOR_CHILD_EXIT"},
         NEW u, u = Blocking(t, p, c, st)
  PROVE  LET e == t[p]
         IN  /\ Only(t, u, p)
             /\ Becomes(e, u[p], st, TRUE, c, e.pending_signals,
                        e.signal_handled, e.handlers)
  <1> DEFINE e == t[p]
             r == Stop(e, c, st)
  <1>1. e \in Process /\ u = With(t, p, r) /\ r \in Process
    BY BlockingEntry DEF Table
  <1>2. Becomes(e, r, st, TRUE, c, e.pending_signals, e.signal_handled, e.handlers)
    BY <1>1 DEF Process, Becomes, Alike, Stop
  <1> HIDE DEF r
  <1> QED
    BY <1>1, <1>2, OnlyWith

\* A state changes.
LEMMA StateTurns ==
  ASSUME NEW t \in Table, NEW p \in Slots, NEW st \in {"RUNNING", "READY"},
         NEW u, u = With(t, p, State(t[p], st))
  PROVE  LET e == t[p]
         IN  /\ Only(t, u, p)
             /\ Becomes(e, u[p], st, e.kernel_mode, e.frame, e.pending_signals,
                        e.signal_handled, e.handlers)
  <1> DEFINE e == t[p]
             r == State(e, st)
  <1>1. e \in Process /\ u = With(t, p, r)
    BY DEF Table
  <1>2. r \in Process
        /\ Becomes(e, r, st, e.kernel_mode, e.frame, e.pending_signals,
                   e.signal_handled, e.handlers)
    BY <1>1 DEF Process, Becomes, Alike, State
  <1> HIDE DEF r
  <1> QED
    BY <1>1, <1>2, OnlyWith

\* kill with SIGTERM: the signal is queued, and the call returns.
LEMMA TermTurns ==
  ASSUME IInv, NEW p \in Slots, NEW pid \in Killable, sys_kill_term(p, pid)
  PROVE  LET s == ByPid(pid)
             e == processes[s]
         IN  /\ s \in Slots /\ processes' \in Table
             /\ \A x \in Slots \ {p, s} : processes'[x] = processes[x]
             /\ \A x \in Slots :
                  LET f == processes[x]
                      r == processes'[x]
                  IN  Becomes(f, r, f.pstate, IF x = p THEN FALSE ELSE f.kernel_mode,
                              f.frame, r.pending_signals, f.signal_handled, f.handlers)
             /\ \A x \in Slots : processes'[x].pending_signals =
                  IF x = s THEN Append(e.pending_signals, "SIGTERM")
                  ELSE processes[x].pending_signals
  <1> DEFINE s == ByPid(pid)
             t == signal_notify(processes, s, "SIGTERM")
  <1>1. processes \in Table /\ s \in Slots /\ "SIGTERM" \in Signals
    BY Facts DEF sys_kill_term, Signals
  <1>2. processes' = Returning(t, p)
    BY DEF sys_kill_term
  <1> HIDE DEF s
  <1>3. /\ Only(processes, t, s) /\ Hears(processes[s], t[s])
        /\ t[s].pending_signals = Append(processes[s].pending_signals, "SIGTERM")
    BY <1>1, NotifyTurns
  <1> HIDE DEF t
  <1>4. t \in Table
    BY <1>3 DEF Only
  <1>5. /\ Only(t, processes', p)
        /\ Becomes(t[p], processes'[p], t[p].pstate, FALSE, t[p].frame,
                   t[p].pending_signals, t[p].signal_handled, t[p].handlers)
    BY <1>2, <1>4, ReturningTurns
  <1>6. \A x \in Slots : processes[x] \in Process
    BY <1>1 DEF Table
  <1>7. \A x \in Slots \ {p, s} : processes'[x] = processes[x]
    BY <1>3, <1>5 DEF Only
  <1>8. ASSUME NEW x \in Slots
        PROVE  LET f == processes[x]
                   r == processes'[x]
               IN  /\ Becomes(f, r, f.pstate, IF x = p THEN FALSE ELSE f.kernel_mode,
                              f.frame, r.pending_signals, f.signal_handled, f.handlers)
                   /\ r.pending_signals =
                        IF x = s THEN Append(processes[s].pending_signals, "SIGTERM")
                        ELSE f.pending_signals
    BY <1>3, <1>5, <1>6 DEF Only, Hears, Becomes, Alike
  <1> QED
    BY <1>1, <1>5, <1>7, <1>8 DEF s, Only

\* A death: of entry r, which had been e.
Dies(e, r, kernel_mode) ==
  /\ r \in Process
  /\ r.pid = e.pid /\ r.parent = e.parent
  /\ r.children = e.children /\ r.children_count = e.children_count
  /\ r.max_children_count = e.max_children_count
  /\ r.stack = "freed" /\ r.pstate = "TERMINATED" /\ r.pending_signals = <<>>
  /\ r.kernel_mode = kernel_mode /\ r.frame = e.frame
  /\ r.signal_handled = e.signal_handled /\ r.handlers = e.handlers

\* The parent is told, the children are, and nobody else.
LEMMA KilledTurns ==
  ASSUME NEW t \in Table, NEW s \in Slots, t[s].parent \in Slots \ {s},
         NEW u, u = Killed(t, s)
  PROVE  LET q == t[s].parent
         IN  /\ u \in Table /\ Dies(t[s], u[s], t[s].kernel_mode)
             /\ \A x \in Slots \ {s} : Hears(t[x], u[x])
             /\ HungUp(t, s) = {} =>
                  /\ u[q].pending_signals = Append(t[q].pending_signals, "SIGCHLD")
                  /\ \A x \in Slots \ {q, s} : u[x] = t[x]
  <1> DEFINE q    == t[s].parent
             chld == signal_notify(t, q, "SIGCHLD")
             hung == [x \in Slots |-> signal_notify(chld, x, "SIGHUP")[x]]
             hup  == [x \in Slots |-> IF x \in HungUp(t, s) THEN hung[x] ELSE chld[x]]
  <1>1. q \in Slots /\ q # s /\ "SIGCHLD" \in Signals /\ "SIGHUP" \in Signals
        /\ \A x \in Slots : t[x] \in Process
    BY DEF Signals, Table
  <1>2. u = With(hup, s, Die(hup[s]))
    BY DEF Killed, With, Die
  <1> HIDE DEF q
  <1>3. /\ Only(t, chld, q) /\ Hears(t[q], chld[q])
        /\ chld[q].pending_signals = Append(t[q].pending_signals, "SIGCHLD")
    BY <1>1, NotifyTurns
  <1> HIDE DEF chld
  <1>4. chld \in Table /\ \A x \in Slots : chld[x] \in Process /\ Hears(t[x], chld[x])
    BY <1>1, <1>3 DEF Only, Hears, Becomes, Alike, Table
  <1>5. ASSUME NEW x \in Slots
        PROVE  hung[x] \in Process /\ Hears(chld[x], hung[x])
    <2> DEFINE v == signal_notify(chld, x, "SIGHUP")
    <2>1. Only(chld, v, x) /\ Hears(chld[x], v[x])
      BY <1>1, <1>4, NotifyTurns
    <2> HIDE DEF v
    <2> QED
      BY <2>1 DEF Only, v
  <1> HIDE DEF hung
  <1>6. ASSUME NEW x \in Slots
        PROVE  hup[x] \in Process /\ Hears(t[x], hup[x])
    BY <1>4, <1>5 DEF Hears, Becomes, Alike
  <1>7. HungUp(t, s) = {} => \A x \in Slots : hup[x] = chld[x]
    OBVIOUS
  <1>8. hup \in Table
    BY <1>6 DEF Table
  <1> HIDE DEF hup
  <1> DEFINE r == Die(hup[s])
  <1>9. hup[s] \in Process /\ Hears(t[s], hup[s])
    BY <1>6
  <1>10. Dies(hup[s], r, hup[s].kernel_mode)
    <2> DEFINE f == hup[s]
               none == <<>>
    <2>1. f \in Process /\ none \in SignalQueues
      BY <1>9 DEF SignalQueues
    <2>2. r = [f EXCEPT !.pstate = "TERMINATED", !.pending_signals = none,
                        !.stack = "freed"]
      BY DEF Die
    <2> HIDE DEF f, none, r
    <2>3. /\ r \in Process
          /\ r.pid = f.pid /\ r.parent = f.parent
          /\ r.children = f.children /\ r.children_count = f.children_count
          /\ r.max_children_count = f.max_children_count
          /\ r.stack = "freed" /\ r.pstate = "TERMINATED" /\ r.pending_signals = none
          /\ r.kernel_mode = f.kernel_mode /\ r.frame = f.frame
          /\ r.signal_handled = f.signal_handled /\ r.handlers = f.handlers
      BY <2>1, <2>2 DEF Process
    <2> QED
      BY <2>3 DEF f, none, Dies
  <1>11. r \in Process
    BY <1>10 DEF Dies
  <1> HIDE DEF r
  <1>12. Only(hup, u, s) /\ u[s] = r
    BY <1>2, <1>8, <1>11, OnlyWith DEF r
  <1>13. Dies(t[s], u[s], t[s].kernel_mode)
    BY <1>9, <1>10, <1>12 DEF Dies, Hears, Becomes, Alike
  <1>14. \A x \in Slots \ {s} : Hears(t[x], u[x])
    BY <1>6, <1>12 DEF Only
  <1>15. ASSUME HungUp(t, s) = {}
         PROVE  /\ u[q].pending_signals = Append(t[q].pending_signals, "SIGCHLD")
                /\ \A x \in Slots \ {q, s} : u[x] = t[x]
    BY <1>1, <1>3, <1>7, <1>12, <1>15 DEF Only
  <1> QED
    BY <1>12, <1>13, <1>14, <1>15 DEF Only, q

\* exit, and a stack overflow.
LEMMA ExitTurns ==
  ASSUME IInv, NEW p \in Slots, sys_exit(p) \/ isr_usagefault(p),
         KillDamage(processes, p) = "none"
  PROVE  LET q == processes[p].parent
         IN  /\ processes' \in Table /\ q \in Slots \ {p}
             /\ Dies(processes[p], processes'[p], processes'[p].kernel_mode)
             /\ \A x \in Slots \ {p} : Hears(processes[x], processes'[x])
             /\ HungUp(processes, p) = {} =>
                  /\ processes'[q].pending_signals =
                       Append(processes[q].pending_signals, "SIGCHLD")
                  /\ \A x \in Slots \ {q, p} : processes'[x] = processes[x]
             /\ mode' = "switch"
             /\ UNCHANGED <<current_process, next_pid, damage, tty>>
  <1> DEFINE t == Killed(processes, p)
             q == processes[p].parent
  <1>1. PICK flag \in BOOLEAN : Exit(p, flag)
    BY Facts DEF sys_exit, isr_usagefault, Table, Process
  <1>2. processes \in Table /\ q \in Slots \ {p}
    BY Facts, KillableLives DEF Family
  <1>3. /\ processes' = [t EXCEPT ![p].kernel_mode = flag] /\ mode' = "switch"
        /\ UNCHANGED <<current_process, next_pid, damage, tty>>
    BY <1>1 DEF Exit
  <1>4. /\ t \in Table /\ Dies(processes[p], t[p], processes[p].kernel_mode)
        /\ \A x \in Slots \ {p} : Hears(processes[x], t[x])
        /\ HungUp(processes, p) = {} =>
             /\ t[q].pending_signals = Append(processes[q].pending_signals, "SIGCHLD")
             /\ \A x \in Slots \ {q, p} : t[x] = processes[x]
    BY <1>2, KilledTurns
  <1> HIDE DEF t, q
  <1> DEFINE r == Flag(t[p], flag)
  <1>5. t[p] \in Process /\ processes' = With(t, p, r)
    BY <1>3, <1>4 DEF Table, With, Flag
  <1>6. r \in Process /\ Dies(processes[p], r, r.kernel_mode)
    BY <1>4, <1>5 DEF Process, Flag, Dies
  <1> HIDE DEF r
  <1>7. Only(t, processes', p) /\ processes'[p] = r
    BY <1>4, <1>5, <1>6, OnlyWith
  <1> QED
    BY <1>2, <1>3, <1>4, <1>6, <1>7 DEF Only, q

\* SysTick.
LEMMA TickTurns ==
  ASSUME IInv, tick
  PROVE  LET p == current_process
             e == processes[p]
         IN  /\ mode = "user" /\ mode' = "switch"
             /\ UNCHANGED <<current_process, next_pid, damage, tty>>
             /\ \/ processes' = processes /\ (p \in Slots => e.kernel_mode)
                \/ /\ p \in Slots /\ Only(processes, processes', p)
                   /\ Becomes(e, processes'[p], "READY", e.kernel_mode, e.frame,
                              e.pending_signals, e.signal_handled, e.handlers)
  <1> DEFINE p == current_process
  <1>1. processes \in Table
    BY Facts
  <1>2. CASE p \in Slots /\ ~processes[p].kernel_mode
    <2>1. processes' = With(processes, p, State(processes[p], "READY"))
      BY <1>2 DEF tick, With, State
    <2> QED
      BY <1>1, <1>2, <2>1, StateTurns DEF tick
  <1>3. CASE ~(p \in Slots /\ ~processes[p].kernel_mode)
    BY <1>3 DEF tick
  <1> QED
    BY <1>2, <1>3

\* The key that ends a line.
LEMMA InterruptTurns ==
  ASSUME IInv, write_to_keyboard_buffer
  PROVE  /\ mode = "user" /\ newline_present' = TRUE
         /\ UNCHANGED <<current_process, next_pid, mode, damage, read_wait>>
         /\ \/ processes' = processes
            \/ LET h == Head(read_wait)
                   e == processes[h]
               IN  /\ read_wait # <<>> /\ h \in Slots
                   /\ Only(processes, processes', h)
                   /\ Becomes(e, processes'[h], "READY", e.kernel_mode, e.frame,
                              e.pending_signals, e.signal_handled, e.handlers)
  <1> DEFINE h == Head(read_wait)
             woken == read_wait # <<>> /\ processes[h].stack # "null"
  <1>1. processes \in Table /\ read_wait \in Seq(Slots)
    BY Facts DEF ScalarsOK
  <1>2. CASE woken
    <2>1. h \in Slots
      BY <1>1, <1>2
    <2>2. processes' = With(processes, h, State(processes[h], "READY"))
      BY <1>1, <1>2, <2>1 DEF write_to_keyboard_buffer, With, State, Table
    <2> HIDE DEF h
    <2>3. /\ Only(processes, processes', h)
          /\ LET e == processes[h]
             IN  Becomes(e, processes'[h], "READY", e.kernel_mode, e.frame,
                         e.pending_signals, e.signal_handled, e.handlers)
      BY <1>1, <2>1, <2>2, StateTurns
    <2> QED
      BY <1>2, <2>1, <2>3 DEF write_to_keyboard_buffer, h
  <1>3. CASE ~woken
    <2>1. processes' = processes
      BY <1>1, <1>3 DEF write_to_keyboard_buffer, Table
    <2> QED
      BY <2>1 DEF write_to_keyboard_buffer
  <1> QED
    BY <1>2, <1>3

\* The end of a read, in table t: the head of the queue is ready, and p returns.
LEMMA LineReadTurns ==
  ASSUME NEW t \in Table, NEW p \in Slots, NEW queue \in Seq(Slots), queue # <<>>,
         t[Head(queue)].stack # "null", LineRead(t, p, queue)
  PROVE  LET h == Head(queue)
         IN  /\ h \in Slots /\ processes' \in Table
             /\ \A x \in Slots \ {p, h} : processes'[x] = t[x]
             /\ \A x \in Slots :
                  LET e == t[x]
                  IN  Becomes(e, processes'[x],
                              IF x = h THEN "READY" ELSE e.pstate,
                              IF x = p THEN FALSE ELSE e.kernel_mode,
                              IF x = p THEN "none" ELSE e.frame,
                              e.pending_signals, e.signal_handled, e.handlers)
             /\ mode' = "user" /\ read_wait' = Tail(queue) /\ newline_present' = FALSE
             /\ UNCHANGED <<current_process, next_pid, damage>>
  <1> DEFINE h == Head(queue)
             e == t[p]
             r == Unframed(e)
             v == With(t, p, r)
             w == With(v, h, State(v[h], "READY"))
  <1>1. h \in Slots /\ \A x \in Slots : t[x] \in Process
    BY DEF Table
  <1>2. /\ processes' = Returning([t EXCEPT ![p].frame = "none", ![h].pstate = "READY"], p)
        /\ mode' = "user" /\ read_wait' = Tail(queue) /\ newline_present' = FALSE
        /\ UNCHANGED <<current_process, next_pid, damage>>
    BY DEF LineRead
  <1> HIDE DEF h
  <1>3. processes' = Returning(w, p)
    BY <1>2 DEF With, State, Unframed
  <1>4. r \in Process
        /\ Becomes(e, r, e.pstate, e.kernel_mode, "none", e.pending_signals,
                   e.signal_handled, e.handlers)
    BY <1>1 DEF Process, Becomes, Alike, Unframed
  <1> HIDE DEF r
  <1>5. Only(t, v, p) /\ v[p] = r
    BY <1>4, OnlyWith
  <1> HIDE DEF v
  <1>6. v \in Table
    BY <1>5 DEF Only
  <1>7. /\ Only(v, w, h)
        /\ LET f == v[h]
           IN  Becomes(f, w[h], "READY", f.kernel_mode, f.frame,
                       f.pending_signals, f.signal_handled, f.handlers)
    BY <1>1, <1>6, StateTurns
  <1> HIDE DEF w
  <1>8. w \in Table
    BY <1>7 DEF Only
  <1>9. /\ Only(w, processes', p)
        /\ LET f == w[p]
           IN  Becomes(f, processes'[p], f.pstate, FALSE, f.frame,
                       f.pending_signals, f.signal_handled, f.handlers)
    BY <1>3, <1>8, ReturningTurns
  <1>10. \A x \in Slots \ {p, h} : processes'[x] = t[x]
    BY <1>5, <1>7, <1>9 DEF Only
  <1>11. ASSUME NEW x \in Slots
         PROVE  LET f == t[x]
                IN  Becomes(f, processes'[x],
                            IF x = h THEN "READY" ELSE f.pstate,
                            IF x = p THEN FALSE ELSE f.kernel_mode,
                            IF x = p THEN "none" ELSE f.frame,
                            f.pending_signals, f.signal_handled, f.handlers)
    <2>1. Becomes(t[x], v[x], t[x].pstate, t[x].kernel_mode,
                  IF x = p THEN "none" ELSE t[x].frame,
                  t[x].pending_signals, t[x].signal_handled, t[x].handlers)
      BY <1>1, <1>4, <1>5 DEF Only, Becomes, Alike
    <2>2. Becomes(v[x], w[x], IF x = h THEN "READY" ELSE v[x].pstate,
                  v[x].kernel_mode, v[x].frame,
                  v[x].pending_signals, v[x].signal_handled, v[x].handlers)
      BY <1>6, <1>7 DEF Only, Becomes, Alike, Table
    <2>3. Becomes(w[x], processes'[x], w[x].pstate,
                  IF x = p THEN FALSE ELSE w[x].kernel_mode, w[x].frame,
                  w[x].pending_signals, w[x].signal_handled, w[x].handlers)
      BY <1>8, <1>9 DEF Only, Becomes, Alike, Table
    <2> QED
      BY <2>1, <2>2, <2>3 DEF Becomes, Alike
  <1> QED
    BY <1>1, <1>2, <1>9, <1>10, <1>11 DEF h, Only

\* What the switch makes of the entry e it chooses, in which mode, if it does not
\* kill its process.
Resumes(e, r, m) ==
  LET rest == Rest(e.pending_signals)
      next == Head(e.pending_signals)
  IN  \/ /\ e.signal_handled /\ m = "user"
         /\ Becomes(e, r, "RUNNING", e.kernel_mode, e.frame, e.pending_signals,
                    e.signal_handled, e.handlers)
      \/ /\ ~e.signal_handled /\ ~e.kernel_mode /\ m = "user"
         /\ Becomes(e, r, "RUNNING", e.kernel_mode, e.frame, rest,
                    e.signal_handled, e.handlers)
      \/ /\ ~e.signal_handled /\ e.kernel_mode /\ m = "kernel"
         /\ e.pending_signals = <<>> \/ next # "SIGCHLD"
              \/ e.pstate # "WAITING_FOR_CHILD_EXIT"
         /\ Becomes(e, r, e.pstate, e.kernel_mode, e.frame, rest,
                    e.signal_handled, e.handlers)
      \/ /\ ~e.signal_handled /\ m = "kernel" /\ e.pending_signals # <<>>
         /\ next = "SIGCHLD" /\ e.pstate = "WAITING_FOR_CHILD_EXIT"
         /\ Becomes(e, r, "READY", e.kernel_mode, e.frame, rest,
                    e.signal_handled, e.handlers)
      \/ /\ ~e.signal_handled /\ m = "user" /\ e.pending_signals # <<>>
         /\ next \in e.handlers
         /\ Becomes(e, r, "RUNNING", e.kernel_mode, e.frame, rest, TRUE, e.handlers)

\* The first signal is taken off its queue.
LEMMA PoppedTurns ==
  ASSUME NEW t \in Table, NEW s \in Slots, NEW u, u = With(t, s, Popped(t[s]))
  PROVE  /\ Only(t, u, s) /\ Hears(t[s], u[s])
         /\ u[s].pending_signals = Rest(t[s].pending_signals)
  <1> DEFINE e == t[s]
             q == Rest(e.pending_signals)
             r == Queued(e, q)
  <1>1. e \in Process /\ u = With(t, s, r)
    BY DEF Table, Popped
  <1>2. q \in SignalQueues
    BY <1>1, RestOfSignals DEF Process
  <1> HIDE DEF q
  <1>3. r \in Process /\ r.pending_signals = q /\ Hears(e, r)
    BY <1>1, <1>2 DEF Process, Hears, Becomes, Alike, Queued
  <1> HIDE DEF r
  <1> QED
    BY <1>1, <1>3, OnlyWith DEF q

\* The switch: the process that is chosen goes on, or dies of a signal.
LEMMA ResumeTurns ==
  ASSUME IInv, NEW s \in Slots, ResumeDamage(s) = "none", Resume(s)
  PROVE  LET e == processes[s]
             q == e.parent
         IN  \/ Only(processes, processes', s) /\ Resumes(e, processes'[s], mode')
             \/ /\ ~e.signal_handled /\ e.pending_signals # <<>>
                /\ Terminates(s, Head(e.pending_signals))
                /\ KillDamage(processes, s) = "none" /\ mode' = "switch"
                /\ processes' \in Table /\ q \in Slots \ {s}
                /\ Dies(e, processes'[s], e.kernel_mode)
                /\ \A x \in Slots \ {s} : Hears(processes[x], processes'[x])
                /\ HungUp(processes, s) = {} =>
                     /\ processes'[q].pending_signals =
                          Append(processes[q].pending_signals, "SIGCHLD")
                     /\ \A x \in Slots \ {q, s} : processes'[x] = processes[x]
  <1> DEFINE e   == processes[s]
             sig == Head(e.pending_signals)
             t   == With(processes, s, Popped(e))
  <1>1. processes \in Table /\ e \in Process
    BY Facts DEF Table
  <1>2. t = [processes EXCEPT ![s].pending_signals = IF @ = <<>> THEN <<>> ELSE Tail(@)]
    BY DEF With, Popped, Queued, Rest
  <1>3. /\ Only(processes, t, s) /\ Hears(e, t[s])
        /\ t[s].pending_signals = Rest(e.pending_signals)
    BY <1>1, PoppedTurns
  <1>4. t \in Table
    BY <1>3 DEF Only
  <1> DEFINE Recall == IF e.kernel_mode THEN ToKernel(t, s) ELSE ToUser(t, s)
             Going  == Only(processes, processes', s) /\ Resumes(e, processes'[s], mode')
  <1>5. ASSUME NEW v, Only(processes, v, s), NEW st \in {"RUNNING", "READY"},
               processes' = [v EXCEPT ![s].pstate = st]
        PROVE  /\ Only(processes, processes', s)
               /\ LET f == v[s]
                  IN  Becomes(f, processes'[s], st, f.kernel_mode, f.frame,
                              f.pending_signals, f.signal_handled, f.handlers)
    <2>1. v \in Table /\ processes' = With(v, s, State(v[s], st))
      BY <1>5 DEF Only, With, State
    <2>2. /\ Only(v, processes', s)
          /\ LET f == v[s]
             IN  Becomes(f, processes'[s], st, f.kernel_mode, f.frame,
                         f.pending_signals, f.signal_handled, f.handlers)
      BY <1>5, <2>1, StateTurns
    <2> QED
      BY <1>5, <2>2 DEF Only
  <1> HIDE DEF t
  <1>6. CASE e.signal_handled /\ ToUser(processes, s)
    <2>1. Only(processes, processes, s)
      BY <1>1 DEF Only
    <2> QED
      BY <1>5, <1>6, <2>1 DEF ToUser, Resumes
  <1>7. ASSUME ~e.signal_handled, Recall,
               e.pending_signals = <<>> \/ sig # "SIGCHLD"
                 \/ e.pstate # "WAITING_FOR_CHILD_EXIT"
        PROVE  Going
    <2>1. CASE e.kernel_mode
      BY <1>3, <1>7, <2>1 DEF ToKernel, Resumes, Hears, Becomes, Alike
    <2>2. CASE ~e.kernel_mode
      <3>1. /\ Only(processes, processes', s) /\ mode' = "user"
            /\ LET f == t[s]
               IN  Becomes(f, processes'[s], "RUNNING", f.kernel_mode, f.frame,
                           f.pending_signals, f.signal_handled, f.handlers)
        BY <1>3, <1>5, <1>7, <2>2 DEF ToUser
      <3> QED
        BY <1>3, <1>7, <2>2, <3>1 DEF Resumes, Hears, Becomes, Alike
    <2> QED
      BY <2>1, <2>2
  <1>8. CASE /\ ~e.signal_handled /\ e.pending_signals # <<>>
             /\ sig = "SIGCHLD" /\ e.pstate = "WAITING_FOR_CHILD_EXIT"
             /\ ToKernel([t EXCEPT ![s].pstate = "READY"], s)
    <2>1. /\ Only(processes, processes', s) /\ mode' = "kernel"
          /\ LET f == t[s]
             IN  Becomes(f, processes'[s], "READY", f.kernel_mode, f.frame,
                         f.pending_signals, f.signal_handled, f.handlers)
      BY <1>3, <1>5, <1>8 DEF ToKernel
    <2> QED
      BY <1>3, <1>8, <2>1 DEF Resumes, Hears, Becomes, Alike
  <1>9. CASE /\ ~e.signal_handled /\ e.pending_signals # <<>> /\ sig \in e.handlers
             /\ ToUser([t EXCEPT ![s].signal_handled = TRUE], s)
    <2> DEFINE f == t[s]
               g == Handle(f)
               v == [t EXCEPT ![s].signal_handled = TRUE]
    <2>1. f \in Process /\ v = With(t, s, g)
      BY <1>4 DEF Table, With, Handle
    <2>2. g \in Process
          /\ Becomes(f, g, f.pstate, f.kernel_mode, f.frame, f.pending_signals, TRUE,
                     f.handlers)
      BY <2>1 DEF Process, Becomes, Alike, Handle
    <2> HIDE DEF g, v
    <2>3. Only(t, v, s) /\ v[s] = g
      BY <1>4, <2>1, <2>2, OnlyWith
    <2>4. Only(processes, v, s)
      BY <1>3, <2>3 DEF Only
    <2>5. /\ Only(processes, processes', s) /\ mode' = "user"
          /\ Becomes(v[s], processes'[s], "RUNNING", v[s].kernel_mode, v[s].frame,
                     v[s].pending_signals, v[s].signal_handled, v[s].handlers)
      BY <1>5, <1>9, <2>4 DEF ToUser, v
    <2> QED
      BY <1>3, <1>9, <2>2, <2>3, <2>5 DEF Resumes, Hears, Becomes, Alike
  <1>10. CASE /\ ~e.signal_handled /\ e.pending_signals # <<>> /\ Terminates(s, sig)
              /\ processes' = Killed(t, s) /\ mode' = "switch"
    <2> DEFINE q == e.parent
    <2>1. KillDamage(processes, s) = "none"
      BY <1>10 DEF ResumeDamage
    <2>2. q \in Slots \ {s}
      BY <2>1, Facts, KillableLives DEF Family
    <2>3. t[s].parent = q /\ HungUp(t, s) = HungUp(processes, s)
      BY <1>3 DEF Hears, Becomes, Alike, HungUp
    <2>4. LET x == t[s].parent
          IN  /\ processes' \in Table /\ Dies(t[s], processes'[s], t[s].kernel_mode)
              /\ \A y \in Slots \ {s} : Hears(t[y], processes'[y])
              /\ HungUp(t, s) = {} =>
                   /\ processes'[x].pending_signals = Append(t[x].pending_signals, "SIGCHLD")
                   /\ \A y \in Slots \ {x, s} : processes'[y] = t[y]
      <3>1. t[s].parent \in Slots \ {s} /\ processes' = Killed(t, s)
        BY <1>10, <2>2, <2>3
      <3> QED
        BY <1>4, <3>1, KilledTurns
    <2> HIDE DEF q
    <2>5. Dies(e, processes'[s], e.kernel_mode)
      BY <1>3, <2>4 DEF Dies, Hears, Becomes, Alike
    <2>6. \A x \in Slots \ {s} : t[x] = processes[x]
      BY <1>3 DEF Only
    <2> QED
      BY <1>10, <2>1, <2>2, <2>3, <2>4, <2>5, <2>6 DEF q
  <1>11. e.pending_signals # <<>> => sig \in Signals
    BY <1>1 DEF Process, SignalQueues
  <1> QED
    BY <1>2, <1>6, <1>7, <1>8, <1>9, <1>10, <1>11 DEF Resume, t

\* Entry r is e after a spawn or a wait: its children and its state may differ.
Resembles(e, r) ==
  /\ r \in Process
  /\ r.pid = e.pid /\ r.parent = e.parent /\ r.stack = e.stack
  /\ r.max_children_count = e.max_children_count
  /\ r.pending_signals = e.pending_signals /\ r.kernel_mode = FALSE
  /\ r.signal_handled = e.signal_handled /\ r.handlers = e.handlers

\* The children of p in table t, but for c, are its children in u.
Cared(t, u, p, c) ==
  \A i \in Taken(t, p) :
    t[p].children[i] # c => i \in Taken(u, p) /\ u[p].children[i] = t[p].children[i]

\* Entry r holds a process that p has just spawned.
NewBorn(r, p) ==
  /\ r \in Process /\ r.pid = next_pid /\ r.parent = p /\ r.stack = "page"
  /\ r.pstate = "READY" /\ r.frame = "none" /\ r.children_count = 0
  /\ r.kernel_mode = FALSE /\ r.signal_handled = FALSE
  /\ r.handlers = {} /\ r.pending_signals = <<>>

\* Entry c is the new child of p.
Arrived(p, c) ==
  /\ c = FirstEmpty /\ processes[c] = Blank
  /\ processes' \in Table /\ NewBorn(processes'[c], p)
  /\ \A x \in Slots \ {c, p} : processes'[x] = processes[x]
  /\ Resembles(processes[p], processes'[p])
  /\ processes'[p].pstate = processes[p].pstate
  /\ processes'[p].frame = processes[p].frame
  /\ Cared(processes, processes', p, Null)
  /\ Taken(processes, p) # Indices(processes, p) =>
       \E i \in Taken(processes', p) : processes'[p].children[i] = c
  /\ next_pid \in 1 .. MaxPid /\ next_pid' = next_pid + 1
  /\ UNCHANGED <<current_process, mode, damage, tty>>

\* spawn.
LEMMA SpawnTurns ==
  ASSUME IInv, NEW p \in Slots, spawn(p)
  PROVE  \E c \in Slots \ {p} : Arrived(p, c)
  <1> DEFINE t == processes
             u == processes'
  <1>1. t \in Table /\ Family(t) /\ next_pid \in 1 .. MaxPid /\ Null \notin Slots
        /\ t[p].max_children_count > 0
    BY Facts, Constants DEF spawn, ScalarsOK
  <1>2. PICK c \in Slots \ {p} :
           /\ t[c] = Blank /\ u \in Table /\ Spawned(t, u, p, c, next_pid)
           /\ u[c].stack = "page" /\ u[p].kernel_mode = FALSE
           /\ c = FirstEmpty /\ u[c] = NewChild(p)
           /\ u[p].signal_handled = t[p].signal_handled
           /\ u[p].handlers = t[p].handlers
           /\ Taken(t, p) # Indices(t, p) =>
                \E i \in Indices(t, p) : u[p].children[i] = c
    BY SpawnEntries
  <1>3. NewBorn(u[c], p)
    BY <1>1, <1>2, NewChildEntry DEF NewBorn
  <1> HIDE DEF u
  <1>4. /\ \A x \in Slots \ {c, p} : u[x] = t[x]
        /\ Resembles(t[p], u[p])
        /\ u[p].pstate = t[p].pstate /\ u[p].frame = t[p].frame
        /\ Indices(u, p) = Indices(t, p)
    BY <1>2 DEF Spawned, Resembles, Table, Indices
  <1>5. Cared(t, u, p, Null)
    <2> SUFFICES ASSUME NEW i \in Taken(t, p)
                 PROVE  i \in Taken(u, p) /\ u[p].children[i] = t[p].children[i]
      BY DEF Cared
    <2>1. i \in DOMAIN t[p].children /\ i \in Indices(t, p) /\ t[p].children[i] # Null
      BY <1>1 DEF Taken, Family
    <2>2. u[p].children[i] = t[p].children[i]
      BY <1>2, <2>1 DEF Spawned
    <2> QED
      BY <1>4, <2>1, <2>2 DEF Taken
  <1>6. Taken(t, p) # Indices(t, p) => \E i \in Taken(u, p) : u[p].children[i] = c
    BY <1>1, <1>2, <1>4 DEF Taken
  <1> QED
    BY <1>1, <1>2, <1>3, <1>4, <1>5, <1>6 DEF Arrived, spawn, u

\* The dead child c of p is gone, and p goes on.
Buried(p, c) ==
  /\ processes[c].pid # 0 /\ processes[c].parent = p
  /\ processes[c].pstate = "TERMINATED"
  /\ processes' \in Table /\ processes'[c] = Blank
  /\ \A x \in Slots \ {c, p} : processes'[x] = processes[x]
  /\ Resembles(processes[p], processes'[p])
  /\ processes'[p].pstate = "RUNNING" /\ processes'[p].frame = "none"
  /\ Cared(processes, processes', p, c)
  /\ mode' = "user" /\ UNCHANGED <<current_process, next_pid, damage, tty>>

\* A wait that ends.
LEMMA ReapTurns ==
  ASSUME IInv, NEW p \in Slots, Reap(p), Zombies(p) # {}
  PROVE  \E c \in Slots \ {p} : Buried(p, c)
  <1> DEFINE t == processes
             u == processes'
             e == t[p]
  <1>1. t \in Table /\ Family(t) /\ e \in Process
    BY Facts DEF Table
  <1>2. PICK i \in Taken(t, p) :
          LET c == e.children[i]
          IN  /\ c \in Slots \ {p} /\ t[c].pid # 0
              /\ t[c].parent = p /\ t[c].pstate = "TERMINATED"
              /\ i \in DOMAIN e.children /\ e.children_count # 0
              /\ Bereft(e, i) \in Process
              /\ u \in Table /\ u[c] = Blank /\ u[p] = Bereft(e, i)
              /\ \A s \in Slots \ {c, p} : u[s] = t[s]
    BY ReapEntries
  <1> DEFINE c == e.children[i]
             r == Bereft(e, i)
  <1>3. /\ r.pid = e.pid /\ r.parent = e.parent /\ r.stack = e.stack
        /\ r.max_children_count = e.max_children_count
        /\ r.pstate = "RUNNING" /\ r.frame = "none" /\ r.kernel_mode = FALSE
        /\ r.pending_signals = e.pending_signals
        /\ r.signal_handled = e.signal_handled /\ r.handlers = e.handlers
        /\ \A j \in DOMAIN e.children \ {i} : r.children[j] = e.children[j]
    BY <1>1, <1>2, BereftEntry
  <1>4. mode' = "user" /\ UNCHANGED <<current_process, next_pid, damage, tty>>
    BY DEF Reap, Reapable
  <1> HIDE DEF r, u
  <1>5. u[p] = r /\ r \in Process
    BY <1>2 DEF r
  <1>6. Cared(t, u, p, c)
    <2> SUFFICES ASSUME NEW j \in Taken(t, p), t[p].children[j] # c
                 PROVE  j \in Taken(u, p) /\ u[p].children[j] = t[p].children[j]
      BY DEF Cared
    <2>1. j \in DOMAIN t[p].children /\ j \in Indices(t, p) /\ t[p].children[j] # Null
          /\ j # i
      BY <1>1 DEF Taken, Family
    <2>2. u[p].children[j] = t[p].children[j]
      BY <1>3, <1>5, <2>1
    <2>3. Indices(u, p) = Indices(t, p)
      BY <1>3, <1>5 DEF Indices
    <2> QED
      BY <2>1, <2>2, <2>3 DEF Taken
  <1> QED
    BY <1>2, <1>3, <1>4, <1>5, <1>6 DEF Buried, Resembles, u

-----------------------------------------------------------------------------
(* Which program is where                                                  *)

InitAt  == {"spawn LED", "spawn shell", "await shell"}
LedAt   == {"signal", "blink"}
ShellAt == {"read", "line", "await command"}
Places  == InitAt \cup LedAt \cup ShellAt \cup {"run", "none"}

\* What a program at place a can have done with its entry e: only the LED process
\* has handlers, and a blocked call is the one that the program made.
Plays(e, a) ==
  /\ e.frame \in {"none", "wait", "read"}
  /\ e.frame = "wait" => a \in {"await shell", "await command"}
  /\ e.frame = "read" => a = "read"
  /\ e.frame # "none" => e.kernel_mode
  /\ a # "blink" => e.handlers = {} /\ ~e.signal_handled

\* The first slot is init's, and while a shell lives init waits for its pid.
Roles ==
  /\ at \in [Slots -> Places] /\ shell_pid \in 0 .. MaxPid /\ victims \in Sessions
  /\ \A s \in Slots : Plays(processes[s], at[s])
  /\ \A s \in Slots : at[s] \in InitAt <=> s = 0
  /\ \A s \in Slots :
       at[s] \in ShellAt /\ processes[s].stack = "page"
         => processes[s].pid = shell_pid /\ at[0] = "await shell"

RInv == LifeInv /\ Roles

\* The programs make only calls that module Scheduler lets any process make.
LEMMA Within ==
  ASSUME RInv, UNext
  PROVE  [Next]_vars
  <1>1. IInv /\ shell_pid \in 0 .. MaxPid /\ victims \in Sessions
    BY DEF RInv, LifeInv, Roles
  <1>2. CASE KernelRuns
    BY <1>2 DEF KernelRuns, Kernel, Returns, Next, Resumed
  <1>3. ASSUME NEW p \in Slots, Undamaged, UserStep(p)
        PROVE  Next
    BY <1>3 DEF Next, Program
  <1>4. CASE InitRuns
    BY <1>3, <1>4 DEF InitRuns, PATER_ADAMVS, Spawns, UserStep
  <1>5. CASE ShellRuns
    <2>1. PICK p \in Slots : shell(p)
      BY <1>5 DEF ShellRuns
    <2>2. CASE perform_kill(p)
      <3>1. PICK v \in victims : sys_kill_term(p, Victim(v))
        BY <2>2 DEF perform_kill
      <3>2. Victim(v) \in Killable
        <4>1. CASE v = "LED"
          <5>1. ByPid(LED_pid) # Null
            BY <3>1, <4>1 DEF sys_kill_term, Victim
          <5>2. PICK s \in Slots : processes[s].pid = LED_pid
            BY <5>1 DEF ByPid, WithPid
          <5>3. processes[s].pid \in 0 .. MaxPid
            BY <1>1, Facts, Entry
          <5> QED
            BY <4>1, <5>2, <5>3, UserlandAssumption DEF Victim
        <4>2. CASE v # "LED"
          BY <1>1, <4>2, UserlandAssumption DEF Victim
        <4> QED
          BY <4>1, <4>2
      <3> QED
        BY <1>3, <1>5, <3>1, <3>2 DEF ShellRuns, UserStep
    <2>3. CASE ~perform_kill(p)
      BY <1>3, <1>5, <2>1, <2>3 DEF ShellRuns, shell, builtin, run_program, Spawns,
                                     UserStep
    <2> QED
      BY <2>2, <2>3
  <1>6. CASE OthersRun
    BY <1>3, <1>6, UserlandAssumption DEF OthersRun, proc1, command, UserStep
  <1> QED
    BY <1>2, <1>4, <1>5, <1>6 DEF UNext

\* What the numbers say: a pid names one entry, and init's is in the first slot.
LEMMA Names ==
  ASSUME RInv
  PROVE  /\ processes \in Table /\ \A s \in Slots : processes[s] \in Process
         /\ \A r, s \in Slots :
              processes[r].pid = processes[s].pid /\ processes[r].pid # 0 => r = s
         /\ processes[0].pid = PID_INIT /\ processes[0].parent = Null
         /\ \A s \in Slots : processes[s].pid = 0 <=> processes[s].stack = "null"
         /\ 0 \in Slots /\ Null \notin Slots /\ Idle \notin Slots
         /\ at \in [Slots -> Places]
  BY Facts, Constants DEF RInv, LifeInv, IInv, Numbered, Table, Vacant, Roles

\* No call is blocked of a program that runs.
LEMMA Unblocked ==
  ASSUME RInv, NEW p \in Slots, InUserMode(p)
  PROVE  processes[p].frame = "none"
  <1>1. Plays(processes[p], at[p]) /\ processes[p].kernel_mode => processes[p].signal_handled
    BY DEF RInv, LifeInv, OffCpu, Roles, InUserMode
  <1> QED
    BY <1>1 DEF Plays, RInv, Roles

\* A step after which nobody has come who was not there before.
LEMMA RolesKept ==
  ASSUME RInv, at' \in [Slots -> Places], shell_pid' = shell_pid, victims' = victims,
         \A s \in Slots :
           /\ Plays(processes'[s], at'[s])
           /\ at'[s] \in InitAt <=> at[s] \in InitAt
           /\ at'[s] \in ShellAt /\ processes'[s].stack = "page" =>
                /\ at[s] \in ShellAt /\ processes[s].stack = "page"
                /\ processes'[s].pid = processes[s].pid,
         \/ at[0] = "await shell" => at'[0] = "await shell"
         \/ \A s \in Slots : at'[s] \in ShellAt => processes'[s].stack # "page"
  PROVE  Roles'
  BY DEF RInv, Roles

\* A step of the kernel, or of a program that only changes its own place.
LEMMA RolesStay ==
  ASSUME RInv, shell_pid' = shell_pid, victims' = victims,
         \A s \in Slots :
           /\ Plays(processes'[s], at'[s])
           /\ processes'[s].pid = processes[s].pid
           /\ processes'[s].stack \in {processes[s].stack, "freed"},
         \/ at' = at
         \/ \E p \in Slots, a \in Places :
              /\ at' = [at EXCEPT ![p] = a]
              /\ \/ at[p] \in LedAt /\ a \in LedAt
                 \/ at[p] \in ShellAt /\ a \in ShellAt
  PROVE  Roles'
  <1>1. at \in [Slots -> Places]
    BY DEF RInv, Roles
  <1>2. /\ at' \in [Slots -> Places]
        /\ \A s \in Slots : /\ at'[s] \in InitAt <=> at[s] \in InitAt
                            /\ at'[s] \in ShellAt => at[s] \in ShellAt
                            /\ at[s] = "await shell" => at'[s] = "await shell"
    BY <1>1 DEF InitAt, LedAt, ShellAt
  <1> QED
    BY <1>2, Names, RolesKept

\* Where no entry changes, and no program gets on.
LEMMA RolesSame ==
  ASSUME RInv, processes' = processes, at' = at, shell_pid' = shell_pid,
         victims' = victims
  PROVE  Roles'
  BY RolesStay DEF RInv, Roles

\* What the kernel does.
LEMMA RolesKernel ==
  ASSUME RInv, KernelRuns, Kernel
  PROVE  Roles'
  <1>1. UNCHANGED <<at, shell_pid, victims>> /\ IInv
        /\ \A s \in Slots : Plays(processes[s], at[s])
    BY DEF KernelRuns, Kernel, RInv, LifeInv, Roles
  <1>2. ASSUME NEW p \in Slots, Only(processes, processes', p),
               Alike(processes[p], processes'[p]), Plays(processes'[p], at[p])
        PROVE  Roles'
    BY <1>1, <1>2, RolesStay DEF Only, Alike
  <1>3. ASSUME NEW p \in Slots, Only(processes, processes', p), NEW st,
               LET e == processes[p]
               IN  Becomes(e, processes'[p], st, e.kernel_mode, e.frame,
                           e.pending_signals, e.signal_handled, e.handlers)
        PROVE  Roles'
    <2>1. Plays(processes'[p], at[p])
      BY <1>1, <1>3 DEF Becomes, Plays
    <2> QED
      BY <1>2, <1>3, <2>1 DEF Becomes
  <1>4. CASE processes' = processes
    BY <1>1, <1>4, RolesSame
  <1>5. CASE Tick
    BY <1>1, <1>3, <1>4, <1>5, TickTurns DEF Tick
  <1>6. CASE Interrupt
    BY <1>1, <1>3, <1>4, <1>6, InterruptTurns DEF Interrupt
  <1>7. CASE ContextSwitch
    <2> DEFINE s == scheduler_get_next_process
    <2>1. s \in Slots \cup {Idle}
      BY <1>1, Facts, NextSlot
    <2> HIDE DEF s
    <2>2. CASE s = Idle \/ ResumeDamage(s) # "none"
      BY <1>4, <1>7, <2>2 DEF ContextSwitch, context_switch, Broken, s
    <2>3. CASE s \in Slots /\ ResumeDamage(s) = "none"
      <3>1. Resume(s)
        BY <1>7, <2>3, Constants DEF ContextSwitch, context_switch, s
      <3> DEFINE e == processes[s]
                 r == processes'[s]
      <3>2. CASE Only(processes, processes', s) /\ Resumes(e, r, mode')
        <4>1. Plays(e, at[s])
          BY <1>1, <2>3
        <4>2. Alike(e, r) /\ r.frame = e.frame /\ r.kernel_mode = e.kernel_mode
              /\ r.handlers = e.handlers
              /\ (r.signal_handled = e.signal_handled \/ e.handlers # {})
          BY <3>2 DEF Resumes, Becomes
        <4>3. Plays(r, at[s])
          BY <4>1, <4>2 DEF Plays
        <4> QED
          BY <1>2, <2>3, <3>2, <4>2, <4>3
      <3>3. CASE Dies(e, r, e.kernel_mode)
                 /\ \A x \in Slots \ {s} : Hears(processes[x], processes'[x])
        <4>1. ASSUME NEW x \in Slots
              PROVE  /\ Plays(processes'[x], at[x])
                     /\ processes'[x].pid = processes[x].pid
                     /\ processes'[x].stack \in {processes[x].stack, "freed"}
          <5>1. Plays(processes[x], at[x])
            BY <1>1
          <5>2. CASE x = s
            BY <3>3, <5>1, <5>2 DEF Dies, Plays
          <5>3. CASE x # s
            <6>1. Hears(processes[x], processes'[x])
              BY <3>3, <5>3
            <6> HIDE DEF e, r
            <6> QED
              BY <5>1, <6>1 DEF Hears, Becomes, Alike, Plays
          <5> QED
            BY <5>2, <5>3
        <4> QED
          BY <1>1, <4>1, RolesStay
      <3> QED
        BY <1>1, <2>3, <3>1, <3>2, <3>3, ResumeTurns
    <2> QED
      BY <2>1, <2>2, <2>3
  <1> QED
    BY <1>5, <1>6, <1>7 DEF KernelRuns, Kernel

\* A process dies by its own doing.
LEMMA RolesExit ==
  ASSUME RInv, NEW p \in Slots, sys_exit(p) \/ isr_usagefault(p),
         UNCHANGED <<at, shell_pid, victims>>
  PROVE  Roles'
  <1>1. IInv /\ processes[p].frame = "none" /\ \A s \in Slots : Plays(processes[s], at[s])
    BY Unblocked DEF RInv, LifeInv, Roles, sys_exit, isr_usagefault, Exit
  <1>2. CASE KillDamage(processes, p) # "none"
    BY <1>2, RolesSame DEF sys_exit, isr_usagefault, Exit, Broken
  <1>3. CASE KillDamage(processes, p) = "none"
    <2>1. /\ Dies(processes[p], processes'[p], processes'[p].kernel_mode)
          /\ \A x \in Slots \ {p} : Hears(processes[x], processes'[x])
      BY <1>1, <1>3, ExitTurns
    <2>2. ASSUME NEW x \in Slots
          PROVE  /\ Plays(processes'[x], at[x])
                 /\ processes'[x].pid = processes[x].pid
                 /\ processes'[x].stack \in {processes[x].stack, "freed"}
      BY <1>1, <2>1 DEF Dies, Hears, Becomes, Alike, Plays
    <2> QED
      BY <2>2, RolesStay
  <1> QED
    BY <1>2, <1>3

\* The programs that nobody waits for by name.
LEMMA RolesOthers ==
  ASSUME RInv, OthersRun
  PROVE  Roles'
  <1>1. PICK p \in Slots : proc1(p) \/ command(p)
    BY DEF OthersRun
  <1>2. victims' = victims /\ shell_pid' = shell_pid /\ IInv
        /\ \A s \in Slots : Plays(processes[s], at[s])
    BY <1>1 DEF OthersRun, proc1, command, RInv, LifeInv, Roles
  <1>3. CASE sys_exit(p) \/ isr_usagefault(p)
    <2>1. UNCHANGED at
      <3>1. ~sys_signal(p, "SIGTERM")
        <4>1. CASE KillDamage(processes, p) = "none"
          BY <1>3, <4>1 DEF sys_signal, sys_exit, isr_usagefault, Exit, InUserMode
        <4>2. CASE KillDamage(processes, p) # "none"
          BY <1>3, <4>2 DEF OthersRun, Undamaged, sys_signal, sys_exit, isr_usagefault,
                            Exit, Broken
        <4> QED
          BY <4>1, <4>2
      <3> QED
        BY <1>1, <3>1 DEF proc1, command
    <2> QED
      BY <1>2, <1>3, <2>1, RolesExit
  <1>4. CASE at[p] = "signal" /\ sys_signal(p, "SIGTERM") /\ Goto(p, "blink")
    <2>1. processes[p].frame = "none"
      BY <1>4, Unblocked DEF sys_signal
    <2>2. /\ Only(processes, processes', p)
          /\ LET e == processes[p]
             IN  Becomes(e, processes'[p], e.pstate, FALSE, e.frame,
                         e.pending_signals, e.signal_handled, e.handlers \cup {"SIGTERM"})
      BY <1>2, <1>4, SignalTurns, UserlandAssumption
    <2>3. at' = [at EXCEPT ![p] = "blink"] /\ at[p] \in LedAt /\ "blink" \in LedAt
          /\ "blink" \in Places
      BY <1>4 DEF Goto, LedAt, Places
    <2>4. ASSUME NEW s \in Slots
          PROVE  /\ Plays(processes'[s], at'[s])
                 /\ processes'[s].pid = processes[s].pid
                 /\ processes'[s].stack \in {processes[s].stack, "freed"}
      <3>1. at'[s] = IF s = p THEN "blink" ELSE at[s]
        BY <2>3, Names
      <3> QED
        BY <1>2, <2>1, <2>2, <3>1 DEF Only, Becomes, Alike, Plays
    <2> QED
      BY <1>2, <2>3, <2>4, RolesStay
  <1> QED
    BY <1>1, <1>3, <1>4 DEF proc1, command

\* A wait that finds a dead child: it is gone, and the program goes on.
LEMMA WaitsReap ==
  ASSUME RInv, NEW p \in Slots, Reap(p), Zombies(p) # {}, Waits(p)
  PROVE  \E c \in Slots \ {p, 0} :
           /\ Buried(p, c)
           /\ at' = [at EXCEPT ![p] = AfterWait(p, processes[c].pid), ![c] = "none"]
  <1>1. IInv
    BY DEF RInv, LifeInv
  <1>2. PICK c \in Slots \ {p} : Buried(p, c)
    BY <1>1, ReapTurns
  <1>3. c # 0
    BY <1>2, Names DEF Buried
  <1>4. Evaporating = {c}
    <2>1. processes'[c].pid = 0 /\ processes'[p].pid = processes[p].pid
      BY <1>2, BlankEntry DEF Buried, Resembles
    <2>2. \A x \in Slots : processes[x].pid # 0 /\ processes'[x].pid = 0 <=> x = c
      BY <1>2, <2>1 DEF Buried
    <2> QED
      BY <2>2 DEF Evaporating
  <1>5. at' = [at EXCEPT ![p] = AfterWait(p, processes[c].pid), ![c] = "none"]
    BY <1>4 DEF Waits
  <1> QED
    BY <1>2, <1>3, <1>5

\* And the program of the parent gets to that place.
LEMMA RolesReap ==
  ASSUME RInv, NEW p \in Slots, Reap(p), Zombies(p) # {}, Waits(p),
         at[p] \in {"await shell", "await command"}, UNCHANGED <<shell_pid, victims>>
  PROVE  Roles'
  <1>1. PICK c \in Slots \ {p, 0} :
           /\ processes[c].pid # 0 /\ processes'[c] = Blank
           /\ \A x \in Slots \ {c, p} : processes'[x] = processes[x]
           /\ Resembles(processes[p], processes'[p]) /\ processes'[p].frame = "none"
           /\ at' = [at EXCEPT ![p] = AfterWait(p, processes[c].pid), ![c] = "none"]
    <2>1. PICK c \in Slots \ {p, 0} :
            /\ Buried(p, c)
            /\ at' = [at EXCEPT ![p] = AfterWait(p, processes[c].pid), ![c] = "none"]
      BY WaitsReap
    <2> QED
      BY <2>1 DEF Buried
  <1> DEFINE a == AfterWait(p, processes[c].pid)
  <1>2. /\ at \in [Slots -> Places] /\ \A s \in Slots : Plays(processes[s], at[s])
        /\ \A s \in Slots : at[s] \in InitAt <=> s = 0
        /\ \A s \in Slots : at[s] \in ShellAt /\ processes[s].stack = "page"
                              => processes[s].pid = shell_pid
    BY DEF RInv, Roles
  <1>3. /\ at[p] = "await command" => a = "read"
        /\ at[p] = "await shell" =>
             \/ a = "await shell"
             \/ a = "spawn shell" /\ processes[c].pid = shell_pid
    BY DEF AfterWait
  <1> HIDE DEF a
  <1>4. at' = [at EXCEPT ![p] = a, ![c] = "none"]
    BY <1>1 DEF a
  <1>5. /\ at' \in [Slots -> Places] /\ at'[p] = a /\ at'[c] = "none"
        /\ \A s \in Slots \ {c, p} : at'[s] = at[s]
    BY <1>2, <1>3, <1>4 DEF Places, InitAt, ShellAt
  <1>6. Plays(processes'[p], a)
    <2>1. Plays(processes[p], at[p])
      BY <1>2
    <2>2. at[p] # "blink" /\ a # "blink"
      BY <1>3
    <2> QED
      BY <1>1, <2>1, <2>2 DEF Resembles, Plays
  <1>7. Plays(processes'[c], "none")
    BY <1>1, BlankEntry DEF Plays
  <1>8. Blank.stack = "null"
    BY BlankEntry
  <1>9. ASSUME NEW s \in Slots
        PROVE  /\ Plays(processes'[s], at'[s])
               /\ at'[s] \in InitAt <=> at[s] \in InitAt
               /\ at'[s] \in ShellAt /\ processes'[s].stack = "page" =>
                    /\ at[s] \in ShellAt /\ processes[s].stack = "page"
                    /\ processes'[s].pid = processes[s].pid
    <2>1. CASE s = p
      BY <1>1, <1>3, <1>5, <1>6, <2>1 DEF InitAt, ShellAt, Resembles
    <2>2. CASE s = c
      BY <1>1, <1>2, <1>5, <1>7, <2>2 DEF InitAt, ShellAt
    <2>3. CASE s # p /\ s # c
      BY <1>1, <1>2, <1>5, <2>3
    <2> QED
      BY <2>1, <2>2, <2>3
  <1>10. \/ at[0] = "await shell" => at'[0] = "await shell"
         \/ \A s \in Slots : at'[s] \in ShellAt => processes'[s].stack # "page"
    <2>1. CASE processes[c].pid = shell_pid
      <3>1. ASSUME NEW s \in Slots, at'[s] \in ShellAt, processes'[s].stack = "page"
            PROVE  FALSE
        <4>1. /\ at[s] \in ShellAt /\ processes[s].stack = "page"
              /\ processes'[s].pid = processes[s].pid
          BY <1>9, <3>1
        <4>2. processes[s].pid = shell_pid
          BY <1>2, <4>1
        <4>3. s = c
          BY <1>1, <2>1, <4>2, Names
        <4> QED
          BY <1>5, <3>1, <4>3 DEF ShellAt
      <3> QED
        BY <3>1
    <2>2. CASE processes[c].pid # shell_pid
      <3>1. at[0] \in InitAt
        BY <1>2, Names
      <3> QED
        BY <1>1, <1>3, <1>5, <2>2, <3>1, Names DEF InitAt
    <2> QED
      BY <2>1, <2>2
  <1> QED
    BY <1>5, <1>9, <1>10, RolesKept

\* A wait, or the end of one.
LEMMA RolesWait ==
  ASSUME RInv, NEW p \in Slots, Waits(p), UNCHANGED <<shell_pid, victims>>,
         \/ at[p] \in {"await shell", "await command"} /\ sys_wait(p)
         \/ wait_resumed /\ p = current_process
  PROVE  Roles'
  <1>1. IInv /\ \A s \in Slots : Plays(processes[s], at[s])
    BY DEF RInv, LifeInv, Roles
  <1>2. at[p] \in {"await shell", "await command"}
    BY <1>1 DEF wait_resumed, Plays
  <1>4. CASE Zombies(p) # {}
    BY <1>2, <1>4, RolesReap DEF sys_wait, wait_resumed
  <1>5. CASE Zombies(p) = {} /\ wait_resumed
    <2>1. UNCHANGED processes
      BY <1>5 DEF wait_resumed, Reap, Reapable, Broken, sys_wait, InUserMode
    <2>2. Evaporating = {}
      BY <2>1 DEF Evaporating
    <2> QED
      BY <2>1, <2>2, RolesSame DEF Waits
  <1>6. CASE Zombies(p) = {} /\ sys_wait(p)
    <2>1. /\ Only(processes, processes', p)
          /\ LET e == processes[p]
             IN  Becomes(e, processes'[p], "WAITING_FOR_CHILD_EXIT", TRUE, "wait",
                         e.pending_signals, e.signal_handled, e.handlers)
      BY <1>1, <1>6, Facts, BlockingTurns DEF sys_wait
    <2>2. Evaporating = {}
      BY <2>1 DEF Evaporating, Only, Becomes, Alike
    <2>3. Plays(processes'[p], at[p])
      BY <1>1, <1>2, <2>1 DEF Becomes, Plays
    <2> QED
      BY <1>1, <2>1, <2>2, <2>3, RolesStay DEF Waits, Only, Becomes, Alike
  <1> QED
    BY <1>4, <1>5, <1>6

\* Which program at p starts which other, and where it goes on.
Launches(p, a, b) ==
  \/ at[p] = "spawn LED" /\ a = "spawn shell" /\ b = "signal"
       /\ shell_pid' = shell_pid
  \/ at[p] = "spawn shell" /\ a = "await shell" /\ b = "read"
       /\ shell_pid' = next_pid
  \/ at[p] = "line" /\ a = "await command" /\ b = "run"
       /\ shell_pid' = shell_pid

\* A program spawns another.
LEMMA RolesSpawn ==
  ASSUME RInv, NEW p \in Slots, NEW a, NEW b, Spawns(p, a, b), Launches(p, a, b),
         victims' = victims
  PROVE  Roles'
  <1>1. spawn(p) /\ at' = [at EXCEPT ![p] = a, ![FirstEmpty] = b]
    BY DEF Spawns
  <1>2. IInv
    BY DEF RInv, LifeInv
  <1>3. PICK c \in Slots \ {p} : Arrived(p, c)
    BY <1>1, <1>2, SpawnTurns
  <1>4. /\ c = FirstEmpty /\ processes[c] = Blank /\ NewBorn(processes'[c], p)
        /\ \A x \in Slots \ {c, p} : processes'[x] = processes[x]
        /\ Resembles(processes[p], processes'[p])
        /\ processes'[p].frame = processes[p].frame /\ next_pid \in 0 .. MaxPid
    <2>1. next_pid \in 0 .. MaxPid
      BY <1>3, Constants DEF Arrived
    <2>2. c = FirstEmpty
      BY <1>3 DEF Arrived
    <2>3. processes[c] = Blank
      BY <1>3 DEF Arrived
    <2> QED
      BY <1>3, <2>1, <2>2, <2>3 DEF Arrived
  <1>5. /\ at \in [Slots -> Places] /\ \A s \in Slots : Plays(processes[s], at[s])
        /\ \A s \in Slots : at[s] \in InitAt <=> s = 0
        /\ \A s \in Slots : at[s] \in ShellAt /\ processes[s].stack = "page"
                              => processes[s].pid = shell_pid /\ at[0] = "await shell"
        /\ shell_pid \in 0 .. MaxPid /\ victims \in Sessions
    BY DEF RInv, Roles
  <1>6. c # 0
    <2>1. Blank.pid = 0
      BY BlankEntry
    <2>2. processes[0].pid # 0
      BY Names DEF PID_INIT
    <2> QED
      BY <1>4, <2>1, <2>2
  <1>7. a \in Places /\ b \in Places
    BY DEF Launches, Places, InitAt, LedAt, ShellAt
  <1>8. /\ at' \in [Slots -> Places] /\ at'[p] = a /\ at'[c] = b
        /\ \A s \in Slots \ {c, p} : at'[s] = at[s]
    BY <1>1, <1>4, <1>5, <1>7
  <1>9. processes[p].frame = "none"
    BY <1>1, Unblocked DEF spawn
  <1>10. Plays(processes'[p], a)
    <2>1. Plays(processes[p], at[p]) /\ at[p] # "blink"
      BY <1>5 DEF Launches
    <2> QED
      BY <1>4, <1>9, <2>1 DEF Resembles, Plays
  <1>11. Plays(processes'[c], b)
    BY <1>4 DEF NewBorn, Plays
  <1>12. \A s \in Slots : Plays(processes'[s], at'[s])
    BY <1>4, <1>5, <1>8, <1>10, <1>11
  <1>13. \A s \in Slots : at'[s] \in InitAt <=> s = 0
    BY <1>5, <1>6, <1>8 DEF Launches, InitAt, ShellAt
  <1>14. CASE at[p] = "spawn LED" \/ at[p] = "spawn shell"
    <2>1. p = 0
      BY <1>5, <1>14 DEF InitAt
    <2>2. \A s \in Slots : at[s] \in ShellAt => processes[s].stack # "page"
      BY <1>5, <1>14, <2>1
    <2>3. ASSUME NEW s \in Slots, at'[s] \in ShellAt, processes'[s].stack = "page"
          PROVE  processes'[s].pid = shell_pid' /\ at'[0] = "await shell"
      <3>1. s = c
        BY <1>4, <1>8, <1>14, <2>2, <2>3 DEF ShellAt, Launches
      <3>2. at[p] = "spawn shell"
        BY <1>8, <2>3, <3>1 DEF ShellAt, Launches
      <3> QED
        BY <1>4, <1>8, <2>1, <3>1, <3>2 DEF NewBorn, Launches
    <2>4. shell_pid' \in 0 .. MaxPid
      BY <1>4, <1>5 DEF Launches
    <2> QED
      BY <1>5, <1>8, <1>12, <1>13, <2>3, <2>4 DEF Roles
  <1>15. CASE at[p] = "line"
    <2>1. a = "await command" /\ b = "run" /\ shell_pid' = shell_pid /\ p # 0
      BY <1>5, <1>15 DEF InitAt, Launches
    <2>2. ASSUME NEW s \in Slots, at'[s] \in ShellAt, processes'[s].stack = "page"
          PROVE  processes'[s].pid = shell_pid /\ at[0] = "await shell"
      <3>1. s # c
        BY <1>8, <2>1, <2>2 DEF ShellAt
      <3>2. at[s] \in ShellAt /\ processes[s].stack = "page"
            /\ processes'[s].pid = processes[s].pid
        BY <1>4, <1>8, <1>15, <2>2, <3>1 DEF ShellAt, Resembles
      <3> QED
        BY <1>5, <3>2
    <2>3. at'[0] = at[0]
      BY <1>6, <1>8, <2>1, Names
    <2> QED
      BY <1>5, <1>8, <1>12, <1>13, <2>1, <2>2, <2>3 DEF Roles
  <1> QED
    BY <1>14, <1>15 DEF Launches

\* A read takes a line, in the table in which its call is blocked.
LEMMA RolesLine ==
  ASSUME RInv, NEW p \in Slots, at[p] = "read", NEW t \in Table,
         \A x \in Slots \ {p} : t[x] = processes[x],
         Alike(processes[p], t[p]),
         t[p].signal_handled = processes[p].signal_handled,
         t[p].handlers = processes[p].handlers,
         NEW queue \in Seq(Slots), queue # <<>>, LineRead(t, p, queue), Reads(p),
         UNCHANGED <<shell_pid, victims>>
  PROVE  Roles'
  <1> DEFINE h == Head(queue)
  <1>1. \A s \in Slots : Plays(processes[s], at[s]) /\ processes[s] \in Process
    BY Names DEF RInv, Roles
  <1>2. /\ \/ at' = at
           \/ at' = [at EXCEPT ![p] = "line"]
        /\ "line" \in Places /\ "line" \in ShellAt /\ "read" \in ShellAt
    BY DEF Reads, Goto, Places, ShellAt
  <1>3. CASE t[h].stack = "null"
    <2>1. processes' = processes /\ at' = at
      BY <1>3 DEF LineRead, Broken, tty, Reads
    <2> QED
      BY <2>1, RolesSame
  <1>4. CASE t[h].stack # "null"
    <2>1. /\ h \in Slots
          /\ \A x \in Slots :
               LET e == t[x]
               IN  Becomes(e, processes'[x],
                           IF x = h THEN "READY" ELSE e.pstate,
                           IF x = p THEN FALSE ELSE e.kernel_mode,
                           IF x = p THEN "none" ELSE e.frame,
                           e.pending_signals, e.signal_handled, e.handlers)
      BY <1>4, LineReadTurns
    <2>2. ASSUME NEW x \in Slots
          PROVE  /\ Plays(processes'[x], at'[x])
                 /\ processes'[x].pid = processes[x].pid
                 /\ processes'[x].stack \in {processes[x].stack, "freed"}
      <3>1. at'[x] = at[x] \/ (x = p /\ at'[x] = "line")
        BY <1>2, Names
      <3>2. Plays(processes[x], at[x]) /\ processes[x] \in Process
        BY <1>1
      <3>3. CASE x = p
        BY <2>1, <3>1, <3>2, <3>3 DEF Becomes, Alike, Plays
      <3>4. CASE x # p
        <4>1. t[x] = processes[x] /\ at'[x] = at[x]
          BY <3>1, <3>4
        <4> HIDE DEF h
        <4> QED
          <5> DEFINE e == processes[x]
                     r == processes'[x]
          <5>1. /\ r.pid = e.pid /\ r.stack = e.stack /\ r.frame = e.frame
                /\ r.kernel_mode = e.kernel_mode /\ r.handlers = e.handlers
                /\ r.signal_handled = e.signal_handled
            BY <2>1, <3>4, <4>1 DEF Becomes, Alike
          <5> QED
            BY <3>2, <4>1, <5>1 DEF Plays
      <3> QED
        BY <3>3, <3>4
    <2> QED
      BY <1>2, <2>2, RolesStay
  <1> QED
    BY <1>3, <1>4

\* A read, or the end of one.
LEMMA RolesRead ==
  ASSUME RInv, NEW p \in Slots, Reads(p), UNCHANGED <<shell_pid, victims>>,
         \/ at[p] = "read" /\ tty_read(p)
         \/ read_resumed /\ p = current_process
  PROVE  Roles'
  <1>1. IInv /\ (\A s \in Slots : Plays(processes[s], at[s]))
        /\ processes \in Table /\ processes[p] \in Process /\ read_wait \in Seq(Slots)
    BY Facts, Names DEF RInv, LifeInv, Roles, ScalarsOK
  <1>2. CASE read_resumed /\ p = current_process
    <2>1. processes[p].frame = "read" /\ at[p] = "read"
      BY <1>1, <1>2 DEF read_resumed, Plays
    <2>2. CASE newline_present
      <3>1. LineRead(processes, p, read_wait)
        BY <1>2, <2>2 DEF read_resumed
      <3>2. read_wait # <<>>
        BY <1>1, <2>1, QueueNotEmpty
      <3> QED
        BY <1>1, <2>1, <3>1, <3>2, RolesLine DEF Alike
    <2>3. CASE ~newline_present
      <3>1. processes' = processes /\ at' = at
        BY <1>2, <2>3 DEF read_resumed, tty, Reads
      <3> QED
        BY <3>1, RolesSame
    <2> QED
      BY <2>2, <2>3
  <1>3. CASE at[p] = "read" /\ tty_read(p)
    <2> DEFINE t     == Blocking(processes, p, "read", "WAITING_FOR_RESOURCE")
               queue == Append(read_wait, p)
    <2>1. /\ Only(processes, t, p)
          /\ LET e == processes[p]
             IN  Becomes(e, t[p], "WAITING_FOR_RESOURCE", TRUE, "read",
                         e.pending_signals, e.signal_handled, e.handlers)
      BY <1>1, BlockingTurns
    <2>2. queue \in Seq(Slots) /\ queue # <<>>
      <3>1. queue \in Seq(Slots) /\ Len(queue) = Len(read_wait) + 1
            /\ Len(read_wait) \in Nat
        BY <1>1
      <3> HIDE DEF queue
      <3> QED
        BY <3>1
    <2>3. CASE newline_present
      <3>1. LineRead(t, p, queue)
        BY <1>3, <2>3 DEF tty_read
      <3> HIDE DEF t, queue
      <3> QED
        BY <1>3, <2>1, <2>2, <3>1, RolesLine DEF Only, Becomes
    <2>4. CASE ~newline_present
      <3>1. processes' = t /\ at' = at
        BY <1>3, <2>4 DEF tty_read, Reads
      <3> HIDE DEF t, queue
      <3>2. Plays(processes'[p], at[p])
        BY <1>1, <1>3, <2>1, <3>1 DEF Becomes, Plays
      <3> QED
        BY <1>1, <2>1, <3>1, <3>2, RolesStay DEF Only, Becomes, Alike
    <2> QED
      BY <2>3, <2>4
  <1> QED
    BY <1>2, <1>3

\* The user kills a program.
LEMMA RolesKill ==
  ASSUME RInv, NEW p \in Slots, NEW pid \in Killable, sys_kill_term(p, pid),
         at[p] = "line", Goto(p, "read"), UNCHANGED <<shell_pid, victims>>
  PROVE  Roles'
  <1>1. IInv /\ (\A s \in Slots : Plays(processes[s], at[s]))
        /\ processes[p].frame = "none"
    BY Unblocked DEF RInv, LifeInv, Roles, sys_kill_term
  <1>2. \A x \in Slots :
          LET f == processes[x]
              r == processes'[x]
          IN  Becomes(f, r, f.pstate, IF x = p THEN FALSE ELSE f.kernel_mode,
                      f.frame, r.pending_signals, f.signal_handled, f.handlers)
    BY <1>1, TermTurns
  <1>3. /\ at' = [at EXCEPT ![p] = "read"] /\ "read" \in Places
        /\ "line" \in ShellAt /\ "read" \in ShellAt
    BY DEF Goto, Places, ShellAt
  <1>4. ASSUME NEW x \in Slots
        PROVE  /\ Plays(processes'[x], at'[x])
               /\ processes'[x].pid = processes[x].pid
               /\ processes'[x].stack \in {processes[x].stack, "freed"}
    <2>1. at'[x] = IF x = p THEN "read" ELSE at[x]
      BY <1>3, Names
    <2> QED
      BY <1>1, <1>2, <2>1 DEF Becomes, Alike, Plays
  <1> QED
    BY <1>3, <1>4, RolesStay

\* What the shell does.
LEMMA RolesShell ==
  ASSUME RInv, ShellRuns
  PROVE  Roles'
  <1>1. PICK p \in Slots : shell(p)
    BY DEF ShellRuns
  <1>2. UNCHANGED <<shell_pid, victims>>
    BY <1>1 DEF ShellRuns, shell
  <1>3. CASE at[p] = "read" /\ tty_read(p) /\ Reads(p)
    BY <1>2, <1>3, RolesRead
  <1>4. CASE perform_kill(p)
    <2>1. PICK v \in victims : sys_kill_term(p, Victim(v))
      BY <1>4 DEF perform_kill
    <2>2. Victim(v) \in Killable
      <3>1. processes \in Table /\ shell_pid \in 0 .. MaxPid
        BY Names DEF RInv, Roles
      <3>2. ByPid(Victim(v)) # Null
        BY <2>1 DEF sys_kill_term
      <3>3. PICK s \in Slots : processes[s].pid = Victim(v)
        BY <3>2 DEF ByPid, WithPid
      <3>4. processes[s].pid \in 0 .. MaxPid
        BY <3>1, Entry
      <3> QED
        BY <3>3, <3>4, UserlandAssumption
    <2> QED
      BY <1>2, <1>4, <2>1, <2>2, RolesKill DEF perform_kill
  <1>5. CASE builtin(p)
    <2>1. /\ processes' = processes /\ at' = [at EXCEPT ![p] = "read"]
          /\ at[p] = "line" /\ "read" \in Places
          /\ "line" \in ShellAt /\ "read" \in ShellAt
      BY <1>5 DEF builtin, vars, Goto, Places, ShellAt
    <2>2. processes[p].frame = "none" /\ \A s \in Slots : Plays(processes[s], at[s])
      BY <1>5, Unblocked DEF builtin, RInv, Roles
    <2>3. ASSUME NEW x \in Slots
          PROVE  Plays(processes'[x], at'[x])
      <3>1. at'[x] = IF x = p THEN "read" ELSE at[x]
        BY <2>1, Names
      <3> QED
        BY <2>1, <2>2, <3>1 DEF Plays
    <2> QED
      BY <1>2, <2>1, <2>3, RolesStay
  <1>6. CASE at[p] = "line" /\ Spawns(p, "await command", "run")
    <2>1. Launches(p, "await command", "run")
      BY <1>2, <1>6 DEF Launches
    <2> QED
      BY <1>2, <1>6, <2>1, RolesSpawn
  <1>7. CASE at[p] = "await command" /\ sys_wait(p) /\ Waits(p)
    BY <1>2, <1>7, RolesWait
  <1> QED
    BY <1>1, <1>3, <1>4, <1>5, <1>6, <1>7 DEF shell, run_program

\* What init does.
LEMMA RolesInit ==
  ASSUME RInv, InitRuns
  PROVE  Roles'
  <1>1. PICK p \in Slots : PATER_ADAMVS(p)
    BY DEF InitRuns
  <1>2. victims' = victims
    BY DEF InitRuns
  <1>3. CASE at[p] = "spawn LED" /\ Spawns(p, "spawn shell", "signal")
             /\ shell_pid' = shell_pid
    <2>1. Launches(p, "spawn shell", "signal")
      BY <1>3 DEF Launches
    <2> QED
      BY <1>2, <1>3, <2>1, RolesSpawn
  <1>4. CASE at[p] = "spawn shell" /\ Spawns(p, "await shell", "read")
             /\ shell_pid' = next_pid
    <2>1. Launches(p, "await shell", "read")
      BY <1>4 DEF Launches
    <2> QED
      BY <1>2, <1>4, <2>1, RolesSpawn
  <1>5. CASE at[p] = "await shell" /\ sys_wait(p) /\ Waits(p) /\ shell_pid' = shell_pid
    BY <1>2, <1>5, RolesWait
  <1> QED
    BY <1>1, <1>3, <1>4, <1>5 DEF PATER_ADAMVS

\* Every step keeps the roles.
LEMMA RolesStep ==
  RInv /\ [UNext]_uvars => RInv'
  <1> SUFFICES ASSUME RInv, [UNext]_uvars
               PROVE  RInv'
    OBVIOUS
  <1>1. CASE UNCHANGED uvars
    <2>1. LifeInv'
      BY <1>1, LifeStep DEF RInv, uvars
    <2>2. processes' = processes
      BY <1>1 DEF uvars, vars
    <2> QED
      BY <1>1, <2>1, <2>2, RolesSame DEF RInv, uvars
  <1>2. CASE UNext
    <2>1. LifeInv'
      BY <1>2, Within, LifeStep DEF RInv
    <2>2. CASE KernelRuns
      <3>1. CASE Kernel
        BY <2>1, <2>2, <3>1, RolesKernel DEF RInv
      <3>2. CASE Returns
        <4>1. UNCHANGED <<shell_pid, victims>>
          BY <2>2, <3>2 DEF KernelRuns, Returns
        <4>2. current_process \in Slots
          BY <3>2, Facts DEF Returns, wait_resumed, read_resumed, OnProcessor, RInv,
                             LifeInv
        <4> QED
          BY <2>1, <3>2, <4>1, <4>2, RolesWait, RolesRead DEF Returns, RInv
      <3> QED
        BY <2>2, <3>1, <3>2 DEF KernelRuns
    <2> QED
      BY <1>2, <2>1, <2>2, RolesInit, RolesShell, RolesOthers DEF UNext, RInv
  <1> QED
    BY <1>1, <1>2

\* The roles at the start.
LEMMA RolesStart ==
  UInit => RInv
  <1> SUFFICES ASSUME UInit
               PROVE  RInv
    OBVIOUS
  <1>1. LifeInv
    BY LifeStart DEF UInit
  <1>2. /\ processes = [s \in Slots |-> IF s = 0 THEN InitProcess ELSE Blank]
        /\ at = [s \in Slots |-> IF s = 0 THEN "spawn LED" ELSE "none"]
        /\ shell_pid = 0 /\ victims \in Sessions
    BY DEF UInit, Init
  <1>3. shell_pid \in 0 .. MaxPid
    <2>1. MaxPid \in Nat
      BY SchedulerAssumption
    <2>2. shell_pid = 0
      BY <1>2
    <2> QED
      BY <2>1, <2>2
  <1>4. at \in [Slots -> Places]
    BY <1>2 DEF Places, InitAt
  <1>5. \A s \in Slots : Plays(processes[s], at[s])
    BY <1>2 DEF Plays, InitProcess, Blank
  <1>6. \A s \in Slots : /\ at[s] \in InitAt <=> s = 0
                         /\ at[s] \notin ShellAt
    BY <1>2 DEF InitAt, ShellAt
  <1> QED
    BY <1>1, <1>2, <1>3, <1>4, <1>5, <1>6 DEF RInv, Roles

\* Whatever the user kills, only the LED process has a handler, only init and the
\* shell block, and while a shell lives init waits for its pid.
THEOREM RolesInvariance == USpec => []RInv
  BY RolesStart, RolesStep, PTL DEF USpec

\* init never runs a second shell beside the first: whichever child its wait
\* returns, it spawns only when the pid of the last one is gone.
THEOREM OneShellCorrect == USpec => []OneShell
  <1>1. ASSUME RInv
        PROVE  OneShell
    <2> DEFINE S == {s \in Slots : /\ at[s] \in {"read", "line", "await command"}
                                   /\ processes[s].stack = "page"}
    <2>1. \A r, s \in S : r = s
      <3> SUFFICES ASSUME NEW r \in S, NEW s \in S
                   PROVE  r = s
        OBVIOUS
      <3>1. processes[r].pid = shell_pid /\ processes[s].pid = shell_pid
        BY <1>1 DEF RInv, Roles, ShellAt
      <3>2. processes[r].pid # 0
        BY <1>1, Names
      <3> QED
        BY <1>1, <3>1, <3>2, Names
    <2>2. S = {} \/ \E s \in Slots : S = {s}
      BY <2>1
    <2> HIDE DEF S
    <2>3. Cardinality(S) \in {0, 1}
      BY <2>2, FS_EmptySet, FS_Singleton, Zenon
    <2>4. Cardinality(S) <= 1
      BY <2>3
    <2> QED
      BY <2>4 DEF OneShell, S
  <1> QED
    BY <1>1, RolesInvariance, PTL

-----------------------------------------------------------------------------
(* A session in which the user kills the LED process only                  *)

\* The programs that wait for children, and those that are waited for.
Parents  == InitAt \cup ShellAt
Children == LedAt \cup {"run"}

Child(s, p) == \E i \in Taken(processes, p) : processes[p].children[i] = s

\* Who started the program in slot s.
Branch(s) ==
  LET e == processes[s]
  IN  /\ at[s] = "none" <=> e.pid = 0
      /\ at[s] \in LedAt => e.pid = LED_pid /\ e.parent = 0 /\ e.children_count = 0
      /\ at[s] \in ShellAt => e.pid > LED_pid /\ e.parent = 0
      /\ at[s] = "run" => /\ e.pid > LED_pid /\ e.children_count = 0
                          /\ e.parent \in Slots /\ at[e.parent] = "await command"
      /\ at[s] \in ShellAt \cup Children => Child(s, e.parent)

Tree ==
  /\ \A s \in Slots : Branch(s)
  /\ \A r, s \in Slots : at[r] = "run" /\ at[s] = "run" => r = s
  /\ processes[0].max_children_count = max_processes - 1

\* How far init is.
Boot ==
  /\ at[0] = "spawn LED" =>
       next_pid = LED_pid /\ \A s \in Slots \ {0} : at[s] = "none"
  /\ at[0] # "spawn LED" => next_pid > LED_pid
  /\ at[0] = "spawn shell" => \A s \in Slots : at[s] \notin ShellAt \cup {"run"}
  /\ at[0] = "await shell" => \E s \in Slots : at[s] \in ShellAt

\* Entry e of a program at place a: init and the shell live, and nobody but the
\* LED process is sent a signal other than SIGCHLD.
Alive(e, a) ==
  /\ e.pid = 0 => e = Blank
  /\ e.stack = "page" /\ e.kernel_mode => e.frame # "none"
  /\ e.stack = "page" /\ e.frame = "none" => e.pstate \in {"RUNNING", "READY"}
  /\ e.frame = "read" => e.pstate \in {"WAITING_FOR_RESOURCE", "READY"}
  /\ e.stack = "freed" => e.pstate = "TERMINATED" /\ e.pending_signals = <<>>
  /\ a \in Parents => /\ e.stack = "page"
                      /\ e.pending_signals \in {<<>>, <<"SIGCHLD">>}
  /\ a = "run" => e.pending_signals = <<>>

\* Some child of p is dead.
Dead(p) ==
  \E s \in Slots : /\ at[s] \in Children /\ processes[s].parent = p
                   /\ processes[s].stack = "freed"

\* A parent has a signal only of a dead child, and is out of its sleep in wait
\* only for one.
Awaits(p) ==
  /\ at[p] \in Parents /\ processes[p].pending_signals # <<>> => Dead(p)
  /\ processes[p].frame = "wait" =>
       IF mode = "kernel" /\ current_process = p THEN Dead(p)
       ELSE processes[p].pstate = "WAITING_FOR_CHILD_EXIT"

\* Who runs is a program, and a parent that runs has handled its signal.
Running ==
  /\ current_process \in Slots => at[current_process] # "none"
  /\ mode # "switch" /\ current_process \in Slots =>
       /\ processes[current_process].stack = "page"
       /\ at[current_process] \in Parents =>
            processes[current_process].pending_signals = <<>>

\* The queue of readers is the shell, while its read is blocked.
Reader ==
  read_wait = <<>> \/ \E s \in Slots : processes[s].frame = "read" /\ read_wait = <<s>>

CalmLed ==
  \A s \in Slots :
    at[s] \in LedAt => /\ processes[s].stack = "page"
                       /\ processes[s].pending_signals = <<>>
                       /\ ~processes[s].signal_handled

\* A line is typed, and acted upon, while the LED process is calm.
Lined == \E s \in Slots : at[s] = "line"
Lines ==
  /\ newline_present \/ Lined => CalmLed
  /\ Lined => ~newline_present

SInv ==
  /\ RInv
  /\ damage = "none"
  /\ Tree /\ Boot
  /\ \A s \in Slots : Alive(processes[s], at[s]) /\ Awaits(s)
  /\ Running /\ Reader /\ Lines

\* One LED process, one shell.
LEMMA Ones ==
  ASSUME SInv
  PROVE  /\ RInv /\ 0 \in Slots /\ at[0] \in InitAt
         /\ \A r, s \in Slots : at[r] \in LedAt /\ at[s] \in LedAt => r = s
         /\ \A r, s \in Slots : at[r] \in ShellAt /\ at[s] \in ShellAt => r = s
         /\ \A s \in Slots : at[s] \in ShellAt => /\ at[0] = "await shell"
                                                  /\ processes[s].pid = shell_pid
         /\ \A s \in Slots : /\ processes[s] \in Process
                             /\ Plays(processes[s], at[s])
                             /\ Alive(processes[s], at[s]) /\ Awaits(s)
                             /\ at[s] \in InitAt <=> s = 0
  <1>1. RInv /\ Tree /\ \A s \in Slots : Alive(processes[s], at[s]) /\ Awaits(s)
    BY DEF SInv
  <1>2. /\ 0 \in Slots /\ \A s \in Slots : at[s] \in InitAt <=> s = 0
        /\ \A s \in Slots : Plays(processes[s], at[s])
    BY <1>1, Names DEF RInv, Roles
  <1>3. LED_pid # 0
    BY DEF LED_pid, PID_INIT
  <1>4. \A r, s \in Slots : at[r] \in LedAt /\ at[s] \in LedAt => r = s
    <2>1. \A s \in Slots : at[s] \in LedAt => processes[s].pid = LED_pid
      BY <1>1 DEF Tree, Branch
    <2> QED
      BY <1>1, <1>3, <2>1, Names
  <1>5. \A s \in Slots : at[s] \in ShellAt => /\ at[0] = "await shell"
                                              /\ processes[s].pid = shell_pid
                                              /\ processes[s].pid # 0
    BY <1>1, Names DEF Tree, Branch, Alive, Parents, RInv, Roles
  <1> QED
    BY <1>1, <1>2, <1>4, <1>5, Names

\* What the programs that wait for nobody are.
LEMMA Leaves ==
  ASSUME SInv, NEW s \in Slots
  PROVE  /\ at[s] \in LedAt => /\ processes[s].pid = LED_pid /\ processes[s].pid # 0
                               /\ processes[s].parent = 0
                               /\ processes[s].children_count = 0
         /\ at[s] = "run" => /\ processes[s].pid # 0 /\ processes[s].parent \in Slots
                             /\ processes[s].children_count = 0
                             /\ at[processes[s].parent] = "await command"
  <1>1. Branch(s) /\ LED_pid = 2
    BY DEF SInv, Tree, LED_pid, PID_INIT
  <1>2. processes[s].pid \in Int
    BY Names, Entry DEF SInv
  <1>3. /\ at[s] \in LedAt => /\ processes[s].pid = LED_pid /\ processes[s].parent = 0
                             /\ processes[s].children_count = 0
        /\ at[s] = "run" => /\ processes[s].pid > LED_pid
                            /\ processes[s].parent \in Slots
                            /\ processes[s].children_count = 0
                            /\ at[processes[s].parent] = "await command"
    BY <1>1 DEF Branch
  <1>4. processes[s].pid = LED_pid \/ processes[s].pid > LED_pid => processes[s].pid # 0
    BY <1>1, <1>2
  <1> QED
    BY <1>3, <1>4

\* Places at which the same program can be, between a spawn and the next.
SamePart(a, b) ==
  \/ a = b
  \/ a \in LedAt /\ b \in LedAt
  \/ a \in {"read", "line"} /\ b \in {"read", "line"}

\* Slot s holds the same program as before, or it has died.
Stays(s) ==
  LET e == processes[s]
      r == processes'[s]
  IN  /\ r.pid = e.pid /\ r.parent = e.parent
      /\ r.children = e.children /\ r.children_count = e.children_count
      /\ r.max_children_count = e.max_children_count
      /\ r.stack \in {e.stack, "freed"}
      /\ SamePart(at[s], at'[s])

\* A program that keeps its part stays on its side of every distinction made here.
LEMMA PartStays ==
  ASSUME NEW a, NEW b, SamePart(a, b)
  PROVE  /\ a \in LedAt <=> b \in LedAt
         /\ a \in ShellAt <=> b \in ShellAt
         /\ a \in InitAt <=> b \in InitAt
         /\ a \in Children <=> b \in Children
         /\ \A c \in InitAt \cup {"none", "run", "await command"} : a = c <=> b = c
  BY DEF SamePart, LedAt, ShellAt, InitAt, Children

\* The dead stay dead, and the tree is the same.
LEMMA TreeStays ==
  ASSUME SInv, \A s \in Slots : Stays(s), next_pid' = next_pid
  PROVE  Tree' /\ Boot' /\ \A p \in Slots : Dead(p) => Dead(p)'
  <1>1. \A s \in Slots :
          /\ at[s] \in LedAt <=> at'[s] \in LedAt
          /\ at[s] \in ShellAt <=> at'[s] \in ShellAt
          /\ at[s] \in Children <=> at'[s] \in Children
          /\ at[s] = "none" <=> at'[s] = "none"
          /\ at[s] = "run" <=> at'[s] = "run"
          /\ at[s] = "await command" <=> at'[s] = "await command"
          /\ at[s] = "spawn LED" <=> at'[s] = "spawn LED"
          /\ at[s] = "spawn shell" <=> at'[s] = "spawn shell"
          /\ at[s] = "await shell" <=> at'[s] = "await shell"
    <2> SUFFICES ASSUME NEW s \in Slots
                 PROVE  /\ at[s] \in LedAt <=> at'[s] \in LedAt
                        /\ at[s] \in ShellAt <=> at'[s] \in ShellAt
                        /\ at[s] \in Children <=> at'[s] \in Children
                        /\ \A c \in InitAt \cup {"none", "run", "await command"} :
                             at[s] = c <=> at'[s] = c
      BY DEF InitAt
    <2> QED
      BY PartStays DEF Stays
  <1>2. \A s \in Slots :
          /\ processes'[s].pid = processes[s].pid
          /\ processes'[s].parent = processes[s].parent
          /\ processes'[s].children = processes[s].children
          /\ processes'[s].children_count = processes[s].children_count
          /\ processes'[s].max_children_count = processes[s].max_children_count
          /\ processes[s].stack = "freed" => processes'[s].stack = "freed"
    BY DEF Stays
  <1>3. Tree /\ Boot /\ 0 \in Slots
    BY Ones DEF SInv
  <1>4. ASSUME NEW s \in Slots
        PROVE  Branch(s)'
    <2> DEFINE p == processes[s].parent
    <2>1. Branch(s) /\ p' = p
      BY <1>2, <1>3 DEF Tree
    <2>2. at[s] \in ShellAt \cup Children => p \in Slots
      BY <1>3, <2>1 DEF Branch, Children
    <2>3. p \in Slots /\ Child(s, p) => Child(s, p)'
      <3> SUFFICES ASSUME p \in Slots, Child(s, p)
                   PROVE  Child(s, p)'
        OBVIOUS
      <3>1. /\ processes'[p].children = processes[p].children
            /\ processes'[p].max_children_count = processes[p].max_children_count
        BY <1>2
      <3> QED
        BY <2>1, <3>1 DEF Child, Taken, Indices
    <2>4. at'[s] \in ShellAt \cup Children => Child(s, p)'
      BY <1>1, <2>1, <2>2, <2>3 DEF Branch
    <2>5. p \in Slots => (at[p] = "await command" <=> at'[p] = "await command")
      BY <1>1
    <2>6. LET r == processes'[s]
          IN  /\ at'[s] = "none" <=> r.pid = 0
              /\ at'[s] \in LedAt => r.pid = LED_pid /\ r.parent = 0 /\ r.children_count = 0
              /\ at'[s] \in ShellAt => r.pid > LED_pid /\ r.parent = 0
              /\ at'[s] = "run" => /\ r.pid > LED_pid /\ r.children_count = 0
                                   /\ r.parent \in Slots /\ at'[r.parent] = "await command"
      BY <1>1, <1>2, <2>1, <2>5 DEF Branch
    <2> QED
      BY <2>4, <2>6 DEF Branch
  <1>5. /\ processes'[0].max_children_count = max_processes - 1
        /\ \A r, s \in Slots : at'[r] = "run" /\ at'[s] = "run" => r = s
    BY <1>1, <1>2, <1>3 DEF Tree
  <1>6. Tree'
    BY <1>4, <1>5 DEF Tree
  <1>7. Boot'
    BY <1>1, <1>3 DEF Boot
  <1>8. \A p \in Slots : Dead(p) => Dead(p)'
    BY <1>1, <1>2 DEF Dead
  <1> QED
    BY <1>6, <1>7, <1>8

\* A step in which the programs in T do something.
LEMMA Turns ==
  ASSUME SInv, RInv', \A s \in Slots : Stays(s), next_pid' = next_pid, damage' = "none",
         NEW T \in SUBSET Slots,
         \A x \in Slots \ T : processes'[x] = processes[x] /\ at'[x] = at[x],
         \A x \in T : Alive(processes'[x], at'[x]) /\ Awaits(x)',
         mode = "kernel" => current_process \in T,
         mode' = "kernel" => current_process' \in T,
         Running', Reader', Lines'
  PROVE  SInv'
  <1>1. Tree' /\ Boot' /\ \A p \in Slots : Dead(p) => Dead(p)'
    BY TreeStays
  <1>2. ASSUME NEW x \in Slots
        PROVE  Alive(processes'[x], at'[x]) /\ Awaits(x)'
    <2>1. CASE x \in T
      BY <2>1
    <2>2. CASE x \notin T
      <3>1. Alive(processes[x], at[x]) /\ Awaits(x)
        BY DEF SInv
      <3>2. Awaits(x)'
        BY <1>1, <2>2, <3>1 DEF Awaits
      <3> QED
        BY <2>2, <3>1, <3>2
    <2> QED
      BY <2>1, <2>2
  <1> QED
    BY <1>1, <1>2 DEF SInv

\* A step in which no program does anything.
LEMMA NoneTurns ==
  ASSUME SInv, RInv', processes' = processes, at' = at, next_pid' = next_pid,
         damage' = "none", mode # "kernel", mode' # "kernel", Running', Reader', Lines'
  PROVE  SInv'
  <1>1. \A s \in Slots : Stays(s)
    BY DEF Stays, SamePart
  <1> DEFINE T == {}
  <1>2. /\ T \in SUBSET Slots
        /\ \A x \in Slots \ T : processes'[x] = processes[x] /\ at'[x] = at[x]
        /\ \A x \in T : Alive(processes'[x], at'[x]) /\ Awaits(x)'
    OBVIOUS
  <1> HIDE DEF T
  <1> QED
    BY <1>1, <1>2, Turns

\* A step in which program p does something.
LEMMA OneTurns ==
  ASSUME SInv, RInv', NEW p \in Slots, processes' \in Table, Stays(p),
         \A x \in Slots \ {p} : processes'[x] = processes[x] /\ at'[x] = at[x],
         next_pid' = next_pid, damage' = "none", Alive(processes'[p], at'[p]),
         Dead(p) /\ Dead(p)' => Awaits(p)',
         ~Dead(p) => Awaits(p)',
         mode = "kernel" => current_process = p,
         mode' = "kernel" => current_process' = p,
         Running', Reader', Lines'
  PROVE  SInv'
  <1>1. \A s \in Slots : Stays(s)
    BY DEF Stays, SamePart
  <1>2. Dead(p) => Dead(p)'
    BY <1>1, TreeStays
  <1>3. Awaits(p)'
    BY <1>2
  <1> DEFINE T == {p}
  <1>4. /\ T \in SUBSET Slots
        /\ \A x \in Slots \ T : processes'[x] = processes[x] /\ at'[x] = at[x]
        /\ \A x \in T : Alive(processes'[x], at'[x]) /\ Awaits(x)'
        /\ mode = "kernel" => current_process \in T
        /\ mode' = "kernel" => current_process' \in T
    BY <1>3
  <1> HIDE DEF T
  <1> QED
    BY <1>1, <1>4, Turns

-----------------------------------------------------------------------------
(* The kernel's steps in such a session, and the deaths                    *)

\* A dead child can be reaped.
LEMMA DeadChild ==
  ASSUME SInv, NEW p \in Slots, Dead(p)
  PROVE  Zombies(p) # {}
  <1>1. PICK s \in Slots : /\ at[s] \in Children /\ processes[s].parent = p
                           /\ processes[s].stack = "freed"
    BY DEF Dead
  <1>2. Child(s, p)
    BY <1>1 DEF SInv, Tree, Branch
  <1>3. PICK i \in Taken(processes, p) : processes[p].children[i] = s
    BY <1>2 DEF Child
  <1>4. processes[s].pstate = "TERMINATED"
    BY <1>1 DEF SInv, Alive
  <1>5. i \in Zombies(p)
    BY <1>3, <1>4, Names DEF Zombies, ChildIndices, Taken, Indices
  <1> QED
    BY <1>5

\* While the programs rest, the LED process is calm: had it died, init would have
\* its SIGCHLD.
LEMMA RestIsCalm ==
  ASSUME SInv, AtRest, mode = "user"
  PROVE  CalmLed /\ ~Lined
  <1>1. ASSUME NEW s \in Slots, at[s] \in Parents
        PROVE  processes[s].frame \in {"wait", "read"}
    <2>1. /\ Plays(processes[s], at[s]) /\ Alive(processes[s], at[s])
      BY Ones
    <2>2. processes[s].pstate \in {"WAITING_FOR_CHILD_EXIT", "WAITING_FOR_RESOURCE"}
      BY <1>1 DEF AtRest, Parents, InitAt, ShellAt
    <2> QED
      BY <1>1, <2>1, <2>2 DEF Plays, Alive
  <1>2. ~Lined
    <2> SUFFICES ASSUME NEW s \in Slots, at[s] = "line"
                 PROVE  FALSE
      BY DEF Lined
    <2>1. processes[s].frame \in {"wait", "read"}
      BY <1>1 DEF Parents, ShellAt
    <2> QED
      BY <2>1, Ones DEF Plays
  <1>3. ASSUME NEW s \in Slots, at[s] \in LedAt
        PROVE  /\ processes[s].stack = "page" /\ processes[s].pending_signals = <<>>
               /\ ~processes[s].signal_handled
    <2>1. processes[s].pending_signals = <<>> /\ ~processes[s].signal_handled
      BY DEF AtRest
    <2>2. processes[s].pid # 0 /\ processes[s].parent = 0
      BY <1>3, Leaves
    <2>3. processes[s].stack \in {"page", "freed"}
      BY <2>2, Names DEF SInv, Process
    <2>4. ASSUME processes[s].stack = "freed"
          PROVE  FALSE
      <3>1. Dead(0)
        BY <1>3, <2>2, <2>4 DEF Dead, Children
      <3>2. PICK i \in Zombies(0) : TRUE
        BY <3>1, DeadChild, Ones
      <3>3. processes[0].pstate = "WAITING_FOR_CHILD_EXIT"
        <4>1. processes[0].frame \in {"wait", "read"}
          BY <1>1, Ones DEF Parents
        <4>2. processes[0].frame # "read"
          BY Ones DEF Plays, InitAt
        <4> QED
          BY <4>1, <4>2, Ones DEF Awaits
      <3>4. Notified(processes[0])
        BY <3>2, <3>3, Ones DEF RInv, LifeInv, IInv, Exits, Zombies, ChildIndices, Taken,
                                Indices
      <3>5. processes[0].pending_signals = <<>>
        BY Ones DEF AtRest
      <3> QED
        BY <3>4, <3>5 DEF Notified
    <2> QED
      BY <2>1, <2>3, <2>4
  <1> QED
    BY <1>2, <1>3 DEF CalmLed

\* A step that has nothing to do with the terminal.
LEMMA TerminalStays ==
  ASSUME SInv, UNCHANGED tty, at' = at,
         \A s \in Slots : processes'[s].frame = processes[s].frame,
         CalmLed => CalmLed'
  PROVE  Reader' /\ Lines'
  <1>1. read_wait' = read_wait /\ newline_present' = newline_present
    BY DEF tty
  <1>2. Reader'
    BY <1>1 DEF SInv, Reader
  <1>3. Lined' = Lined
    BY DEF Lined
  <1> QED
    BY <1>1, <1>2, <1>3 DEF SInv, Lines

\* SysTick.
LEMMA TickSession ==
  ASSUME SInv, RInv', Tick, UNCHANGED <<at, shell_pid, victims>>
  PROVE  SInv'
  <1>1. IInv /\ tick
    BY DEF SInv, RInv, LifeInv, Tick
  <1>2. /\ mode = "user" /\ mode' = "switch"
        /\ UNCHANGED <<current_process, next_pid, damage, tty>>
    BY <1>1, TickTurns
  <1>3. damage' = "none" /\ Running'
    BY <1>2 DEF SInv, Running
  <1>4. CASE processes' = processes
    <2>1. Reader' /\ Lines'
      BY <1>2, <1>4, TerminalStays DEF CalmLed
    <2> QED
      BY <1>2, <1>3, <1>4, <2>1, NoneTurns
  <1>5. CASE processes' # processes
    <2>1. PICK p \in Slots :
            /\ p = current_process /\ Only(processes, processes', p)
            /\ ~processes[p].kernel_mode
            /\ LET e == processes[p]
               IN  Becomes(e, processes'[p], "READY", e.kernel_mode, e.frame,
                           e.pending_signals, e.signal_handled, e.handlers)
      BY <1>1, <1>5, TickTurns DEF tick
    <2> DEFINE e == processes[p]
               r == processes'[p]
    <2>2. /\ Plays(e, at[p]) /\ Alive(e, at[p]) /\ Awaits(p) /\ e.stack = "page"
          /\ e.pid # 0
      BY <1>2, <2>1, Ones, Names DEF SInv, Running
    <2>3. Reader' /\ Lines'
      BY <1>2, <2>1, TerminalStays DEF CalmLed, Only, Becomes, Alike
    <2>4. e.frame = "none"
      BY <2>1, <2>2 DEF Plays
    <2>5. Alive(r, at'[p]) /\ Stays(p) /\ r.pending_signals = e.pending_signals
          /\ r.frame = "none"
      BY <2>1, <2>2, <2>4 DEF Alive, Becomes, Alike, Stays, SamePart
    <2>6. (Dead(p) /\ Dead(p)' => Awaits(p)') /\ (~Dead(p) => Awaits(p)')
      BY <2>2, <2>5 DEF Awaits
    <2> QED
      BY <1>2, <1>3, <2>1, <2>3, <2>5, <2>6, OneTurns DEF Only
  <1> QED
    BY <1>4, <1>5

\* The user ends a line.
LEMMA InterruptSession ==
  ASSUME SInv, RInv', AtRest, Interrupt, UNCHANGED <<at, shell_pid, victims>>
  PROVE  SInv'
  <1>1. IInv /\ write_to_keyboard_buffer
    BY DEF SInv, RInv, LifeInv, Interrupt
  <1>2. /\ mode = "user" /\ newline_present' = TRUE
        /\ UNCHANGED <<current_process, next_pid, mode, damage, read_wait>>
    BY <1>1, InterruptTurns
  <1>3. CalmLed /\ ~Lined
    BY <1>2, RestIsCalm
  <1>4. damage' = "none" /\ ~Lined'
    BY <1>2, <1>3 DEF SInv, Lined
  <1>5. CASE processes' = processes
    <2>1. Running' /\ Reader' /\ CalmLed'
      BY <1>2, <1>3, <1>5 DEF SInv, Running, Reader, CalmLed
    <2>2. Lines'
      BY <1>4, <2>1 DEF Lines
    <2> QED
      BY <1>2, <1>4, <1>5, <2>1, <2>2, NoneTurns
  <1>6. CASE processes' # processes
    <2>1. PICK h \in Slots :
            /\ h = Head(read_wait) /\ read_wait # <<>>
            /\ Only(processes, processes', h)
            /\ LET e == processes[h]
               IN  Becomes(e, processes'[h], "READY", e.kernel_mode, e.frame,
                           e.pending_signals, e.signal_handled, e.handlers)
      BY <1>1, <1>6, InterruptTurns
    <2> DEFINE e == processes[h]
               r == processes'[h]
    <2>2. e.frame = "read" /\ Alive(e, at[h]) /\ Awaits(h) /\ e.pid # 0
      <3>1. PICK s \in Slots : processes[s].frame = "read" /\ read_wait = <<s>>
        BY <2>1 DEF SInv, Reader
      <3>2. h = s
        BY <2>1, <3>1
      <3>3. e.pid # 0
        BY <1>1, <3>1, <3>2, Facts DEF Vacant
      <3> QED
        BY <3>1, <3>2, <3>3, Ones
    <2>3. /\ \A s \in Slots : /\ processes'[s].frame = processes[s].frame
                              /\ processes'[s].stack = processes[s].stack
                              /\ processes'[s].signal_handled = processes[s].signal_handled
                              /\ processes'[s].pending_signals = processes[s].pending_signals
      BY <2>1 DEF Only, Becomes, Alike
    <2>4. Running' /\ Reader' /\ CalmLed'
      BY <1>2, <1>3, <2>3 DEF SInv, Running, Reader, CalmLed
    <2>5. Lines'
      BY <1>4, <2>4 DEF Lines
    <2>6. Alive(r, at'[h]) /\ Stays(h)
      BY <2>1, <2>2 DEF Alive, Becomes, Alike, Stays, SamePart
    <2>7. (Dead(h) /\ Dead(h)' => Awaits(h)') /\ (~Dead(h) => Awaits(h)')
      BY <2>2, <2>3 DEF Awaits
    <2> QED
      BY <1>2, <1>4, <2>1, <2>4, <2>5, <2>6, <2>7, OneTurns DEF Only
  <1> QED
    BY <1>5, <1>6

\* A child can die: it has a parent and no children of its own.
LEMMA Mortal ==
  ASSUME SInv, NEW p \in Slots, at[p] \in Children, processes[p].stack = "page"
  PROVE  HungUp(processes, p) = {} /\ KillDamage(processes, p) = "none"
  <1>1. processes[p].children_count = 0 /\ processes[p].parent \in Slots
    BY Leaves, Names DEF SInv, Children
  <1>2. HungUp(processes, p) = {}
    BY <1>1 DEF HungUp
  <1> QED
    BY <1>1, <1>2, Names DEF KillDamage, SInv

\* A child dies, the first of its parent's, and the parent is sent a SIGCHLD.
LEMMA DeathSession ==
  ASSUME SInv, RInv', NEW p \in Slots, at[p] \in Children, processes[p].stack = "page",
         at[p] \in LedAt => ~CalmLed,
         processes' \in Table, NEW q \in Slots \ {p}, processes[p].parent = q,
         Dies(processes[p], processes'[p], processes'[p].kernel_mode),
         Hears(processes[q], processes'[q]),
         processes'[q].pending_signals = Append(processes[q].pending_signals, "SIGCHLD"),
         \A x \in Slots \ {q, p} : processes'[x] = processes[x],
         UNCHANGED <<at, next_pid, damage, tty>>, mode # "kernel", mode' = "switch",
         current_process' \in Slots => at[current_process'] # "none"
  PROVE  SInv'
  <1> DEFINE d == processes[p]
             e == processes[q]
             c == processes'[p]
             r == processes'[q]
  <1>1. /\ Plays(d, at[p]) /\ at[p] \notin Parents /\ d.frame = "none"
        /\ d.pid # 0
    <2>1. at[p] \notin {"read", "await shell", "await command"} /\ at[p] \notin Parents
      BY DEF Children, Parents, LedAt, InitAt, ShellAt
    <2>2. d.pid # 0
      BY Leaves DEF Children
    <2> QED
      BY <2>1, <2>2, Ones DEF Plays
  <1>2. at[q] \in Parents
    BY Leaves, Ones DEF Children, Parents, ShellAt
  <1>3. ~Dead(q)
    <2> SUFFICES ASSUME NEW s \in Slots, at[s] \in Children, processes[s].parent = q,
                        processes[s].stack = "freed"
                 PROVE  FALSE
      BY DEF Dead
    <2>1. s # p
      OBVIOUS
    <2>2. at[s] = "run" <=> at[p] = "run"
      <3>1. at[0] # "await command"
        BY Ones DEF InitAt
      <3>2. \A x \in {p, s} : at[x] \in LedAt \/ at[x] = "run"
        BY DEF Children
      <3>3. \A x \in {p, s} : /\ at[x] \in LedAt => q = 0
                              /\ at[x] = "run" => at[q] = "await command"
        BY Leaves
      <3>4. "run" \notin LedAt
        BY DEF LedAt
      <3> QED
        BY <3>1, <3>2, <3>3, <3>4
    <2> QED
      BY <2>1, <2>2, Ones DEF Children, SInv, Tree
  <1>4. /\ e.pending_signals = <<>> /\ e.stack = "page" /\ e.pid # 0
        /\ e.frame = "wait" => e.pstate = "WAITING_FOR_CHILD_EXIT"
    <2>1. Awaits(q) /\ Alive(e, at[q])
      BY Ones
    <2>2. e.stack = "page"
      BY <1>2, <2>1 DEF Alive
    <2> QED
      BY <1>2, <1>3, <2>1, <2>2, Names DEF Awaits, SInv
  <1>5. r.pending_signals = <<"SIGCHLD">>
    BY <1>4
  <1>6. \A s \in Slots : Stays(s)
    BY DEF Stays, SamePart, Dies, Hears, Becomes, Alike
  <1>7. Dead(q)'
    BY DEF Dead, Dies
  <1>8. Alive(c, at'[p]) /\ Awaits(p)'
    BY <1>1 DEF Alive, Awaits, Dies
  <1>9. Alive(r, at'[q])
    <2>1. Alive(e, at[q])
      BY Ones
    <2>2. at[q] # "run"
      BY <1>2 DEF Parents, InitAt, ShellAt
    <2>3. /\ r.pid = e.pid /\ r.stack = "page" /\ r.kernel_mode = e.kernel_mode
          /\ r.frame = e.frame /\ r.pstate = e.pstate
      BY <1>4 DEF Hears, Becomes, Alike
    <2> QED
      BY <1>4, <1>5, <2>1, <2>2, <2>3 DEF Alive
  <1>10. Awaits(q)'
    BY <1>4, <1>7 DEF Awaits, Hears, Becomes
  <1>11. Reader' /\ Lines'
    <2>1. \A s \in Slots : processes'[s].frame = processes[s].frame
      BY DEF Dies, Hears, Becomes
    <2>2. CalmLed => CalmLed'
      <3> SUFFICES ASSUME CalmLed, NEW s \in Slots, at[s] \in LedAt
                   PROVE  processes'[s] = processes[s]
        BY DEF CalmLed
      <3>1. at[q] \notin LedAt
        BY <1>2 DEF Parents, InitAt, ShellAt, LedAt
      <3>2. at[p] \notin LedAt
        OBVIOUS
      <3> QED
        BY <3>1, <3>2
    <2> QED
      BY <2>1, <2>2, TerminalStays
  <1>12. Running' /\ damage' = "none"
    BY DEF Running, SInv
  <1> DEFINE T == {p, q}
  <1>13. /\ T \in SUBSET Slots
         /\ \A x \in Slots \ T : processes'[x] = processes[x] /\ at'[x] = at[x]
         /\ \A x \in T : Alive(processes'[x], at'[x]) /\ Awaits(x)'
    <2>1. ASSUME NEW x \in T
          PROVE  Alive(processes'[x], at'[x]) /\ Awaits(x)'
      <3>1. x = p \/ x = q
        OBVIOUS
      <3> QED
        BY <1>8, <1>9, <1>10, <3>1
    <2> QED
      BY <2>1
  <1> HIDE DEF T
  <1> QED
    BY <1>6, <1>11, <1>12, <1>13, Turns

\* A command or the LED process ends.
LEMMA OthersSession ==
  ASSUME SInv, RInv', OthersRun
  PROVE  SInv'
  <1>1. PICK p \in Slots : proc1(p) \/ command(p)
    BY DEF OthersRun
  <1>2. UNCHANGED <<shell_pid, victims>> /\ IInv
    BY <1>1 DEF OthersRun, proc1, command, SInv, RInv, LifeInv
  <1>3. /\ Plays(processes[p], at[p]) /\ Alive(processes[p], at[p]) /\ Awaits(p)
    BY Ones
  <1>4. /\ mode = "user" /\ current_process = p /\ processes[p].stack = "page"
        /\ at[p] # "none"
    BY <1>1 DEF proc1, command, sys_signal, sys_exit, isr_usagefault, Exit, InUserMode,
                SInv, Running
  <1>5. CASE at[p] \in Children /\ (sys_exit(p) \/ isr_usagefault(p)) /\ at' = at
             /\ (at[p] \in LedAt => processes[p].signal_handled)
    <2>1. HungUp(processes, p) = {} /\ KillDamage(processes, p) = "none"
      BY <1>4, <1>5, Mortal
    <2>2. PICK q \in Slots \ {p} : q = processes[p].parent
      BY <1>2, <1>5, <2>1, ExitTurns
    <2>3. /\ processes' \in Table
          /\ Dies(processes[p], processes'[p], processes'[p].kernel_mode)
          /\ \A x \in Slots \ {p} : Hears(processes[x], processes'[x])
          /\ processes'[q].pending_signals = Append(processes[q].pending_signals, "SIGCHLD")
          /\ \A x \in Slots \ {q, p} : processes'[x] = processes[x]
          /\ mode' = "switch"
          /\ UNCHANGED <<current_process, next_pid, damage, tty>>
      BY <1>2, <1>5, <2>1, <2>2, ExitTurns
    <2>4. at[p] \in LedAt => ~CalmLed
      BY <1>5 DEF CalmLed
    <2> QED
      BY <1>4, <1>5, <2>2, <2>3, <2>4, DeathSession
  <1>6. CASE command(p)
    BY <1>5, <1>6 DEF command, Children, LedAt
  <1>7. CASE processes[p].signal_handled /\ sys_exit(p) /\ UNCHANGED at
    <2>1. at[p] = "blink"
      BY <1>3, <1>7 DEF Plays
    <2> QED
      BY <1>5, <1>7, <2>1 DEF Children, LedAt
  <1>8. CASE at[p] = "signal" /\ sys_signal(p, "SIGTERM") /\ Goto(p, "blink")
    <2> DEFINE e == processes[p]
               r == processes'[p]
    <2>1. /\ Only(processes, processes', p)
          /\ Becomes(e, r, e.pstate, FALSE, e.frame,
                     e.pending_signals, e.signal_handled, e.handlers \cup {"SIGTERM"})
      BY <1>2, <1>8, SignalTurns, UserlandAssumption
    <2>2. /\ at' = [at EXCEPT ![p] = "blink"] /\ mode' = mode
          /\ UNCHANGED <<current_process, next_pid, damage, tty>>
      BY <1>8 DEF Goto, sys_signal
    <2>3. at'[p] = "blink" /\ \A x \in Slots \ {p} : at'[x] = at[x]
      BY <2>2, Names DEF SInv
    <2>4. e.frame = "none" /\ e.pid # 0
      BY <1>3, <1>4, <1>8, Names DEF Plays, SInv
    <2>5. Stays(p)
      BY <1>8, <2>1, <2>3 DEF Stays, SamePart, LedAt, Becomes, Alike
    <2>6. Alive(r, at'[p])
      <3>1. /\ r.pid = e.pid /\ r.stack = "page" /\ r.kernel_mode = FALSE
            /\ r.frame = "none" /\ r.pstate = e.pstate
            /\ at'[p] \notin Parents /\ at'[p] # "run"
        BY <1>4, <2>1, <2>3, <2>4 DEF Becomes, Alike, Parents, InitAt, ShellAt
      <3> QED
        BY <1>3, <1>4, <2>4, <3>1 DEF Alive
    <2>7. Awaits(p)'
      BY <2>1, <2>3, <2>4 DEF Awaits, Becomes, Parents, InitAt, ShellAt
    <2>8. Running'
      BY <1>4, <2>1, <2>2, <2>3 DEF Running, Becomes, Alike, Parents, InitAt, ShellAt
    <2>9. \A s \in Slots :
            /\ processes'[s].frame = processes[s].frame
            /\ processes'[s].stack = processes[s].stack
            /\ processes'[s].signal_handled = processes[s].signal_handled
            /\ processes'[s].pending_signals = processes[s].pending_signals
            /\ at'[s] \in LedAt <=> at[s] \in LedAt
            /\ at'[s] = "line" <=> at[s] = "line"
      BY <1>8, <2>1, <2>3 DEF Only, Becomes, Alike, LedAt
    <2>10. CalmLed => CalmLed'
      BY <2>9 DEF CalmLed
    <2>11. Reader'
      BY <2>2, <2>9 DEF SInv, Reader, tty
    <2>12. Lines'
      <3>1. Lined' => Lined
        BY <2>9 DEF Lined
      <3> QED
        BY <2>2, <2>10, <3>1 DEF SInv, Lines, tty
    <2>13. damage' = "none"
      BY <2>2 DEF SInv
    <2> QED
      BY <1>4, <2>1, <2>2, <2>3, <2>5, <2>6, <2>7, <2>8, <2>11, <2>12, <2>13,
         OneTurns DEF Only
  <1> QED
    BY <1>1, <1>6, <1>7, <1>8 DEF proc1

\* Where the count of processes is one, there is only init.
LEMMA Alone ==
  ASSUME SInv, processes_count = 1, NEW r \in Slots, processes[r].pid # 0
  PROVE  r = 0
  <1> SUFFICES ASSUME r # 0
               PROVE  FALSE
    OBVIOUS
  <1> DEFINE U == Used(processes)
             P == {0, r}
  <1>1. /\ U \in SUBSET Slots /\ Cardinality(U) <= 1 /\ Cardinality(U) \in Nat
        /\ IsFiniteSet(U)
    <2>1. U \in SUBSET Slots /\ processes_count >= Cardinality(U)
      BY DEF SInv, RInv, LifeInv, IInv, Used
    <2> QED
      BY <2>1, FiniteSlots
  <1>2. P \subseteq U
    BY Names DEF Used, SInv, PID_INIT
  <1>3. Cardinality(P) = 2
    <2>1. IsFiniteSet({0}) /\ Cardinality({0}) = 1
      BY FS_Singleton
    <2>2. Cardinality({0} \cup {r}) = 2 /\ P = {0} \cup {r}
      BY <2>1, FS_AddElement
    <2> QED
      BY <2>2
  <1>4. Cardinality(P) <= Cardinality(U)
    BY <1>1, <1>2, FS_Subset
  <1> QED
    BY <1>1, <1>3, <1>4

\* The scheduler chooses a live program, and one in wait only for a signal.
LEMMA Chosen ==
  ASSUME SInv, NEW s \in Slots, s = scheduler_get_next_process
  PROVE  /\ processes[s].stack = "page" /\ at[s] # "none"
         /\ Runnable(s) \/ processes[s].frame = "none"
  <1>1. Alive(processes[s], at[s]) /\ Plays(processes[s], at[s]) /\ s # Idle
        /\ (at[s] = "none" <=> processes[s].pid = 0)
    BY Ones, Constants DEF SInv, Tree, Branch
  <1>2. CASE processes_count = 1
    <2>1. s = current_process
      BY <1>2 DEF scheduler_get_next_process
    <2>2. processes[s].pid # 0
      BY <1>1, <2>1 DEF SInv, Running
    <2>3. s = 0
      BY <1>2, <2>2, Alone
    <2>4. at[0] # "await shell"
      <3> SUFFICES ASSUME NEW r \in Slots, at[r] \in ShellAt
                   PROVE  FALSE
        BY DEF SInv, Boot
      <3>1. at[r] # "none" /\ at[r] \notin InitAt
        BY DEF ShellAt, InitAt
      <3>2. processes[r].pid # 0
        BY <3>1 DEF SInv, Tree, Branch
      <3> QED
        BY <1>2, <3>1, <3>2, Alone, Ones
    <2>5. at[0] \in {"spawn LED", "spawn shell"}
      BY <2>4, Ones DEF InitAt
    <2> QED
      BY <1>1, <2>3, <2>5 DEF Plays, Alive, Parents, InitAt
  <1>3. CASE processes_count # 1
    <2>1. Runnable(s)
      <3>1. NextRunnable # {} /\ s = After(CHOOSE n \in NextRunnable :
                                            \A m \in NextRunnable : n <= m)
        BY <1>1, <1>3 DEF scheduler_get_next_process
      <3>2. NextRunnable \in SUBSET Nat
        BY Constants DEF NextRunnable
      <3>3. PICK n \in NextRunnable : s = After(n)
        <4>1. \E n \in NextRunnable : \A m \in NextRunnable : n <= m
          BY <3>1, <3>2, Least
        <4> QED
          BY <3>1, <4>1
      <3> QED
        BY <3>3 DEF NextRunnable
    <2>2. processes[s].pid # 0
      BY <1>1, <2>1, BlankEntry DEF Alive, Runnable
    <2>3. processes[s].stack # "freed"
      BY <1>1, <2>1 DEF Alive, Runnable
    <2> QED
      BY <1>1, <2>1, <2>2, <2>3, Names DEF SInv, Process
  <1> QED
    BY <1>2, <1>3

\* It is not killed, unless it is the LED process, and nothing is read that was
\* not saved.
LEMMA NoHarm ==
  ASSUME SInv, NEW s \in Slots, processes[s].stack = "page", at[s] # "none"
  PROVE  /\ ResumeDamage(s) = "none"
         /\ /\ processes[s].pending_signals # <<>>
            /\ Head(processes[s].pending_signals) # "SIGCHLD"
            => at[s] \in LedAt
  <1> DEFINE e   == processes[s]
             sig == Head(e.pending_signals)
  <1>1. Alive(e, at[s]) /\ Plays(e, at[s]) /\ at[s] \in Places
    BY Ones, Names
  <1>2. at[s] \in LedAt \/ at[s] \in Parents \/ at[s] = "run"
    BY <1>1 DEF Places, Parents
  <1>3. e.pending_signals # <<>> /\ sig # "SIGCHLD" => at[s] \in LedAt
    BY <1>1, <1>2 DEF Alive
  <1>4. e.pending_signals # <<>> /\ Terminates(s, sig) => KillDamage(processes, s) = "none"
    BY <1>3, Mortal DEF Terminates, Children
  <1>5. e.kernel_mode \/ e.pstate = "WAITING_FOR_CHILD_EXIT" => e.frame # "none"
    BY <1>1 DEF Alive
  <1> HIDE DEF e, sig
  <1>6. ResumeDamage(s) = "none"
    BY <1>4, <1>5 DEF ResumeDamage, e, sig
  <1> QED
    BY <1>3, <1>6 DEF e, sig

\* What is left of the queue of a program that is calm, or has one signal.
LEMMA ShortQueues ==
  Rest(<<>>) = <<>> /\ Rest(<<"SIGCHLD">>) = <<>>
  BY DEF Rest

\* The program that is chosen goes on.
LEMMA GoesOn ==
  ASSUME SInv, RInv', NEW s \in Slots, mode = "switch",
         processes[s].stack = "page", at[s] # "none",
         Runnable(s) \/ processes[s].frame = "none",
         Only(processes, processes', s), Resumes(processes[s], processes'[s], mode'),
         current_process' = s, UNCHANGED <<at, next_pid, damage, tty>>
  PROVE  SInv'
  <1> DEFINE e == processes[s]
             r == processes'[s]
  <1>1. /\ Alive(e, at[s]) /\ Plays(e, at[s]) /\ Awaits(s) /\ e.pid # 0
    BY Ones, Names DEF SInv
  <1>2. /\ Alike(e, r) /\ r.kernel_mode = e.kernel_mode /\ r.frame = e.frame
        /\ r.pstate \in {"RUNNING", "READY", e.pstate}
        /\ r.pending_signals = Rest(e.pending_signals) \/ e.signal_handled
    BY DEF Resumes, Becomes
  <1>3. /\ at[s] # "blink" => ~e.signal_handled /\ e.handlers = {}
        /\ e.frame # "none" => at[s] # "blink" /\ e.kernel_mode
    BY <1>1 DEF Plays
  <1>4. at[s] \in Parents \/ at[s] = "run" => r.pending_signals = <<>>
    <2> SUFFICES ASSUME at[s] \in Parents \/ at[s] = "run"
                 PROVE  r.pending_signals = <<>>
      OBVIOUS
    <2>1. ~e.signal_handled
      BY <1>3 DEF Parents, InitAt, ShellAt
    <2>2. e.pending_signals \in {<<>>, <<"SIGCHLD">>}
      BY <1>1 DEF Alive
    <2> QED
      BY <1>2, <2>1, <2>2, ShortQueues
  <1>5. e.frame # "none" => r.pstate \in {e.pstate, "READY"}
    BY <1>3 DEF Resumes, Becomes
  <1>6. Alive(r, at'[s])
    BY <1>1, <1>2, <1>4, <1>5 DEF Alive, Alike
  <1>7. e.frame = "wait" => mode' = "kernel" /\ Dead(s)
    <2> SUFFICES ASSUME e.frame = "wait"
                 PROVE  mode' = "kernel" /\ Dead(s)
      OBVIOUS
    <2>1. /\ at[s] \in Parents /\ e.pstate = "WAITING_FOR_CHILD_EXIT"
          /\ e.kernel_mode /\ ~e.signal_handled /\ e.handlers = {}
      BY <1>1, <1>3 DEF Plays, Awaits, Parents, InitAt, ShellAt
    <2>2. e.pending_signals # <<>>
      BY <2>1 DEF Runnable
    <2>3. e.pending_signals = <<"SIGCHLD">>
      BY <1>1, <2>1, <2>2 DEF Alive
    <2>4. Head(e.pending_signals) = "SIGCHLD"
      BY <2>3
    <2>5. Dead(s)
      BY <1>1, <2>1, <2>2 DEF Awaits
    <2> QED
      BY <2>1, <2>2, <2>4, <2>5 DEF Resumes
  <1>8. (Dead(s) /\ Dead(s)' => Awaits(s)') /\ (~Dead(s) => Awaits(s)')
    <2>1. r.frame = e.frame /\ (at'[s] \in Parents => r.pending_signals = <<>>)
      BY <1>2, <1>4
    <2> QED
      BY <1>7, <2>1 DEF Awaits
  <1>9. Running'
    BY <1>2, <1>4 DEF Running, Alike
  <1>10. CalmLed => CalmLed'
    <2> SUFFICES ASSUME CalmLed
                 PROVE  CalmLed'
      OBVIOUS
    <2>1. at[s] \in LedAt => /\ r.stack = "page" /\ r.pending_signals = <<>>
                             /\ ~r.signal_handled
      <3> SUFFICES ASSUME at[s] \in LedAt
                   PROVE  /\ r.stack = "page" /\ r.pending_signals = <<>>
                          /\ ~r.signal_handled
        OBVIOUS
      <3>1. e.pending_signals = <<>> /\ ~e.signal_handled
        BY DEF CalmLed
      <3>2. r.signal_handled = e.signal_handled
        BY <3>1 DEF Resumes, Becomes
      <3> QED
        BY <1>2, <3>1, <3>2, ShortQueues DEF Alike
    <2> QED
      BY <2>1 DEF CalmLed, Only
  <1>11. Reader' /\ Lines'
    BY <1>2, <1>10, TerminalStays DEF Only
  <1>12. damage' = "none" /\ Stays(s)
    BY <1>2 DEF SInv, Stays, SamePart, Alike
  <1> QED
    BY <1>6, <1>8, <1>9, <1>11, <1>12, OneTurns DEF Only

\* The switch.
LEMMA SwitchSession ==
  ASSUME SInv, RInv', ContextSwitch, UNCHANGED <<at, shell_pid, victims>>
  PROVE  SInv'
  <1>1. IInv /\ context_switch /\ mode = "switch"
    BY DEF SInv, RInv, LifeInv, ContextSwitch, context_switch
  <1>2. CASE scheduler_get_next_process = Idle
    <2>1. /\ current_process' = Idle /\ mode' = "user"
          /\ UNCHANGED <<processes, next_pid, damage, tty>>
      BY <1>1, <1>2 DEF context_switch
    <2>2. damage' = "none" /\ Running'
      BY <2>1, Constants DEF SInv, Running
    <2>3. Reader' /\ Lines'
      BY <2>1, TerminalStays DEF CalmLed
    <2> QED
      BY <1>1, <2>1, <2>2, <2>3, NoneTurns
  <1>3. CASE scheduler_get_next_process # Idle
    <2>1. PICK s \in Slots : s = scheduler_get_next_process
      BY <1>1, <1>3, Facts, NextSlot
    <2>2. /\ processes[s].stack = "page" /\ at[s] # "none"
          /\ Runnable(s) \/ processes[s].frame = "none"
      BY <2>1, Chosen
    <2>3. ResumeDamage(s) = "none"
      BY <2>2, NoHarm
    <2>4. /\ current_process' = s /\ Resume(s)
          /\ UNCHANGED <<at, next_pid, damage, tty>>
      BY <1>1, <1>3, <2>1, <2>3 DEF context_switch
    <2>5. CASE Only(processes, processes', s) /\ Resumes(processes[s], processes'[s], mode')
      BY <1>1, <2>2, <2>4, <2>5, GoesOn
    <2>6. CASE ~(Only(processes, processes', s)
                 /\ Resumes(processes[s], processes'[s], mode'))
      <3> DEFINE e == processes[s]
      <3>1. /\ e.pending_signals # <<>> /\ Terminates(s, Head(e.pending_signals))
            /\ mode' = "switch" /\ processes' \in Table
            /\ Dies(e, processes'[s], e.kernel_mode)
            /\ \A x \in Slots \ {s} : Hears(processes[x], processes'[x])
        BY <1>1, <2>3, <2>4, <2>6, ResumeTurns
      <3>2. at[s] \in LedAt /\ at[s] \in Children
        BY <2>2, <3>1, NoHarm DEF Terminates, Children
      <3>3. HungUp(processes, s) = {}
        BY <2>2, <3>2, Mortal
      <3>4. PICK q \in Slots \ {s} :
              /\ q = e.parent
              /\ processes'[q].pending_signals =
                   Append(processes[q].pending_signals, "SIGCHLD")
              /\ \A x \in Slots \ {q, s} : processes'[x] = processes[x]
        BY <1>1, <2>3, <2>4, <2>6, <3>3, ResumeTurns
      <3>5. ~CalmLed
        BY <3>1, <3>2 DEF CalmLed
      <3>6. Dies(e, processes'[s], processes'[s].kernel_mode)
        BY <3>1 DEF Dies
      <3> QED
        BY <1>1, <2>2, <2>4, <3>1, <3>2, <3>4, <3>5, <3>6, DeathSession
    <2> QED
      BY <2>5, <2>6
  <1> QED
    BY <1>2, <1>3

-----------------------------------------------------------------------------
(* What init and the shell do in such a session                            *)

\* A program in user mode has nothing blocked, and a parent no signal.
LEMMA UserProgram ==
  ASSUME SInv, NEW p \in Slots, InUserMode(p), at[p] \in Parents
  PROVE  /\ mode = "user" /\ current_process = p
         /\ processes[p].stack = "page" /\ processes[p].pid # 0
         /\ processes[p].frame = "none" /\ processes[p].pending_signals = <<>>
         /\ Alive(processes[p], at[p])
         /\ processes[p].pstate \in {"RUNNING", "READY"}
  <1>1. mode = "user" /\ current_process = p
    BY DEF InUserMode
  <1>2. processes[p].stack = "page" /\ processes[p].pending_signals = <<>>
    BY <1>1 DEF SInv, Running
  <1>3. processes[p].frame = "none" /\ Alive(processes[p], at[p])
    BY Unblocked, Ones DEF SInv
  <1> QED
    BY <1>1, <1>2, <1>3, Names DEF SInv, Alive

\* The shell takes a line.
LEMMA TakesLine ==
  ASSUME SInv, RInv', NEW p \in Slots, at[p] = "read", newline_present,
         current_process = p, processes[p].stack = "page",
         processes[p].pending_signals = <<>>, processes[p].pid # 0,
         NEW t \in Table, \A x \in Slots \ {p} : t[x] = processes[x],
         Alike(processes[p], t[p]), t[p].pending_signals = <<>>,
         LineRead(t, p, <<p>>), Reads(p)
  PROVE  SInv'
  <1> DEFINE e == processes[p]
             r == processes'[p]
             queue == <<p>>
  <1>1. queue \in Seq(Slots) /\ queue # <<>> /\ Head(queue) = p /\ Tail(queue) = <<>>
        /\ t[p].stack = "page"
    BY DEF Alike
  <1> HIDE DEF queue
  <1>2. /\ processes' \in Table
        /\ \A x \in Slots \ {p} : processes'[x] = processes[x]
        /\ Becomes(t[p], r, "READY", FALSE, "none", <<>>, t[p].signal_handled,
                   t[p].handlers)
        /\ mode' = "user" /\ read_wait' = <<>> /\ newline_present' = FALSE
        /\ UNCHANGED <<current_process, next_pid, damage>>
    <2>1. LineRead(t, p, queue)
      BY DEF queue
    <2>2. LET h == Head(queue)
          IN  /\ h \in Slots /\ processes' \in Table
              /\ \A x \in Slots \ {p, h} : processes'[x] = t[x]
              /\ \A x \in Slots :
                   LET f == t[x]
                   IN  Becomes(f, processes'[x],
                               IF x = h THEN "READY" ELSE f.pstate,
                               IF x = p THEN FALSE ELSE f.kernel_mode,
                               IF x = p THEN "none" ELSE f.frame,
                               f.pending_signals, f.signal_handled, f.handlers)
              /\ mode' = "user" /\ read_wait' = Tail(queue) /\ newline_present' = FALSE
              /\ UNCHANGED <<current_process, next_pid, damage>>
      BY <1>1, <2>1, LineReadTurns
    <2> QED
      BY <1>1, <2>2
  <1>3. /\ Alike(e, r) /\ r.kernel_mode = FALSE /\ r.frame = "none" /\ r.stack = "page"
        /\ r.pstate = "READY" /\ r.pending_signals = <<>>
    BY <1>2 DEF Becomes, Alike
  <1>4. at' = [at EXCEPT ![p] = "line"]
    BY <1>2 DEF Reads, Goto
  <1>5. at'[p] = "line" /\ \A x \in Slots \ {p} : at'[x] = at[x]
    BY <1>4, Names DEF SInv
  <1>6. Stays(p) /\ Alive(r, at'[p])
    BY <1>3, <1>5 DEF Stays, SamePart, Alike, Alive
  <1>7. Awaits(p)'
    BY <1>3 DEF Awaits
  <1>8. Running' /\ Reader' /\ damage' = "none"
    BY <1>2, <1>3, <1>5 DEF Running, Reader, SInv
  <1>9. Lines'
    <2>1. CalmLed
      BY DEF SInv, Lines
    <2>2. CalmLed'
      BY <1>2, <1>5, <2>1 DEF CalmLed, LedAt
    <2> QED
      BY <1>2, <2>2 DEF Lines
  <1> QED
    BY <1>2, <1>5, <1>6, <1>7, <1>8, <1>9, OneTurns

\* A read, or the end of one.
LEMMA ReadSession ==
  ASSUME SInv, RInv', NEW p \in Slots, Reads(p),
         \/ at[p] = "read" /\ tty_read(p)
         \/ read_resumed /\ p = current_process
  PROVE  SInv'
  <1>1. /\ IInv /\ processes \in Table /\ processes[p] \in Process
        /\ read_wait \in Seq(Slots)
        /\ Plays(processes[p], at[p]) /\ Alive(processes[p], at[p])
    BY Facts, Ones DEF SInv, RInv, LifeInv, ScalarsOK
  <1>2. ASSUME NEW s \in Slots, processes[s].frame = "read", at[p] = "read"
        PROVE  s = p
    <2>1. at[s] = "read"
      BY <1>2, Ones DEF Plays
    <2> QED
      BY <1>2, <2>1, Ones DEF ShellAt
  <1>3. CASE read_resumed /\ p = current_process
    <2>1. processes[p].frame = "read" /\ at[p] = "read" /\ mode = "kernel"
      BY <1>1, <1>3 DEF read_resumed, Plays
    <2>2. /\ processes[p].stack = "page" /\ processes[p].pending_signals = <<>>
          /\ processes[p].pid # 0
      BY <1>3, <2>1, Names DEF SInv, Running, Parents, ShellAt
    <2>3. CASE newline_present
      <3>1. read_wait = <<p>>
        BY <1>1, <1>2, <2>1, QueueNotEmpty DEF SInv, Reader
      <3>2. LineRead(processes, p, <<p>>)
        BY <1>3, <2>3, <3>1 DEF read_resumed
      <3> QED
        BY <1>1, <1>3, <2>1, <2>2, <2>3, <3>2, TakesLine DEF Alike
    <2>4. CASE ~newline_present
      <3>1. /\ processes' = processes /\ at' = at /\ mode' = "switch"
            /\ UNCHANGED <<current_process, next_pid, damage, tty>>
        BY <1>3, <2>4 DEF read_resumed, Reads
      <3>2. Running' /\ damage' = "none"
        BY <3>1 DEF SInv, Running
      <3>3. Reader' /\ Lines'
        BY <3>1, TerminalStays DEF CalmLed
      <3>4. Stays(p) /\ Alive(processes'[p], at'[p])
        BY <1>1, <3>1 DEF Stays, SamePart
      <3>5. Awaits(p)'
        BY <2>1, <2>2, <3>1 DEF Awaits
      <3> QED
        BY <1>1, <1>3, <3>1, <3>2, <3>3, <3>4, <3>5, OneTurns
    <2> QED
      BY <2>3, <2>4
  <1>4. CASE at[p] = "read" /\ tty_read(p)
    <2> DEFINE t     == Blocking(processes, p, "read", "WAITING_FOR_RESOURCE")
               queue == Append(read_wait, p)
               e     == processes[p]
    <2>1. /\ mode = "user" /\ current_process = p /\ e.stack = "page" /\ e.pid # 0
          /\ e.frame = "none" /\ e.pending_signals = <<>>
      BY <1>4, UserProgram DEF tty_read, Parents, ShellAt
    <2>2. /\ Only(processes, t, p)
          /\ Becomes(e, t[p], "WAITING_FOR_RESOURCE", TRUE, "read",
                     e.pending_signals, e.signal_handled, e.handlers)
      BY <1>1, BlockingTurns
    <2>3. read_wait = <<>>
      BY <1>2, <1>4, <2>1 DEF SInv, Reader
    <2>4. queue = <<p>>
      BY <2>3
    <2>5. CASE newline_present
      <3>1. LineRead(t, p, <<p>>)
        BY <1>4, <2>4, <2>5 DEF tty_read
      <3> HIDE DEF t, queue
      <3> QED
        BY <1>4, <2>1, <2>2, <2>5, <3>1, TakesLine DEF Only, Becomes
    <2>6. CASE ~newline_present
      <3> DEFINE r == processes'[p]
      <3>1. /\ processes' = t /\ read_wait' = <<p>> /\ mode' = "switch"
            /\ UNCHANGED <<current_process, next_pid, damage, newline_present>>
        BY <1>4, <2>4, <2>6 DEF tty_read
      <3>2. at' = at
        BY <2>6 DEF Reads
      <3> HIDE DEF t, queue
      <3>3. /\ Alike(e, r) /\ r.kernel_mode = TRUE /\ r.frame = "read" /\ r.stack = "page"
            /\ r.pstate = "WAITING_FOR_RESOURCE" /\ r.pending_signals = <<>>
        BY <2>1, <2>2, <3>1 DEF Becomes, Alike
      <3>4. Stays(p) /\ Alive(r, at'[p])
        BY <2>1, <3>2, <3>3 DEF Stays, SamePart, Alike, Alive
      <3>5. Awaits(p)'
        BY <3>3 DEF Awaits
      <3>6. Running' /\ Reader' /\ damage' = "none"
        BY <3>1, <3>2, <3>3 DEF SInv, Running, Reader
      <3>7. Lines'
        <4>1. CalmLed => CalmLed'
          BY <1>4, <2>2, <3>1, <3>2 DEF CalmLed, LedAt, Only
        <4>2. Lined' = Lined
          BY <3>2 DEF Lined
        <4> QED
          BY <3>1, <4>1, <4>2 DEF SInv, Lines
      <3> QED
        BY <2>1, <2>2, <3>1, <3>2, <3>4, <3>5, <3>6, <3>7, OneTurns DEF Only
    <2> QED
      BY <2>5, <2>6
  <1> QED
    BY <1>3, <1>4

\* The shell is at its prompt again.
LEMMA PromptSession ==
  ASSUME SInv, NEW p \in Slots, at[p] = "line", Goto(p, "read"),
         newline_present' = newline_present
  PROVE  /\ at'[p] = "read" /\ \A x \in Slots \ {p} : at'[x] = at[x]
         /\ Lines'
  <1>1. at'[p] = "read" /\ \A x \in Slots \ {p} : at'[x] = at[x]
    BY Names DEF SInv, Goto
  <1>2. Lined /\ ~newline_present
    BY DEF SInv, Lines, Lined
  <1>3. ~Lined'
    BY <1>1, Ones DEF Lined, ShellAt
  <1> QED
    BY <1>1, <1>2, <1>3 DEF Lines

\* A builtin.
LEMMA BuiltinSession ==
  ASSUME SInv, RInv', NEW p \in Slots, builtin(p)
  PROVE  SInv'
  <1>1. /\ at[p] = "line" /\ Goto(p, "read") /\ InUserMode(p) /\ processes' = processes
        /\ processes \in Table
        /\ UNCHANGED <<current_process, next_pid, damage, mode, read_wait, newline_present>>
    BY Names DEF SInv, builtin, vars, tty
  <1>2. /\ processes[p].frame = "none" /\ processes[p].pending_signals = <<>>
        /\ Alive(processes[p], at[p]) /\ processes[p].stack = "page" /\ mode = "user"
        /\ current_process = p
    BY <1>1, UserProgram DEF Parents, ShellAt
  <1>3. at'[p] = "read" /\ (\A x \in Slots \ {p} : at'[x] = at[x]) /\ Lines'
    BY <1>1, PromptSession
  <1>4. Stays(p) /\ Alive(processes'[p], at'[p])
    BY <1>1, <1>2, <1>3 DEF Stays, SamePart, Alive, Parents, ShellAt
  <1>5. Awaits(p)'
    BY <1>1, <1>2 DEF Awaits
  <1>6. Running' /\ Reader' /\ damage' = "none"
    BY <1>1, <1>2, <1>3 DEF SInv, Running, Reader
  <1> QED
    BY <1>1, <1>2, <1>3, <1>4, <1>5, <1>6, OneTurns

\* kill of the LED process.
LEMMA KillSession ==
  ASSUME SInv, RInv', NEW p \in Slots, perform_kill(p), victims \subseteq {"LED"}
  PROVE  SInv'
  <1>1. at[p] = "line" /\ Goto(p, "read") /\ sys_kill_term(p, LED_pid)
    BY DEF perform_kill, Victim
  <1>2. PICK s \in Slots : s = ByPid(LED_pid) /\ processes[s].pid = LED_pid
    <2>1. WithPid(LED_pid) # {}
      BY <1>1 DEF sys_kill_term, ByPid
    <2>2. WithPid(LED_pid) \in SUBSET Nat
      BY Constants DEF WithPid
    <2>3. ByPid(LED_pid) \in WithPid(LED_pid)
      <3>1. \E s \in WithPid(LED_pid) : \A x \in WithPid(LED_pid) : s <= x
        BY <2>1, <2>2, Least
      <3> QED
        BY <2>1, <3>1 DEF ByPid
    <2> QED
      BY <2>3 DEF WithPid
  <1>3. at[s] \in LedAt
    <2>1. processes[s].pid = 2 /\ LED_pid = 2 /\ processes[0].pid = 1
      BY <1>2, Names DEF LED_pid, PID_INIT, SInv
    <2>2. Branch(s) /\ at[s] \in Places /\ (at[s] \in InitAt <=> s = 0)
      BY Ones, Names DEF SInv, Tree
    <2>3. at[s] \notin ShellAt /\ at[s] \notin {"none", "run"} /\ at[s] \notin InitAt
      BY <2>1, <2>2 DEF Branch
    <2> QED
      BY <2>2, <2>3 DEF Places
  <1>4. /\ processes[p].frame = "none" /\ processes[p].pending_signals = <<>>
        /\ Alive(processes[p], at[p]) /\ processes[p].stack = "page" /\ mode = "user"
        /\ current_process = p
    BY <1>1, UserProgram DEF Parents, ShellAt, sys_kill_term
  <1>5. /\ mode' = mode /\ newline_present' = newline_present
        /\ UNCHANGED <<current_process, next_pid, damage, read_wait>>
    BY <1>1 DEF sys_kill_term, tty
  <1>6. at'[p] = "read" /\ (\A x \in Slots \ {p} : at'[x] = at[x]) /\ Lines'
    BY <1>1, <1>5, PromptSession
  <1>7. p # s
    BY <1>1, <1>3 DEF LedAt
  <1>8. LED_pid \in Killable
    <2>1. processes[s].pid \in 0 .. MaxPid
      BY Names, Entry DEF SInv
    <2> QED
      BY <1>2, <2>1, UserlandAssumption
  <1>9. /\ processes' \in Table
        /\ \A x \in Slots \ {p, s} : processes'[x] = processes[x]
        /\ \A x \in Slots :
             LET f == processes[x]
                 r == processes'[x]
             IN  Becomes(f, r, f.pstate, IF x = p THEN FALSE ELSE f.kernel_mode,
                         f.frame, r.pending_signals, f.signal_handled, f.handlers)
        /\ processes'[p].pending_signals = <<>>
    <2>1. IInv
      BY DEF SInv, RInv, LifeInv
    <2> QED
      BY <1>1, <1>2, <1>4, <1>7, <1>8, <2>1, TermTurns
  <1>10. \A x \in Slots : Stays(x)
    BY <1>1, <1>6, <1>9 DEF Stays, SamePart, Becomes, Alike
  <1>11. Alive(processes'[p], at'[p]) /\ Awaits(p)'
    <2>1. /\ processes'[p].pid = processes[p].pid /\ processes'[p].stack = "page"
          /\ processes'[p].kernel_mode = FALSE /\ processes'[p].frame = "none"
          /\ processes'[p].pstate = processes[p].pstate
      BY <1>4, <1>9 DEF Becomes, Alike
    <2>2. Alive(processes'[p], at'[p])
      BY <1>4, <1>6, <1>9, <2>1, Names DEF Alive, SInv
    <2> QED
      BY <1>9, <2>1, <2>2 DEF Awaits
  <1>12. Alive(processes'[s], at'[s]) /\ Awaits(s)'
    <2> DEFINE e == processes[s]
               r == processes'[s]
    <2>1. e.stack = "page" /\ Alive(e, at[s]) /\ Plays(e, at[s]) /\ e.pid # 0
      <3>1. CalmLed
        BY <1>1 DEF SInv, Lines, Lined
      <3> QED
        BY <1>3, <3>1, Ones, Leaves DEF CalmLed
    <2>2. at'[s] \notin Parents /\ at'[s] # "run" /\ at'[s] = at[s]
      BY <1>3, <1>6, <1>7 DEF LedAt, Parents, InitAt, ShellAt
    <2>3. e.frame = "none"
      BY <1>3, <2>1 DEF Plays, LedAt
    <2>4. /\ r.pid = e.pid /\ r.stack = "page" /\ r.kernel_mode = e.kernel_mode
          /\ r.frame = "none" /\ r.pstate = e.pstate
      BY <1>7, <1>9, <2>1, <2>3 DEF Becomes, Alike
    <2>5. Alive(r, at'[s])
      BY <2>1, <2>2, <2>3, <2>4 DEF Alive
    <2> QED
      BY <2>2, <2>4, <2>5 DEF Awaits
  <1>13. Running' /\ Reader' /\ damage' = "none"
    <2>1. \A x \in Slots : processes'[x].frame = processes[x].frame
                           /\ processes'[x].stack = processes[x].stack
      BY <1>9 DEF Becomes, Alike
    <2> QED
      BY <1>4, <1>5, <1>6, <1>9, <2>1 DEF SInv, Running, Reader
  <1> DEFINE T == {p, s}
  <1>14. /\ T \in SUBSET Slots
         /\ \A x \in Slots \ T : processes'[x] = processes[x] /\ at'[x] = at[x]
         /\ \A x \in T : Alive(processes'[x], at'[x]) /\ Awaits(x)'
    <2>1. ASSUME NEW x \in T
          PROVE  Alive(processes'[x], at'[x]) /\ Awaits(x)'
      <3>1. x = p \/ x = s
        OBVIOUS
      <3> QED
        BY <1>11, <1>12, <3>1
    <2> QED
      BY <1>6, <1>9, <2>1
  <1> HIDE DEF T
  <1> QED
    BY <1>4, <1>5, <1>6, <1>10, <1>13, <1>14, Turns

\* A child stays in the table of its parent p, where the children of p stay.
LEMMA ChildStays ==
  ASSUME NEW s \in Slots, NEW q \in Slots, Child(s, q),
         \/ processes'[q] = processes[q]
         \/ \E c \in Slots \cup {Null} : c # s /\ Cared(processes, processes', q, c)
  PROVE  \E i \in Taken(processes', q) : processes'[q].children[i] = s
  <1>1. PICK i \in Taken(processes, q) : processes[q].children[i] = s
    BY DEF Child
  <1>2. CASE processes'[q] = processes[q]
    BY <1>1, <1>2 DEF Taken, Indices
  <1>3. CASE \E c \in Slots \cup {Null} : c # s /\ Cared(processes, processes', q, c)
    BY <1>1, <1>3 DEF Cared
  <1> QED
    BY <1>2, <1>3

\* wait blocks.
LEMMA SleepSession ==
  ASSUME SInv, RInv', NEW p \in Slots, sys_wait(p), Waits(p), Zombies(p) = {},
         at[p] \in {"await shell", "await command"}
  PROVE  SInv'
  <1> DEFINE e == processes[p]
             r == processes'[p]
  <1>1. /\ mode = "user" /\ current_process = p /\ e.stack = "page" /\ e.pid # 0
        /\ e.frame = "none" /\ e.pending_signals = <<>> /\ processes \in Table
    BY UserProgram, Names DEF sys_wait, Parents, InitAt, ShellAt, SInv
  <1>2. /\ Only(processes, processes', p)
        /\ Becomes(e, r, "WAITING_FOR_CHILD_EXIT", TRUE, "wait",
                   e.pending_signals, e.signal_handled, e.handlers)
    BY <1>1, BlockingTurns DEF sys_wait
  <1>3. mode' = "switch" /\ UNCHANGED <<current_process, next_pid, damage, tty>>
    BY DEF sys_wait
  <1>4. at' = at
    <2>1. Evaporating = {}
      BY <1>2 DEF Evaporating, Only, Becomes, Alike
    <2> QED
      BY <2>1 DEF Waits
  <1>5. /\ Alike(e, r) /\ r.kernel_mode = TRUE /\ r.frame = "wait" /\ r.stack = "page"
        /\ r.pstate = "WAITING_FOR_CHILD_EXIT" /\ r.pending_signals = <<>>
    BY <1>1, <1>2 DEF Becomes, Alike
  <1>6. Stays(p) /\ Alive(r, at'[p])
    BY <1>1, <1>4, <1>5 DEF Stays, SamePart, Alike, Alive
  <1>7. Awaits(p)'
    BY <1>3, <1>5 DEF Awaits
  <1>8. Running' /\ damage' = "none"
    BY <1>3, <1>4 DEF SInv, Running
  <1>9. Reader'
    BY <1>1, <1>2, <1>3 DEF SInv, Reader, Only, tty
  <1>10. Lines'
    <2>1. CalmLed => CalmLed'
      BY <1>2, <1>4 DEF CalmLed, LedAt, Only
    <2>2. Lined' = Lined
      BY <1>4 DEF Lined
    <2> QED
      BY <1>3, <2>1, <2>2 DEF SInv, Lines, tty
  <1> QED
    BY <1>1, <1>2, <1>3, <1>4, <1>6, <1>7, <1>8, <1>9, <1>10, OneTurns DEF Only

\* init tells the shell from the LED process by its pid.
LEMMA ShellIsNotLed ==
  ASSUME SInv, NEW s \in Slots, at[s] \in ShellAt
  PROVE  shell_pid # LED_pid
  <1>1. processes[s].pid = shell_pid
    BY Ones
  <1>2. Branch(s) /\ LED_pid = 2
    BY DEF SInv, Tree, LED_pid, PID_INIT
  <1>3. processes[s].pid > LED_pid
    BY <1>2 DEF Branch
  <1>4. processes[s].pid \in Int
    BY Names, Entry DEF SInv
  <1> QED
    BY <1>1, <1>2, <1>3, <1>4

\* init waits for the LED process, or it is the shell that has waited for its command.
LEMMA WaitedFor ==
  ASSUME SInv, NEW p \in Slots, at[p] \in {"await shell", "await command"},
         NEW c \in Slots, Buried(p, c)
  PROVE  /\ AfterWait(p, processes[c].pid) =
              IF at[p] = "await shell" THEN "await shell" ELSE "read"
         /\ at[p] = "await shell" => at[c] \in LedAt
         /\ at[p] = "await command" => at[c] = "run"
         /\ at[0] = "await shell"
  <1>1. processes[c].pid # 0 /\ processes[c].parent = p /\ processes[c].stack = "freed"
    <2>1. processes[c].pstate = "TERMINATED"
      BY DEF Buried
    <2> QED
      BY <2>1 DEF Buried, SInv, RInv, LifeInv, DeadFreed
  <1>2. at[c] \in Children
    <2>1. at[c] \in Places /\ at[c] \notin Parents /\ at[c] # "none"
      BY <1>1, Ones, Names DEF Alive, SInv, Tree, Branch
    <2> QED
      BY <2>1 DEF Places, Parents, Children
  <1>3. CASE at[p] = "await shell"
    <2>1. p = 0
      BY <1>3, Ones DEF InitAt
    <2>2. at[c] \in LedAt /\ processes[c].pid = LED_pid
      BY <1>1, <1>2, <1>3, Leaves DEF Children
    <2>3. shell_pid # LED_pid
      <3>1. PICK s \in Slots : at[s] \in ShellAt
        BY <1>3, <2>1 DEF SInv, Boot
      <3> QED
        BY <3>1, ShellIsNotLed
    <2> QED
      BY <1>3, <2>1, <2>2, <2>3 DEF AfterWait
  <1>4. CASE at[p] = "await command"
    <2>1. p # 0 /\ at[0] = "await shell"
      BY <1>4, Ones DEF InitAt, ShellAt
    <2>2. at[c] \notin LedAt
      BY <1>1, <2>1, Leaves
    <2> QED
      BY <1>2, <1>4, <2>1, <2>2 DEF AfterWait, Children
  <1> QED
    BY <1>3, <1>4

\* wait returns.
LEMMA ReapSession ==
  ASSUME SInv, RInv', NEW p \in Slots, Reap(p), Waits(p), Zombies(p) # {},
         mode # "switch", current_process = p,
         at[p] \in {"await shell", "await command"}, processes[p].frame # "read"
  PROVE  SInv'
  <1>1. PICK c \in Slots \ {p, 0} :
          /\ Buried(p, c)
          /\ at' = [at EXCEPT ![p] = AfterWait(p, processes[c].pid), ![c] = "none"]
    BY WaitsReap DEF SInv
  <1> DEFINE a == AfterWait(p, processes[c].pid)
             e == processes[p]
             r == processes'[p]
  <1>2. /\ processes[c].pid # 0 /\ processes[c].parent = p /\ processes'[c] = Blank
        /\ \A x \in Slots \ {c, p} : processes'[x] = processes[x]
        /\ Resembles(e, r) /\ r.pstate = "RUNNING" /\ r.frame = "none"
        /\ Cared(processes, processes', p, c) /\ processes' \in Table
        /\ mode' = "user" /\ UNCHANGED <<current_process, next_pid, damage, tty>>
    BY <1>1 DEF Buried
  <1>3. /\ a = IF at[p] = "await shell" THEN "await shell" ELSE "read"
        /\ at[p] = "await shell" => at[c] \in LedAt
        /\ at[p] = "await command" => at[c] = "run"
        /\ at[0] = "await shell"
    BY <1>1, WaitedFor
  <1> HIDE DEF a
  <1>4. /\ at'[p] = a /\ at'[c] = "none" /\ \A x \in Slots \ {c, p} : at'[x] = at[x]
    <2>1. at' = [at EXCEPT ![p] = a, ![c] = "none"]
      BY <1>1 DEF a
    <2> QED
      BY <2>1, Names DEF SInv
  <1>5. at[p] \in Parents /\ at[c] \in Children /\ at[c] \notin Parents
    BY <1>3 DEF Parents, Children, LedAt, InitAt, ShellAt
  <1>6. e.stack = "page" /\ e.pending_signals = <<>> /\ e.pid # 0
    BY <1>5, Names DEF SInv, Running
  <1>7. \A s \in Slots : at'[s] = "run" => at[s] = "run" /\ at[p] = "await shell"
    <2> SUFFICES ASSUME NEW s \in Slots, at'[s] = "run"
                 PROVE  at[s] = "run" /\ at[p] = "await shell"
      OBVIOUS
    <2>1. s # p /\ s # c
      BY <1>3, <1>4
    <2>2. at[s] = "run"
      BY <1>4, <2>1
    <2>3. at[p] # "await command"
      BY <1>3, <2>1, <2>2 DEF SInv, Tree
    <2> QED
      BY <2>2, <2>3
  <1>8. ASSUME NEW s \in Slots
        PROVE  Branch(s)'
    <2>1. Branch(s)
      BY DEF SInv, Tree
    <2>2. CASE s = c
      BY <1>2, <1>4, <2>2, BlankEntry DEF Branch, LedAt, ShellAt, Children
    <2>3. ASSUME s # c, at[s] \in ShellAt \cup Children
          PROVE  processes[s].parent \in Slots /\ Child(s, processes[s].parent)'
      <3> DEFINE q == processes[s].parent
      <3>1. q \in Slots /\ Child(s, q) /\ q # c
        <4>1. q \in Slots /\ Child(s, q)
          BY <2>1, <2>3, Ones, Leaves DEF Branch, Children
        <4>2. q = 0 \/ at[q] = "await command"
          BY <2>1, <2>3, Leaves DEF Branch, Children
        <4> QED
          BY <1>5, <4>1, <4>2 DEF Parents, ShellAt
      <3>2. processes'[s].parent = q
        BY <1>2, <2>3 DEF Resembles
      <3>3. PICK q0 \in Slots : q0 = q
        BY <3>1
      <3>4. Child(s, q0) /\ q0 # c
        BY <3>1, <3>3
      <3>5. \/ processes'[q0] = processes[q0]
            \/ Cared(processes, processes', q0, c)
        <4>1. CASE q0 = p
          BY <1>2, <4>1
        <4>2. CASE q0 # p
          BY <1>2, <3>4, <4>2
        <4> QED
          BY <4>1, <4>2
      <3>6. \E i \in Taken(processes', q0) : processes'[q0].children[i] = s
        BY <2>3, <3>4, <3>5, ChildStays
      <3>7. Child(s, q0)'
        BY <3>6 DEF Child
      <3> QED
        BY <3>1, <3>2, <3>3, <3>7
    <2>4. CASE s = p
      <3>1. /\ at'[p] \in ShellAt <=> at[p] \in ShellAt
            /\ at'[p] \notin LedAt /\ at'[p] \notin {"none", "run"}
        BY <1>3, <1>4 DEF LedAt, ShellAt
      <3>2. r.pid = e.pid /\ r.parent = e.parent
        BY <1>2 DEF Resembles
      <3>3. at[p] \in ShellAt => Child(p, e.parent)'
        BY <1>1, <2>3, <2>4
      <3>4. at[p] # "none"
        BY <1>3, <1>5 DEF Parents, InitAt, ShellAt
      <3> HIDE DEF e, r
      <3>5. Child(p, r.parent) = Child(p, e.parent)
        BY <3>2
      <3> QED
        BY <1>6, <2>1, <2>4, <3>1, <3>2, <3>3, <3>4 DEF Branch, Children, e, r
    <2>5. CASE s # p /\ s # c
      <3>1. processes'[s] = processes[s] /\ at'[s] = at[s]
        BY <1>2, <1>4, <2>5
      <3>2. at[s] \in ShellAt \cup Children => Child(s, processes[s].parent)'
        BY <2>3, <2>5
      <3>3. at[s] = "run" => at'[processes[s].parent] = "await command"
        <4> SUFFICES ASSUME at[s] = "run"
                     PROVE  at'[processes[s].parent] = "await command"
          OBVIOUS
        <4>1. at[p] = "await shell"
          BY <1>7, <3>1
        <4>2. processes[s].parent \in Slots /\ at[processes[s].parent] = "await command"
          BY Leaves
        <4>3. at[c] # "await command"
          BY <1>5 DEF Parents, ShellAt
        <4> QED
          BY <1>4, <4>1, <4>2, <4>3
      <3> QED
        BY <2>1, <3>1, <3>2, <3>3 DEF Branch
    <2> QED
      BY <2>2, <2>4, <2>5
  <1>9. Tree'
    <2>1. processes'[0].max_children_count = processes[0].max_children_count
      BY <1>1, <1>2, Names DEF Resembles, SInv
    <2>2. \A x, s \in Slots : at'[x] = "run" /\ at'[s] = "run" => x = s
      BY <1>7 DEF SInv, Tree
    <2> QED
      BY <1>8, <2>1, <2>2 DEF SInv, Tree
  <1>10. Boot'
    <2>1. PICK s \in Slots : at[s] \in ShellAt
      BY <1>3 DEF SInv, Boot
    <2>2. at'[s] \in ShellAt
      BY <1>3, <1>4, <1>5, <2>1 DEF ShellAt, InitAt, Parents
    <2>3. at'[0] = "await shell"
      BY <1>1, <1>3, <1>4, Names DEF SInv
    <2>4. next_pid' > LED_pid
      BY <1>2, <1>3 DEF SInv, Boot
    <2> QED
      BY <2>2, <2>3, <2>4 DEF Boot
  <1>11. ASSUME NEW x \in Slots
         PROVE  Alive(processes'[x], at'[x]) /\ Awaits(x)'
    <2>1. Alive(processes[x], at[x]) /\ Awaits(x)
      BY Ones
    <2>2. CASE x = p
      BY <1>2, <1>3, <1>4, <1>6, <2>2 DEF Alive, Awaits, Resembles
    <2>3. CASE x = c
      <3>1. Blank.stack = "null" /\ Blank.frame = "none" /\ Blank.pending_signals = <<>>
        BY BlankEntry
      <3> QED
        BY <1>2, <1>4, <2>3, <3>1 DEF Alive, Awaits, Parents, InitAt, ShellAt
    <2>4. CASE x # p /\ x # c
      <3>1. processes'[x] = processes[x] /\ at'[x] = at[x]
        BY <1>2, <1>4, <2>4
      <3>2. Dead(x) => Dead(x)'
        <4> SUFFICES ASSUME NEW s \in Slots, at[s] \in Children, processes[s].parent = x,
                            processes[s].stack = "freed"
                     PROVE  Dead(x)'
          BY DEF Dead
        <4>1. s # p /\ s # c
          BY <1>2, <1>6, <2>4
        <4> QED
          BY <1>2, <1>4, <4>1 DEF Dead
      <3> QED
        BY <1>2, <2>1, <2>4, <3>1, <3>2 DEF Awaits
    <2> QED
      BY <2>2, <2>3, <2>4
  <1>12. Running' /\ damage' = "none"
    BY <1>2, <1>3, <1>4, <1>6 DEF SInv, Running, Resembles
  <1>13. Reader'
    <2>1. processes[c].frame # "read"
      BY <1>5, Ones DEF Plays, Parents, ShellAt
    <2> QED
      BY <1>2, <2>1 DEF SInv, Reader, tty
  <1>14. Lines'
    <2>1. Lined' => Lined
      BY <1>3, <1>4 DEF Lined
    <2>2. CalmLed => CalmLed'
      BY <1>2, <1>3, <1>4 DEF CalmLed, LedAt
    <2> QED
      BY <1>2, <2>1, <2>2 DEF SInv, Lines, tty
  <1> QED
    BY <1>9, <1>10, <1>11, <1>12, <1>13, <1>14 DEF SInv

\* A wait, or the end of one.
LEMMA WaitSession ==
  ASSUME SInv, RInv', NEW p \in Slots, Waits(p),
         \/ at[p] \in {"await shell", "await command"} /\ sys_wait(p)
         \/ wait_resumed /\ p = current_process
  PROVE  SInv'
  <1>1. Plays(processes[p], at[p]) /\ Awaits(p)
    BY Ones
  <1>2. CASE wait_resumed /\ p = current_process
    <2>1. mode = "kernel" /\ processes[p].frame = "wait" /\ Reap(p)
      BY <1>2 DEF wait_resumed
    <2>2. Zombies(p) # {}
      BY <1>1, <1>2, <2>1, DeadChild DEF Awaits
    <2> QED
      BY <1>1, <1>2, <2>1, <2>2, ReapSession DEF Plays
  <1>3. CASE at[p] \in {"await shell", "await command"} /\ sys_wait(p)
    <2>1. mode = "user" /\ current_process = p /\ processes[p].frame = "none"
      BY <1>3, UserProgram DEF sys_wait, Parents, InitAt, ShellAt
    <2>2. CASE Zombies(p) # {}
      BY <1>3, <2>1, <2>2, ReapSession DEF sys_wait
    <2>3. CASE Zombies(p) = {}
      BY <1>3, <2>3, SleepSession
    <2> QED
      BY <2>2, <2>3
  <1> QED
    BY <1>2, <1>3

\* What a child in the table of p is.
LEMMA ChildOf ==
  ASSUME SInv, NEW p \in Slots, NEW i \in Taken(processes, p)
  PROVE  \E c \in Slots \ {p} :
           /\ c = processes[p].children[i]
           /\ processes[c].pid # 0 /\ processes[c].parent = p
           /\ at[c] \in ShellAt \cup Children
  <1> DEFINE c == processes[p].children[i]
  <1>1. processes \in Table /\ Family(processes) /\ Null \notin Slots
    BY Facts, Constants DEF SInv, RInv, LifeInv
  <1>2. i \in DOMAIN processes[p].children /\ c # Null
    BY <1>1 DEF Family, Taken
  <1>3. c \in Slots
    <2>1. processes[p].children \in ChildTables
      BY <1>1, Entry
    <2> QED
      BY <1>2, <2>1 DEF ChildTables
  <1>4. processes[c].pid # 0 /\ processes[c].parent = p /\ c # p
    BY <1>1, <1>3 DEF Family
  <1>5. at[c] \in Places /\ (at[c] \in InitAt <=> c = 0) /\ Branch(c)
        /\ processes[0].parent = Null
    BY <1>3, Names, Ones DEF SInv, Tree
  <1>6. at[c] # "none" /\ at[c] \notin InitAt
    BY <1>1, <1>3, <1>4, <1>5 DEF Branch
  <1> QED
    BY <1>3, <1>4, <1>5, <1>6 DEF Places, Children

\* The places at which a program spawns.
Spawners == {"spawn LED", "spawn shell", "line"}

\* Where a program spawns, its table of children has room: init's has three or
\* more, the shell's is empty.
LEMMA Nursery ==
  ASSUME SInv, NEW p \in Slots, at[p] \in Spawners,
         processes[p].max_children_count # 0
  PROVE  Taken(processes, p) # Indices(processes, p)
  <1>1. /\ processes[p].max_children_count \in Nat
        /\ max_processes \in Nat /\ max_processes >= 4
    BY Names, Entry, Constants, UserlandAssumption DEF SInv
  <1> DEFINE m == processes[p].max_children_count
  <1>2. 0 \in Indices(processes, p)
    <2>1. m \in Nat /\ m > 0 /\ Indices(processes, p) = 0 .. m - 1
      BY <1>1 DEF Indices
    <2> HIDE DEF m
    <2> QED
      BY <2>1
  <1>3. CASE at[p] = "spawn LED"
    <2>1. p = 0 /\ \A s \in Slots \ {0} : at[s] = "none"
      BY <1>3, Ones DEF SInv, Boot, InitAt
    <2>2. ASSUME NEW i \in Taken(processes, p)
          PROVE  FALSE
      BY <2>1, ChildOf DEF ShellAt, Children, LedAt
    <2> QED
      BY <1>2, <2>2
  <1>4. CASE at[p] = "spawn shell"
    <2>1. p = 0 /\ \A s \in Slots : at[s] \notin ShellAt \cup {"run"}
      BY <1>4, Ones DEF SInv, Boot, InitAt
    <2>2. 1 \in Indices(processes, p)
      <3>1. processes[0].max_children_count = max_processes - 1
        BY DEF SInv, Tree
      <3>2. Indices(processes, p) = 0 .. m - 1 /\ m = max_processes - 1
        BY <2>1, <3>1 DEF Indices
      <3> HIDE DEF m
      <3> QED
        BY <1>1, <3>2
    <2>3. ASSUME 0 \in Taken(processes, p), 1 \in Taken(processes, p)
          PROVE  FALSE
      <3>1. PICK c \in Slots : c = processes[p].children[0] /\ at[c] \in LedAt
        BY <2>1, <2>3, ChildOf DEF Children
      <3>2. PICK d \in Slots : d = processes[p].children[1] /\ at[d] \in LedAt
        BY <2>1, <2>3, ChildOf DEF Children
      <3>3. c = d
        BY <3>1, <3>2, Ones
      <3>4. \A i, j \in Taken(processes, p) :
              processes[p].children[i] = processes[p].children[j] => i = j
        BY Facts DEF Family, SInv, RInv, LifeInv
      <3>5. 0 = 1
        BY <2>3, <3>1, <3>2, <3>3, <3>4
      <3> QED
        BY <3>5
    <2> QED
      BY <1>2, <2>2, <2>3
  <1>5. CASE at[p] = "line"
    <2>1. at[p] \in ShellAt /\ p # 0
      BY <1>5, Ones DEF ShellAt, InitAt
    <2>2. ASSUME NEW i \in Taken(processes, p)
          PROVE  FALSE
      <3>1. PICK c \in Slots \ {p} : /\ processes[c].parent = p
                                     /\ at[c] \in ShellAt \cup Children
        BY ChildOf
      <3>2. at[c] \notin ShellAt
        BY <2>1, <3>1, Ones
      <3>3. at[c] \notin LedAt
        BY <2>1, <3>1, Leaves
      <3>4. at[c] # "run"
        BY <1>5, <3>1, Leaves
      <3> QED
        BY <3>1, <3>2, <3>3, <3>4 DEF Children
    <2> QED
      BY <1>2, <2>2
  <1> QED
    BY <1>3, <1>4, <1>5 DEF Spawners

\* No command runs when a program spawns.
LEMMA NoCommand ==
  ASSUME SInv, NEW p \in Slots, at[p] \in Spawners, NEW s \in Slots
  PROVE  at[s] # "run"
  <1>1. CASE at[p] = "spawn LED" \/ at[p] = "spawn shell"
    <2>1. p = 0 /\ at[0] # "run"
      BY <1>1, Ones DEF InitAt
    <2> QED
      BY <1>1, <2>1 DEF SInv, Boot
  <1>2. CASE at[p] = "line"
    <2> SUFFICES ASSUME at[s] = "run"
                 PROVE  FALSE
      OBVIOUS
    <2>1. PICK q \in Slots : q = processes[s].parent /\ at[q] = "await command"
      BY Leaves
    <2>2. q = p
      BY <1>2, <2>1, Ones DEF ShellAt
    <2> QED
      BY <1>2, <2>1, <2>2
  <1> QED
    BY <1>1, <1>2 DEF Spawners

\* What the program that spawns finds: it is init, or the shell that has a line.
LEMMA Founders ==
  ASSUME SInv, NEW p \in Slots, NEW a, NEW b, Launches(p, a, b)
  PROVE  /\ at[p] \in Parents
         /\ \A s \in Slots : at[s] # "run"
         /\ b = "signal" => next_pid = LED_pid
         /\ b # "signal" => next_pid > LED_pid
         /\ b = "run" => p # 0 /\ at[0] = "await shell"
         /\ b # "run" => p = 0
  <1>1. at[p] \in Spawners /\ \A s \in Slots : at[s] # "run"
    BY NoCommand DEF Launches, Spawners
  <1>2. CASE at[p] = "spawn LED" \/ at[p] = "spawn shell"
    <2>1. p = 0
      BY <1>2, Ones DEF InitAt
    <2> QED
      BY <1>1, <1>2, <2>1 DEF SInv, Boot, Launches, Parents, InitAt
  <1>3. CASE at[p] = "line"
    <2>1. at[p] \in ShellAt /\ p # 0 /\ at[0] = "await shell"
      BY <1>3, Ones DEF ShellAt, InitAt
    <2> QED
      BY <1>1, <1>3, <2>1 DEF SInv, Boot, Launches, Parents
  <1> QED
    BY <1>2, <1>3 DEF Launches

\* The next pid is the LED process's or a later one.
LEMMA Later ==
  ASSUME SInv
  PROVE  next_pid + 1 > LED_pid
  <1>1. next_pid \in Int /\ LED_pid = 2
    BY Facts DEF SInv, RInv, LifeInv, LED_pid, PID_INIT
  <1>2. next_pid = LED_pid \/ next_pid > LED_pid
    BY DEF SInv, Boot
  <1> QED
    BY <1>1, <1>2

\* A child stays in the tree when another comes.
LEMMA KeptChild ==
  ASSUME SInv, NEW p \in Slots, NEW c \in Slots \ {p}, Arrived(p, c), NEW s \in Slots,
         at[s] \in ShellAt \cup Children
  PROVE  \E q \in Slots : q = processes[s].parent /\ Child(s, q)'
  <1>1. Branch(s)
    BY DEF SInv, Tree
  <1>2. PICK q \in Slots : q = processes[s].parent
    BY <1>1, Ones, Leaves DEF Branch, Children
  <1>3. Child(s, q)
    BY <1>1, <1>2 DEF Branch
  <1>4. q # c
    <2>1. SUFFICES ASSUME q = c
                   PROVE  FALSE
      OBVIOUS
    <2>2. PICK i : i \in Taken(processes, c)
      BY <1>3, <2>1 DEF Child
    <2>3. Blank.max_children_count = 0
      BY BlankEntry
    <2>4. processes[c].max_children_count = 0
      BY <2>3 DEF Arrived
    <2> QED
      BY <2>2, <2>4 DEF Taken, Indices
  <1>5. \/ processes'[q] = processes[q]
        \/ Null # s /\ Cared(processes, processes', q, Null)
    <2>1. CASE q = p
      BY <2>1, Constants DEF Arrived
    <2>2. CASE q # p
      BY <1>4, <2>2 DEF Arrived
    <2> QED
      BY <2>1, <2>2
  <1>6. \E i \in Taken(processes', q) : processes'[q].children[i] = s
    BY <1>3, <1>5, ChildStays
  <1> QED
    BY <1>2, <1>6 DEF Child

\* A program starts another.
LEMMA SpawnSession ==
  ASSUME SInv, RInv', NEW p \in Slots, NEW a, NEW b, Spawns(p, a, b), Launches(p, a, b)
  PROVE  SInv'
  <1>1. /\ at[p] \in Parents /\ \A s \in Slots : at[s] # "run"
        /\ b = "signal" => next_pid = LED_pid
        /\ b # "signal" => next_pid > LED_pid
        /\ b = "run" => p # 0 /\ at[0] = "await shell"
        /\ b # "run" => p = 0
    BY Founders
  <1>2. /\ mode = "user" /\ current_process = p
        /\ processes[p].stack = "page" /\ processes[p].pid # 0
        /\ processes[p].frame = "none" /\ processes[p].pending_signals = <<>>
        /\ processes[p].pstate \in {"RUNNING", "READY"}
    BY <1>1, UserProgram DEF Spawns, spawn
  <1>3. PICK c \in Slots \ {p} : Arrived(p, c)
    <2>1. IInv /\ spawn(p)
      BY DEF SInv, RInv, LifeInv, Spawns
    <2> QED
      BY <2>1, SpawnTurns
  <1> DEFINE e == processes[p]
             r == processes'[p]
             n == processes'[c]
  <1>4. /\ processes[c] = Blank /\ processes' \in Table /\ NewBorn(n, p)
        /\ \A x \in Slots \ {c, p} : processes'[x] = processes[x]
        /\ Resembles(e, r) /\ r.pstate = e.pstate /\ r.frame = e.frame
        /\ next_pid' = next_pid + 1 /\ UNCHANGED <<current_process, mode, damage, tty>>
    BY <1>3 DEF Arrived
  <1>5. at[c] = "none" /\ c # 0 /\ Blank.stack = "null" /\ Blank.frame = "none"
    <2>1. Blank.pid = 0 /\ Blank.stack = "null" /\ Blank.frame = "none"
      BY BlankEntry
    <2>2. processes[c].pid = 0
      BY <1>4, <2>1
    <2>3. Branch(c)
      BY DEF SInv, Tree
    <2>4. processes[0].pid # 0
      BY Names DEF SInv, PID_INIT
    <2> QED
      BY <2>1, <2>2, <2>3, <2>4 DEF Branch
  <1>6. /\ at'[p] = a /\ at'[c] = b /\ \A x \in Slots \ {c, p} : at'[x] = at[x]
    <2>1. at' = [at EXCEPT ![p] = a, ![c] = b]
      BY <1>3 DEF Spawns, Arrived
    <2> QED
      BY <2>1, Names DEF SInv
  <1>7. /\ a \in Parents /\ (a \in ShellAt <=> at[p] \in ShellAt) /\ a # "line"
        /\ b # "none" /\ b \in ShellAt \cup Children /\ b \notin Parents \ {"read"} /\ b # "line"
        /\ a \notin LedAt /\ a \notin {"none", "run", "spawn LED"}
    BY DEF Launches, Parents, Children, InitAt, LedAt, ShellAt
  <1>8. \E i \in Taken(processes', p) : processes'[p].children[i] = c
    <2>1. processes[p].max_children_count # 0
      <3>1. processes[p].max_children_count > 0
        BY DEF Spawns, spawn
      <3>2. processes[p].max_children_count \in Nat
        BY Names, Entry, Constants DEF SInv
      <3> QED
        BY <3>1, <3>2
    <2>2. at[p] \in Spawners
      BY DEF Launches, Spawners
    <2> QED
      BY <1>3, <2>1, <2>2, Nursery DEF Arrived
  <1>9. ASSUME NEW s \in Slots
        PROVE  Branch(s)'
    <2>1. Branch(s)
      BY DEF SInv, Tree
    <2>2. CASE s = c
      <3>1. /\ n.pid = next_pid /\ n.parent = p /\ n.children_count = 0 /\ at'[s] = b
            /\ next_pid \in 1 .. MaxPid
        BY <1>3, <1>4, <1>6, <2>2 DEF NewBorn, Arrived
      <3>2. next_pid # 0
        BY <3>1, Constants
      <3>3. Child(c, p)'
        BY <1>8 DEF Child
      <3>4. b \in LedAt => b = "signal"
        BY DEF Launches, LedAt
      <3>5. b \in ShellAt => b # "signal" /\ b # "run"
        BY DEF ShellAt
      <3>6. b = "run" => at'[p] = "await command"
        BY <1>6 DEF Launches
      <3> HIDE DEF n
      <3>7. Child(s, processes[s].parent)'
        <4>1. processes'[s].parent = p
          BY <2>2, <3>1 DEF n
        <4> QED
          BY <2>2, <3>3, <4>1
      <3> QED
        BY <1>1, <1>7, <2>2, <3>1, <3>2, <3>4, <3>5, <3>6, <3>7 DEF Branch, n
    <2>3. CASE s = p
      <3>1. r.pid = e.pid /\ r.parent = e.parent
        BY <1>4 DEF Resembles
      <3>2. at'[p] \in ShellAt \cup Children => Child(p, processes[p].parent)'
        <4> SUFFICES ASSUME at'[p] \in ShellAt \cup Children
                     PROVE  Child(p, processes[p].parent)'
          OBVIOUS
        <4>1. at[p] \in ShellAt
          BY <1>6, <1>7 DEF Children
        <4>2. PICK q \in Slots : q = e.parent /\ Child(p, q)'
          BY <1>3, <4>1, KeptChild
        <4>3. processes'[p].parent = q
          BY <3>1, <4>2
        <4> QED
          BY <4>2, <4>3
      <3>3. at[p] # "none"
        BY <1>1 DEF Parents, InitAt, ShellAt
      <3> QED
        BY <1>2, <1>6, <1>7, <2>1, <2>3, <3>1, <3>2, <3>3 DEF Branch
    <2>4. CASE s # p /\ s # c
      <3>1. processes'[s] = processes[s] /\ at'[s] = at[s] /\ at[s] # "run"
        BY <1>1, <1>4, <1>6, <2>4
      <3>2. at[s] \in ShellAt \cup Children => Child(s, processes[s].parent)'
        <4> SUFFICES ASSUME at[s] \in ShellAt \cup Children
                     PROVE  Child(s, processes[s].parent)'
          OBVIOUS
        <4>1. PICK q \in Slots : q = processes[s].parent /\ Child(s, q)'
          BY <1>3, KeptChild
        <4>2. processes'[s].parent = q
          BY <3>1, <4>1
        <4> QED
          BY <4>1, <4>2
      <3> QED
        BY <2>1, <3>1, <3>2 DEF Branch
    <2> QED
      BY <2>2, <2>3, <2>4
  <1>10. Tree'
    <2>1. processes'[0].max_children_count = processes[0].max_children_count
      BY <1>4, <1>5, Names DEF Resembles, SInv
    <2>2. ASSUME NEW s \in Slots, at'[s] = "run"
          PROVE  s = c
      BY <1>1, <1>6, <1>7, <2>2
    <2> QED
      BY <1>9, <2>1, <2>2 DEF SInv, Tree
  <1>11. Boot'
    <2>1. next_pid' > LED_pid
      <3>1. next_pid' = next_pid + 1
        BY <1>4
      <3> QED
        BY <3>1, Later
    <2>2. CASE b = "run"
      <3>1. at'[0] = "await shell" /\ at'[p] \in ShellAt
        BY <1>1, <1>5, <1>6, <2>2, Names DEF SInv, Launches, ShellAt
      <3> QED
        BY <2>1, <3>1 DEF Boot
    <2>3. CASE b = "read"
      <3>1. at'[0] = "await shell" /\ at'[c] \in ShellAt
        BY <1>1, <1>6, <2>3 DEF Launches, ShellAt
      <3> QED
        BY <2>1, <3>1 DEF Boot
    <2>4. CASE b = "signal"
      <3>1. at[0] = "spawn LED" /\ p = 0 /\ at'[0] = "spawn shell"
        BY <1>1, <1>6, <2>4 DEF Launches
      <3>2. \A s \in Slots \ {0} : at[s] = "none"
        BY <3>1 DEF SInv, Boot
      <3>3. \A s \in Slots : at'[s] \notin ShellAt \cup {"run"}
        BY <1>6, <2>4, <3>1, <3>2 DEF ShellAt
      <3> QED
        BY <2>1, <3>1, <3>3 DEF Boot
    <2> QED
      BY <2>2, <2>3, <2>4 DEF Launches
  <1>12. ASSUME NEW x \in Slots
         PROVE  Alive(processes'[x], at'[x]) /\ Awaits(x)'
    <2>1. Alive(processes[x], at[x]) /\ Awaits(x)
      BY Ones
    <2>2. CASE x = p
      <3>1. /\ r.pid # 0 /\ r.stack = "page" /\ r.frame = "none" /\ ~r.kernel_mode
            /\ r.pending_signals = <<>> /\ r.pstate \in {"RUNNING", "READY"}
        BY <1>2, <1>4 DEF Resembles
      <3> QED
        BY <1>6, <1>7, <2>2, <3>1 DEF Alive, Awaits
    <2>3. CASE x = c
      <3>1. /\ n.pid # 0 /\ n.stack = "page" /\ n.frame = "none" /\ ~n.kernel_mode
            /\ n.pending_signals = <<>> /\ n.pstate = "READY"
        <4>1. next_pid # 0
          BY <1>3, Constants DEF Arrived
        <4> QED
          BY <1>4, <4>1 DEF NewBorn
      <3> QED
        BY <1>6, <2>3, <3>1 DEF Alive, Awaits
    <2>4. CASE x # p /\ x # c
      <3>1. processes'[x] = processes[x] /\ at'[x] = at[x]
        BY <1>4, <1>6, <2>4
      <3>2. Dead(x) => Dead(x)'
        <4> SUFFICES ASSUME NEW s \in Slots, at[s] \in Children, processes[s].parent = x,
                            processes[s].stack = "freed"
                     PROVE  Dead(x)'
          BY DEF Dead
        <4>1. s # p /\ s # c
          BY <1>2, <1>4, <1>5
        <4> QED
          BY <1>4, <1>6, <4>1 DEF Dead
      <3> QED
        BY <1>2, <1>4, <2>1, <2>4, <3>1, <3>2 DEF Awaits
    <2> QED
      BY <2>2, <2>3, <2>4
  <1>13. Running' /\ damage' = "none"
    BY <1>2, <1>4, <1>6, <1>7 DEF SInv, Running, Resembles
  <1>14. Reader'
    BY <1>4, <1>5 DEF SInv, Reader, tty
  <1>15. Lines'
    <2>1. Lined' => Lined
      BY <1>6, <1>7 DEF Lined
    <2>2. CalmLed => CalmLed'
      <3>1. n.stack = "page" /\ n.pending_signals = <<>> /\ ~n.signal_handled
        BY <1>4 DEF NewBorn
      <3> QED
        BY <1>4, <1>6, <1>7, <3>1 DEF CalmLed
    <2> QED
      BY <1>4, <2>1, <2>2 DEF SInv, Lines, tty
  <1> QED
    BY <1>10, <1>11, <1>12, <1>13, <1>14, <1>15 DEF SInv

-----------------------------------------------------------------------------
(* The theorems of such a session                                          *)

\* What the shell does in such a session.
LEMMA ShellSession ==
  ASSUME SInv, RInv', ShellRuns, victims \subseteq {"LED"}
  PROVE  SInv'
  <1>1. PICK p \in Slots : shell(p)
    BY DEF ShellRuns
  <1>2. UNCHANGED shell_pid
    BY <1>1 DEF shell
  <1>3. CASE at[p] = "read" /\ tty_read(p) /\ Reads(p)
    BY <1>3, ReadSession
  <1>4. CASE perform_kill(p)
    BY <1>4, KillSession
  <1>5. CASE builtin(p)
    BY <1>5, BuiltinSession
  <1>6. CASE at[p] = "line" /\ Spawns(p, "await command", "run")
    <2>1. Launches(p, "await command", "run")
      BY <1>2, <1>6 DEF Launches
    <2> QED
      BY <1>6, <2>1, SpawnSession
  <1>7. CASE at[p] = "await command" /\ sys_wait(p) /\ Waits(p)
    BY <1>7, WaitSession
  <1> QED
    BY <1>1, <1>3, <1>4, <1>5, <1>6, <1>7 DEF shell, run_program

\* What init does.
LEMMA InitSession ==
  ASSUME SInv, RInv', InitRuns
  PROVE  SInv'
  <1>1. PICK p \in Slots : PATER_ADAMVS(p)
    BY DEF InitRuns
  <1>2. CASE at[p] = "spawn LED" /\ Spawns(p, "spawn shell", "signal")
             /\ shell_pid' = shell_pid
    <2>1. Launches(p, "spawn shell", "signal")
      BY <1>2 DEF Launches
    <2> QED
      BY <1>2, <2>1, SpawnSession
  <1>3. CASE at[p] = "spawn shell" /\ Spawns(p, "await shell", "read")
             /\ shell_pid' = next_pid
    <2>1. Launches(p, "await shell", "read")
      BY <1>3 DEF Launches
    <2> QED
      BY <1>3, <2>1, SpawnSession
  <1>4. CASE at[p] = "await shell" /\ sys_wait(p) /\ Waits(p)
    BY <1>4, WaitSession
  <1> QED
    BY <1>1, <1>2, <1>3, <1>4 DEF PATER_ADAMVS

\* Every step of such a session keeps its invariant.
LEMMA SessionStep ==
  SInv /\ victims \subseteq {"LED"} /\ [UNext]_uvars => SInv'
  <1> SUFFICES ASSUME SInv, victims \subseteq {"LED"}, [UNext]_uvars
               PROVE  SInv'
    OBVIOUS
  <1>1. RInv'
    BY RolesStep DEF SInv
  <1>2. CASE UNCHANGED uvars
    <2>1. /\ processes' = processes /\ at' = at /\ next_pid' = next_pid
          /\ damage' = damage /\ current_process' = current_process /\ mode' = mode
          /\ UNCHANGED tty
      BY <1>2 DEF uvars, vars, tty
    <2>2. Tree' /\ Boot' /\ \A p \in Slots : Dead(p) => Dead(p)'
      BY <2>1, TreeStays DEF Stays, SamePart
    <2>3. ASSUME NEW s \in Slots
          PROVE  Alive(processes'[s], at'[s]) /\ Awaits(s)'
      <3>1. Alive(processes[s], at[s]) /\ Awaits(s)
        BY Ones
      <3> QED
        BY <2>1, <2>2, <3>1 DEF Awaits
    <2>4. Running'
      BY <2>1 DEF SInv, Running
    <2>5. Reader' /\ Lines'
      BY <2>1, TerminalStays DEF CalmLed
    <2> QED
      BY <1>1, <2>1, <2>2, <2>3, <2>4, <2>5 DEF SInv
  <1>3. CASE UNext
    <2>1. CASE Kernel
      <3>1. UNCHANGED <<at, shell_pid, victims>>
        BY <1>3, <2>1 DEF Kernel, UNext, KernelRuns, InitRuns, ShellRuns, OthersRun
      <3> QED
        BY <1>1, <2>1, <3>1, TickSession, SwitchSession, InterruptSession DEF Kernel
    <2>2. CASE Returns
      <3>1. current_process \in Slots
        BY <2>2, Facts DEF Returns, wait_resumed, read_resumed, OnProcessor, SInv, RInv,
                           LifeInv
      <3>2. PICK p \in Slots : p = current_process
        BY <3>1
      <3>3. \/ wait_resumed /\ Waits(p)
            \/ read_resumed /\ Reads(p)
        BY <2>2, <3>2 DEF Returns
      <3> QED
        BY <1>1, <3>2, <3>3, WaitSession, ReadSession
    <2> QED
      BY <1>1, <1>3, <2>1, <2>2, InitSession, ShellSession, OthersSession
         DEF UNext, KernelRuns
  <1> QED
    BY <1>2, <1>3

\* Only init is there at the start.
LEMMA SessionStart ==
  UInit => SInv
  <1> SUFFICES ASSUME UInit
               PROVE  SInv
    OBVIOUS
  <1>1. RInv /\ 0 \in Slots /\ Null \notin Slots
    BY RolesStart, Constants
  <1>2. /\ \A s \in Slots : /\ processes[s] = IF s = 0 THEN InitProcess ELSE Blank
                            /\ at[s] = IF s = 0 THEN "spawn LED" ELSE "none"
        /\ damage = "none" /\ current_process = 0 /\ mode = "user" /\ read_wait = <<>>
        /\ next_pid = LED_pid /\ newline_present = FALSE
    BY DEF UInit, Init, LED_pid
  <1>3. /\ InitProcess.pid = PID_INIT /\ InitProcess.pstate = "RUNNING"
        /\ InitProcess.stack = "page" /\ InitProcess.pending_signals = <<>>
        /\ InitProcess.frame = "none" /\ InitProcess.kernel_mode = FALSE
        /\ InitProcess.max_children_count = max_processes - 1
    BY DEF InitProcess, Blank
  <1>4. /\ Blank.pid = 0 /\ Blank.stack = "null" /\ Blank.pending_signals = <<>>
        /\ Blank.frame = "none"
    BY BlankEntry
  <1> HIDE DEF InitProcess
  <1>5. PID_INIT # 0
    BY DEF PID_INIT
  <1>6. ASSUME NEW s \in Slots
        PROVE  Branch(s) /\ Alive(processes[s], at[s]) /\ Awaits(s)
    <2>1. CASE s = 0
      <3>1. processes[s] = InitProcess /\ at[s] = "spawn LED"
        BY <1>2, <2>1
      <3> QED
        BY <1>3, <1>5, <3>1 DEF Branch, Alive, Awaits, LedAt, ShellAt, Children
    <2>2. CASE s # 0
      <3>1. processes[s] = Blank /\ at[s] = "none"
        BY <1>2, <2>2
      <3> QED
        BY <1>4, <3>1 DEF Branch, Alive, Awaits, LedAt, ShellAt, Children, Parents,
                          InitAt
    <2> QED
      BY <2>1, <2>2
  <1>7. Tree
    <2>1. \A s \in Slots : at[s] # "run"
      BY <1>2
    <2> QED
      BY <1>1, <1>2, <1>3, <1>6, <2>1 DEF Tree
  <1>8. Boot
    BY <1>1, <1>2 DEF Boot
  <1>9. Running /\ Reader /\ Lines
    BY <1>1, <1>2, <1>3 DEF Running, Reader, Lines, Lined
  <1> QED
    BY <1>1, <1>2, <1>6, <1>7, <1>8, <1>9 DEF SInv

\* The invariant of a session in which the user kills the LED process only.
THEOREM SessionInvariance ==
  ASSUME Sessions \subseteq SUBSET {"LED"}
  PROVE  USpec => []SInv
  <1>1. SInv => victims \subseteq {"LED"}
    BY DEF SInv, RInv, Roles
  <1> QED
    BY <1>1, SessionStart, SessionStep, PTL DEF USpec

\* As long as the user kills the LED process only, however often and whenever,
\* nothing undefined happens.
THEOREM NoFaultCorrect ==
  ASSUME Sessions \subseteq SUBSET {"LED"}
  PROVE  USpec => []NoFault
  <1>1. SInv => NoFault
    BY DEF SInv, NoFault
  <1> QED
    BY <1>1, SessionInvariance, PTL

\* Beside the program that spawns there are one LED process and one shell at most.
LEMMA Room ==
  ASSUME SInv, NEW p \in Slots, at[p] \in Spawners
  PROVE  scheduler_can_populate_process /\ Empty # {}
  <1>1. 1 \in Slots /\ 2 \in Slots /\ 3 \in Slots
    BY Constants, UserlandAssumption DEF Slots
  <1>2. ASSUME NEW s \in Slots \ {0}
        PROVE  s \in Empty \/ at[s] \in LedAt \/ at[s] \in ShellAt
    <2>1. Alive(processes[s], at[s]) /\ at[s] \in Places /\ at[s] \notin InitAt
          /\ at[s] # "run"
      BY Ones, Names, NoCommand DEF SInv
    <2>2. at[s] = "none" => processes[s].pid = 0
      BY DEF SInv, Tree, Branch
    <2> QED
      BY <2>1, <2>2 DEF Alive, Empty, Places
  <1>3. Empty # {}
    <2> SUFFICES ASSUME Empty = {}
                 PROVE  FALSE
      OBVIOUS
    <2>1. \A s \in {1, 2, 3} : at[s] \in LedAt \/ at[s] \in ShellAt
      BY <1>1, <1>2
    <2>2. 1 = 2 \/ 1 = 3 \/ 2 = 3
      BY <1>1, <2>1, Ones
    <2> QED
      BY <2>2
  <1>4. /\ processes_count + Cardinality(Empty) <= max_processes + 1
        /\ processes_count \in Int /\ max_processes \in Nat
    BY Facts, Constants DEF SInv, RInv, LifeInv, Reckoned
  <1>5. Cardinality(Empty) \in Nat /\ IsFiniteSet(Empty)
    <2>1. IsFiniteSet(Slots) /\ Empty \subseteq Slots
      BY Constants, FS_Interval DEF Slots, Empty
    <2> QED
      BY <2>1, FS_Subset, FS_CardinalityType
  <1>6. Cardinality(Empty) # 0
    BY <1>3, <1>5, FS_EmptySet
  <1>7. processes_count <= max_processes
    BY <1>4, <1>5, <1>6
  <1> QED
    BY <1>3, <1>7 DEF scheduler_can_populate_process

\* As long as the user kills the LED process only, init and the shell always find
\* an empty entry, and a count that lets them have it.
THEOREM RoomCorrect ==
  ASSUME Sessions \subseteq SUBSET {"LED"}
  PROVE  USpec => []RoomToSpawn
  <1>1. SInv => RoomToSpawn
    BY Room DEF RoomToSpawn, Spawners
  <1> QED
    BY <1>1, SessionInvariance, PTL
=============================================================================
