------------------------------ MODULE Terminal ------------------------------
(***************************************************************************)
(* The terminal, from the keys to the reader: the scan codes of the PS/2   *)
(* keyboard (src/drivers/keyboard.S), the line editor of src/kernel/tty.c  *)
(* and what it echoes on the screen (Screen.tla).                          *)
(*                                                                         *)
(* An interrupt takes one byte of a scan code.  System calls are atomic,   *)
(* but for a read that waits.  There is one reader; when ^C ends it, the   *)
(* next one takes its place.  The ghosts follow the keys as a person at    *)
(* the keyboard sees them.  `Rules' are what that person and programs keep *)
(* to; the README says what breaks without each.  Left out: the UART, a    *)
(* control sequence written in parts, and the keys that no rule is about.  *)
(***************************************************************************)
EXTENDS Screen, Sequences

CONSTANTS
  BufSize,             \* of the keyboard buffer: 512 in the code
  Keys,
  Output,              \* what programs write: characters and control sequences
  Rules,
  MaxCalls             \* bound of the model: reads that return, and writes

AllRules == {"short lines",      \* a line ends before its row and the buffer do
             "off the corner",   \* no Enter in the last cell of the screen
             "no typing ahead",  \* no key between the end of a line and its read
             "one of a pair",    \* not both shift keys, nor both control keys
             "plain keys",       \* no Escape in a line; only characters when raw
             "empty ^C",         \* ^C with nothing typed
             "between lines",    \* programs write and change modes there
             "inside",           \* output leaves the cursor on the screen
             "room"}             \* a read takes the line and its terminator

KeyCode == [c |-> <<"21">>, enter |-> <<"5A">>, bksp |-> <<"66">>, esc |-> <<"76">>,
            left |-> <<"E0", "6B">>, right |-> <<"E0", "74">>,
            lshift |-> <<"12">>, rshift |-> <<"59">>, ctrl |-> <<"14">>,
            rctrl |-> <<"E0", "14">>, caps |-> <<"58">>]
Pairs == {{"lshift", "rshift"}, {"ctrl", "rctrl"}}
Modifiers == UNION Pairs
ReleaseCode(key) ==
  SubSeq(KeyCode[key], 1, Len(KeyCode[key]) - 1) \o <<"F0", KeyCode[key][Len(KeyCode[key])]>>

\* What is written: a character, or a control sequence with its arguments.
Texts == [action : {"text"}, a : {"c", "C", ENDL, "bs", "cr"}, b : {None}]
Controls == [action : STRING \ {"text"}, a : {None} \cup Nat, b : {None} \cup Nat]

ASSUME TerminalAssumption ==
  /\ BufSize \in Nat /\ BufSize > 2
  /\ Output \subseteq Texts \cup Controls
  /\ Keys \subseteq DOMAIN KeyCode /\ Rules \subseteq AllRules
  /\ MaxCalls \in Nat

VARIABLES
  flags,    \* keyboard_flags
  wire,     \* [key, left]: the key whose code is being sent, the bytes to come
  tty,      \* the statics of tty.c
  screen,
  reader,   \* [state, count]
  held,     \* ghost: the modifiers held down, and "caps"
  line,     \* ghost, [text, cursor]: the line as it was typed
  expected, \* ghost: what the next read has to return, <<>> if it has to wait
  anchor,   \* ghost, [at, clean]: the cell where the line begins
  faithful, \* ghost: every read returned what was typed
  calls     \* reads and writes done, counted for the bound

vars == <<flags, wire, tty, screen, reader, held, line, expected, anchor, faithful, calls>>
Keeps(rule) == rule \in Rules

NoKey == [key |-> "none", left |-> <<>>]
NoLine == [text |-> <<>>, cursor |-> 0]
Anchor(s) ==
  [at |-> Cursor(s), clean |-> \A n \in Cells : n >= Cursor(s) => s.chars[n] = Empty]

Init ==
  /\ flags = {} /\ wire = NoKey /\ held = {}
  /\ tty = [buffer |-> [n \in 0 .. BufSize - 1 |-> Empty], final |-> 0, pos |-> 0,
            newline |-> FALSE, present |-> FALSE, echo |-> TRUE, canonical |-> TRUE,
            esc |-> <<>>]
  /\ screen = ScreenWriter
  /\ reader = [state |-> "running", count |-> 0]
  /\ line = NoLine /\ expected = <<>>
  /\ anchor = Anchor(ScreenWriter)
  /\ faithful = TRUE
  /\ calls = 0

-----------------------------------------------------------------------------
(* The keyboard.  A byte leads to new flags and to characters.             *)

Quiet(f) == [flags |-> f, chars |-> <<>>]

scancode_to_ascii(f, byte) ==
  LET c == CASE byte = "5A" -> ENDL [] byte = "66" -> "bs"
             [] OTHER -> IF f \cap {"caps", "shift"} = {} THEN "c" ELSE "C"
  IN  [flags |-> f, chars |-> <<IF "ctrl" \in f /\ byte = "21" THEN "etx" ELSE c>>]

Arrow == [c6B |-> "D", c74 |-> "C"]

\* Mutant: the release of any key releases Shift.
reset_flags_any(f, byte) == Quiet(f \ {"release", "shift"})

\* The byte after 0xf0: of which side the key was is not known.
reset_flags(f, byte) ==
  Quiet(f \ ({"release"} \cup CASE byte \in {"12", "59"} -> {"shift"}
                                [] byte = "14" -> {"ctrl"}
                                [] OTHER -> {}))

\* The byte after 0xe0.
manage_escape_sequence(f, byte) ==
  LET g == f \ {"escape"}
  IN  CASE byte = "F0" -> Quiet(g \cup {"release"})
        [] byte = "12" -> Quiet(g \cup {"shift"})
        [] byte = "14" -> Quiet(g \cup {"ctrl"})
        [] byte = "5A" -> scancode_to_ascii(g, byte)
        [] byte = "6B" -> [flags |-> g, chars |-> <<"esc", "[", Arrow.c6B>>]
        [] byte = "74" -> [flags |-> g, chars |-> <<"esc", "[", Arrow.c74>>]
        [] OTHER -> Quiet(g)

read_key(f, byte) ==
  CASE byte = "F0" -> Quiet(f \cup {"release"})
    [] byte = "E0" -> Quiet(f \cup {"escape"})
    [] byte \in {"12", "59"} -> Quiet(f \cup {"shift"})
    [] byte = "14" -> Quiet(f \cup {"ctrl"})
    [] byte = "58" -> Quiet(IF "caps" \in f THEN f \ {"caps"} ELSE f \cup {"caps"})
    [] byte = "76" -> [flags |-> f, chars |-> <<"esc">>]
    [] OTHER -> scancode_to_ascii(f, byte)

decoded(byte) ==
  IF "release" \in flags THEN reset_flags(flags, byte)
  ELSE IF "escape" \in flags THEN manage_escape_sequence(flags, byte)
  ELSE read_key(flags, byte)

-----------------------------------------------------------------------------
(* The line editor.  A state is [t, s, signal]: tty, screen, and whether   *)
(* the foreground got a SIGINT.                                            *)

tty_echo(st, c) ==
  IF st.t.echo THEN [st EXCEPT !.s = monitor_tm_write_byte(@, c)] ELSE st
echo_arrow(st, action) ==
  IF st.t.echo
  THEN [st EXCEPT !.s = handle_escape_sequence(@, Sequence(action, None, None))] ELSE st

\* Mutant: the characters behind the cursor are not moved.
insert_and_shift_over(buffer, c, at, len) ==
  [n \in DOMAIN buffer |-> IF n = at THEN c ELSE buffer[n]]

insert_and_shift(buffer, c, at, len) ==
  [n \in DOMAIN buffer |->
     IF n = at THEN c ELSE IF n \in at + 1 .. len - 1 THEN buffer[n - 1] ELSE buffer[n]]

delete_and_shift(buffer, at, len) ==
  [n \in DOMAIN buffer |-> IF n \in at .. len - 1 THEN buffer[n + 1] ELSE buffer[n]]

Inserted(st, c) ==
  [st EXCEPT !.t.buffer = insert_and_shift(@, c, st.t.pos, st.t.final + 1),
             !.t.final = @ + 1, !.t.pos = @ + 1]

\* The line is kept.
handle_etx_character(st) == [tty_echo(tty_echo(st, "^"), "C") EXCEPT !.signal = TRUE]

\* Mutant: at the beginning of the line too.
handle_backspace_character_anywhere(st) ==
  tty_echo([st EXCEPT !.t.final = @ - 1, !.t.pos = @ - 1], "bs")

handle_backspace_character(st) ==
  IF st.t.pos = 0 THEN st
  ELSE tty_echo([st EXCEPT
         !.t.final = @ - 1, !.t.pos = @ - 1,
         !.t.buffer = delete_and_shift(@, st.t.pos - 1, st.t.final - 1)], "bs")

\* `n' turns of the loop that echoes an arrow.
MovedRight(s, n) ==
  LET behind[k \in 0 .. n] ==
        IF k = 0 THEN s ELSE move_buffer_position_right(behind[k - 1])
  IN  behind[n]

\* The cursor goes one past the end of the line, on the screen and in the
\* buffer, and then one further.
handle_newline_character(st) ==
  LET steps == st.t.final - st.t.pos + 1
      moved == IF st.t.echo /\ steps > 0 THEN MovedRight(st.s, steps) ELSE st.s
      ended == [st EXCEPT
        !.t.buffer = [n \in DOMAIN @ |-> IF n = st.t.final THEN ENDL ELSE @[n]],
        !.t.newline = TRUE, !.t.final = @ + 1,
        !.t.pos = (IF steps > 0 THEN st.t.final + 1 ELSE @) + 1,
        !.s = moved]
  IN  tty_echo(ended, ENDL)

handle_ascii_control_character(st, c) ==
  LET u == CASE c = "etx" -> handle_etx_character(st)
             [] c = "bs" -> handle_backspace_character(st)
             [] c = ENDL -> handle_newline_character(st)
             [] OTHER -> st
  IN  IF st.t.canonical THEN u ELSE Inserted(u, c)

handle_ansi_escape_sequence(st, arrow) ==
  CASE arrow = "D" /\ st.t.pos > 0 -> echo_arrow([st EXCEPT !.t.pos = @ - 1], "D")
    [] arrow = "C" /\ st.t.pos < st.t.final -> echo_arrow([st EXCEPT !.t.pos = @ + 1], "C")
    [] OTHER -> st

handle_ascii_printable_character(st, c) ==
  LET u == Inserted(st, c)
  IN  IF st.t.echo THEN [u EXCEPT !.s = monitor_tm_insert_byte(@, c)] ELSE u

Present(st) == [st EXCEPT !.t.present = TRUE]

\* After an escape two characters are taken for the rest of a sequence.
write_to_keyboard_buffer(st, c) ==
  LET sequence == Append(st.t.esc, c)
  IN  IF st.t.canonical /\ sequence[1] = "esc"
      THEN IF Len(sequence) < 3 THEN [st EXCEPT !.t.esc = sequence]
           ELSE LET over == [st EXCEPT !.t.esc = <<>>]
                IN  IF sequence[2] = "[" /\ sequence[3] \in {"C", "D"}
                    THEN Present(handle_ansi_escape_sequence(over, sequence[3])) ELSE over
      ELSE IF c \in {"etx", "bs", ENDL, "esc"}
           THEN Present(handle_ascii_control_character(st, c))
           ELSE Present(handle_ascii_printable_character(st, c))

tty_is_ready(t) == IF t.canonical THEN t.newline ELSE t.present

-----------------------------------------------------------------------------
(* The person at the keyboard.                                             *)

\* What a key says, and what it does to a line.
Meaning(key) ==
  CASE key = "enter" -> ENDL [] key = "bksp" -> "bs"
    [] key = "c" -> IF held \cap {"ctrl", "rctrl"} # {} THEN "etx"
                    ELSE IF held \cap {"lshift", "rshift", "caps"} # {} THEN "C" ELSE "c"
    [] OTHER -> key
Letter(m) == m \in {"c", "C"}

Edited(m) ==
  LET text == line.text
      at   == line.cursor
  IN  CASE Letter(m) ->
             [text |-> SubSeq(text, 1, at) \o <<m>> \o SubSeq(text, at + 1, Len(text)),
              cursor |-> at + 1]
        [] m = "bs" /\ at > 0 ->
             [text |-> SubSeq(text, 1, at - 1) \o SubSeq(text, at + 1, Len(text)),
              cursor |-> at - 1]
        [] m = "left" /\ at > 0 -> [line EXCEPT !.cursor = @ - 1]
        [] m = "right" /\ at < Len(text) -> [line EXCEPT !.cursor = @ + 1]
        [] m = ENDL -> NoLine
        [] OTHER -> line

Types(key) ==
  LET m   == Meaning(key)
      end == anchor.at + Len(line.text)
  IN  /\ Keeps("short lines") /\ Letter(m) /\ tty.canonical =>
           (end % BUFFER_WIDTH) + 1 < BUFFER_WIDTH /\ tty.final + 2 < BufSize
      /\ Keeps("off the corner") /\ m = ENDL => end # Last
      /\ Keeps("no typing ahead") => expected = <<>>
      /\ Keeps("plain keys") =>
           IF tty.canonical THEN m # "esc" ELSE Letter(m) \/ m \in {"bs", "esc"}
      /\ Keeps("empty ^C") /\ m = "etx" => line.text = <<>>

\* A key is struck: its code and that of its release follow on the wire.
Strike(key) ==
  /\ wire = NoKey /\ key \notin Modifiers \cup {"caps"}
  /\ calls < MaxCalls
  /\ Types(key)
  /\ wire' = [key |-> key, left |-> KeyCode[key] \o ReleaseCode(key)]
  /\ UNCHANGED <<flags, tty, screen, reader, held, line, expected, anchor, faithful, calls>>

\* A modifier goes down, or up; Caps Lock changes.
Hold(key) ==
  /\ wire = NoKey /\ key \in Modifiers \cup {"caps"}
  /\ Keeps("one of a pair") => \A pair \in Pairs : key \in pair => held \cap pair \subseteq {key}
  /\ wire' = [key |-> key,
              left |-> IF key = "caps" THEN KeyCode[key] \o ReleaseCode(key)
                       ELSE IF key \in held THEN ReleaseCode(key) ELSE KeyCode[key]]
  /\ UNCHANGED <<flags, tty, screen, reader, held, line, expected, anchor, faithful, calls>>

-----------------------------------------------------------------------------
(* The interrupt of a byte.                                                *)

AfterAll(st, chars) ==
  LET after[n \in 0 .. Len(chars)] ==
        IF n = 0 THEN st ELSE write_to_keyboard_buffer(after[n - 1], chars[n])
  IN  after[Len(chars)]

\* With this byte a modifier has gone up or down, or another key is down.
Completed == IF wire.key \in Modifiers THEN Len(wire.left) = 1
             ELSE Len(wire.left) = Len(ReleaseCode(wire.key)) + 1

Typed(key, st) ==
  LET m == Meaning(key)
  IN  IF key \in Modifiers \cup {"caps"}
      THEN /\ held' = IF key \in held THEN held \ {key} ELSE held \cup {key}
           /\ UNCHANGED <<line, expected, anchor>>
      ELSE /\ line' = IF tty.canonical THEN Edited(m) ELSE NoLine
           /\ expected' = IF ~tty.canonical THEN <<m>>
                          ELSE IF m = ENDL THEN Append(line.text, ENDL) ELSE expected
           /\ anchor' = IF m \in {ENDL, "etx"} \/ ~tty.canonical THEN Anchor(st.s) ELSE anchor
           /\ UNCHANGED held

keyboard_interrupt_handler ==
  /\ wire # NoKey
  /\ LET byte == Head(wire.left)
         d    == decoded(byte)
         st   == AfterAll([t |-> tty, s |-> screen, signal |-> FALSE], d.chars)
     IN  /\ flags' = d.flags
         /\ tty' = st.t /\ screen' = st.s
         /\ reader' = IF st.signal THEN [reader EXCEPT !.state = "running"]
                      ELSE IF reader.state = "asleep" /\ tty_is_ready(st.t)
                      THEN [reader EXCEPT !.state = "ready"] ELSE reader
         /\ wire' = IF Len(wire.left) = 1 THEN NoKey ELSE [wire EXCEPT !.left = Tail(@)]
         /\ IF Completed THEN Typed(wire.key, st)
            ELSE UNCHANGED <<held, line, expected, anchor>>
  /\ UNCHANGED <<faithful, calls>>

-----------------------------------------------------------------------------
(* The program.                                                            *)

written_characters_count == IF tty.newline THEN tty.final ELSE IF tty.present THEN 1 ELSE 0

\* A terminator is stored behind what was read.
Delivers(count) ==
  LET offset == Min({count, written_characters_count})
      text   == [k \in 1 .. offset |-> tty.buffer[k - 1]]
  IN  /\ faithful' = (faithful /\ text = expected /\ offset < count)
      /\ tty' = [tty EXCEPT !.newline = FALSE, !.present = FALSE, !.final = 0, !.pos = 0]
      /\ reader' = [state |-> "running", count |-> 0]
      /\ line' = NoLine /\ expected' = <<>> /\ anchor' = Anchor(screen)
      /\ calls' = calls + 1
      /\ UNCHANGED <<flags, wire, screen, held>>

tty_read(count) ==
  /\ reader.state = "running" /\ calls < MaxCalls
  /\ Keeps("room") => count = BufSize
  /\ IF tty_is_ready(tty) THEN Delivers(count)
     ELSE /\ reader' = [state |-> "asleep", count |-> count]
          /\ UNCHANGED <<flags, wire, tty, screen, held, line, expected, anchor, faithful, calls>>

read_resumed == reader.state = "ready" /\ Delivers(reader.count)

Idle == wire = NoKey /\ line.text = <<>>

\* The arguments name places on the screen, and an area reaches to the last row.
Within(out) ==
  /\ out.action = "H" => OrOne(out.a) \in 1 .. BUFFER_HEIGHT /\ OrOne(out.b) \in 1 .. BUFFER_WIDTH
  /\ out.action = "G" => out.a \in {None} \cup 1 .. BUFFER_WIDTH
  /\ out.action = "r" /\ None \notin {out.a, out.b} =>
       out.a \in 1 .. BUFFER_HEIGHT /\ out.b = BUFFER_HEIGHT

\* A character, or a whole control sequence.
tty_write(out) ==
  LET is    == out.action = "text"
      moves == IF is THEN out.a = "bs" ELSE out.action = "D"
      next  == IF is THEN monitor_tm_write_byte(screen, out.a)
               ELSE handle_escape_sequence(screen, out)
  IN  /\ reader.state = "running" /\ calls < MaxCalls
      /\ Keeps("between lines") => Idle
      /\ Keeps("inside") => /\ Within(out)
                            /\ moves => Cursor(screen) # 0
                            /\ out.action = "C" => Cursor(screen) # Last
      /\ screen' = next /\ anchor' = Anchor(next)
      /\ calls' = calls + 1
      /\ UNCHANGED <<flags, wire, tty, reader, held, line, expected, faithful>>

\* TTY_ECHO and TTY_CANONICAL.
tty_ioctl(echo, canonical) ==
  /\ reader.state = "running"
  /\ Keeps("between lines") => Idle /\ ~tty.present
  /\ <<echo, canonical>> # <<tty.echo, tty.canonical>>
  /\ tty' = [tty EXCEPT !.echo = echo, !.canonical = canonical]
  /\ UNCHANGED <<flags, wire, screen, reader, held, line, expected, anchor, faithful, calls>>

Next ==
  \/ keyboard_interrupt_handler
  \/ \E key \in Keys : Strike(key) \/ Hold(key)
  \/ \E count \in {2, BufSize} : tty_read(count)
  \/ read_resumed
  \/ \E out \in Output : tty_write(out)
  \/ \E echo \in BOOLEAN, canonical \in BOOLEAN : tty_ioctl(echo, canonical)

Spec == Init /\ [][Next]_vars

-----------------------------------------------------------------------------
(* Properties.                                                             *)

\* The cursor is on the screen, and both positions of the line editor are in its
\* buffer: neither array is written to past its end, by echoes, by output or by
\* the end of a line.
TypeOK ==
  /\ flags \subseteq {"release", "shift", "ctrl", "escape", "caps"}
  /\ OnScreen(screen) /\ screen.top \in Rows /\ screen.bottom \in Rows
  /\ screen.chars \in [Cells -> {Empty, EMPTY_SPACE, ENDL, "c", "C", "^", "["}]
  /\ tty.final \in 0 .. BufSize - 1 /\ tty.pos \in 0 .. BufSize
  /\ {tty.newline, tty.present, tty.echo, tty.canonical} \subseteq BOOLEAN
  /\ reader.state \in {"running", "asleep", "ready"} /\ faithful \in BOOLEAN
  /\ line.cursor \in 0 .. Len(line.text)

\* A read returns what was typed, as edited and once: the modifiers that were
\* down, arrows, backspaces in the middle, echo and mode changes, interrupted
\* lines and whoever wakes make no difference.
LineDelivered == faithful

\* While a line is edited, the screen shows it, with the cursor where the next
\* character goes, and nothing behind it that was not there.
ScreenShowsLine ==
  tty.canonical /\ tty.echo /\ wire = NoKey =>
    /\ Cursor(screen) = anchor.at + line.cursor
    /\ \A k \in DOMAIN line.text : screen.chars[anchor.at + k - 1] = line.text[k]
    /\ anchor.clean => \A n \in Cells :
         n >= anchor.at + Len(line.text) => screen.chars[n] = Empty
=============================================================================
