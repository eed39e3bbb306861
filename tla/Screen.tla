------------------------------- MODULE Screen -------------------------------
(***************************************************************************)
(* The text screen: src/drivers/monitor_text_mode.c, without colours.      *)
(*                                                                         *)
(* A screen is [chars, row, col, top, bottom].  Its cells are numbered in  *)
(* reading order, which is how the code walks when it shifts a line over   *)
(* its end.  The code has no check on the cursor: a character saved        *)
(* outside the cells is dropped here, and written elsewhere by the code.   *)
(***************************************************************************)
EXTENDS Integers, FiniteSetsExt

CONSTANTS BUFFER_HEIGHT, BUFFER_WIDTH

ASSUME ScreenAssumption ==
  /\ BUFFER_HEIGHT \in Nat \ {0, 1} /\ BUFFER_WIDTH \in Nat \ {0, 1}

Rows == 0 .. BUFFER_HEIGHT - 1
Cols == 0 .. BUFFER_WIDTH - 1
Last == BUFFER_HEIGHT * BUFFER_WIDTH - 1
Cells == 0 .. Last

Empty == "0"          \* a cell nothing was written to
EMPTY_SPACE == " "
ENDL == "nl"

CellAt(row, col) == row * BUFFER_WIDTH + col
Cursor(s) == CellAt(s.row, s.col)
RowOf(n) == n \div BUFFER_WIDTH
OnScreen(s) == s.row \in Rows /\ s.col \in Cols

ScreenWriter ==
  [chars |-> [n \in Cells |-> Empty], row |-> 0, col |-> 0,
   top |-> 0, bottom |-> BUFFER_HEIGHT - 1]

move_buffer_position_up(s) == IF s.row # 0 THEN [s EXCEPT !.row = @ - 1] ELSE s
move_buffer_position_dn(s) ==
  IF s.row < BUFFER_HEIGHT - 1 THEN [s EXCEPT !.row = @ + 1] ELSE s

\* Past either end of a row; the first and the last row are not looked at.
move_buffer_position_left(s) ==
  IF s.col = 0 THEN [s EXCEPT !.row = @ - 1, !.col = BUFFER_WIDTH - 1]
  ELSE [s EXCEPT !.col = @ - 1]

move_buffer_position_right(s) ==
  IF s.col = BUFFER_WIDTH - 1 THEN [s EXCEPT !.row = @ + 1, !.col = 0]
  ELSE [s EXCEPT !.col = @ + 1]

save_char_to_buffer(s, c) ==
  [s EXCEPT !.chars = [n \in Cells |-> IF n = Cursor(s) THEN c ELSE @[n]]]

\* The rows of the area move by n, and its last row, or the first, is emptied.
scroll_vertical_dir_up(s, n) ==
  [s EXCEPT !.chars = [m \in Cells |->
     IF RowOf(m) \notin s.top .. s.bottom THEN @[m]
     ELSE IF RowOf(m) = s.bottom \/ RowOf(m) + n > s.bottom THEN Empty
     ELSE @[m + n * BUFFER_WIDTH]]]

scroll_vertical_dir_dn(s, n) ==
  [s EXCEPT !.chars = [m \in Cells |->
     IF RowOf(m) \notin s.top .. s.bottom THEN @[m]
     ELSE IF RowOf(m) = s.top \/ RowOf(m) - n < s.top THEN Empty
     ELSE @[m - n * BUFFER_WIDTH]]]

move_start_next_line(s) ==
  IF s.row = s.bottom THEN scroll_vertical_dir_up(s, 1) ELSE [s EXCEPT !.row = @ + 1]

write_new_line(s) ==
  [move_start_next_line(save_char_to_buffer(s, ENDL)) EXCEPT !.col = 0]

\* A full row ends in the mark of its end, which takes the place of its last
\* character.
write_with_line_overflow_if_needed(s, c) ==
  LET t == save_char_to_buffer(s, c)
  IN  IF s.col + 1 = BUFFER_WIDTH THEN write_new_line(t) ELSE [t EXCEPT !.col = @ + 1]

\* Mutant: the space takes the place of a character.
scroll_horizontal_right_over(s, from) ==
  [s EXCEPT !.chars = [m \in Cells |-> IF m = from THEN EMPTY_SPACE ELSE @[m]]]

\* A space is opened, and what follows moves up to the next empty cell.
scroll_horizontal_right(s, from) ==
  LET free == {m \in Cells : m > from /\ s.chars[m] = Empty}
      to   == IF free = {} THEN Last ELSE Min(free)
  IN  [s EXCEPT !.chars = [m \in Cells |->
         IF m = from THEN EMPTY_SPACE
         ELSE IF m \in from + 1 .. to THEN @[m - 1] ELSE @[m]]]

\* Everything to the end of the screen moves back; a mark is not taken over the
\* end of a row.
scroll_horizontal_left(s, from) ==
  [s EXCEPT !.chars = [m \in Cells |->
     IF m < from THEN @[m]
     ELSE IF m = Last THEN Empty
     ELSE IF (m + 1) % BUFFER_WIDTH = 0 /\ @[m + 1] = ENDL THEN Empty
     ELSE @[m + 1]]]

\* Within the row; what stands behind its last mark is blanked.
scroll_horizontal_right_no_wrap(s) ==
  LET before(m) == {k \in m - 1 .. CellAt(s.row, BUFFER_WIDTH - 2) : s.chars[k] = ENDL}
  IN  [s EXCEPT !.chars = [m \in Cells |->
         IF RowOf(m) # s.row \/ m < Cursor(s) THEN @[m]
         ELSE IF m = Cursor(s) \/ before(m) = {} THEN EMPTY_SPACE
         ELSE @[m - 1]]]

scroll_horizontal_left_no_wrap(s) ==
  [s EXCEPT !.chars = [m \in Cells |->
     IF RowOf(m) # s.row \/ m < Cursor(s) THEN @[m]
     ELSE IF m = CellAt(s.row, BUFFER_WIDTH - 1) THEN Empty
     ELSE @[m + 1]]]

clear_screen(s) == [s EXCEPT !.chars = [n \in Cells |-> Empty]]

\* A control sequence, [final byte, arguments]; an argument left out is None.
None == -1
Sequence(action, a, b) == [action |-> action, a |-> a, b |-> b]
OrOne(argument) == IF argument = None THEN 1 ELSE argument

handle_escape_sequence(s, e) ==
  CASE e.action = "A" -> move_buffer_position_up(s)
    [] e.action = "B" -> move_buffer_position_dn(s)
    [] e.action = "C" -> move_buffer_position_right(s)
    [] e.action = "D" -> move_buffer_position_left(s)
    [] e.action = "E" -> move_start_next_line(s)
    [] e.action = "H" -> [s EXCEPT !.row = OrOne(e.a) - 1, !.col = OrOne(e.b) - 1]
    [] e.action = "S" -> scroll_vertical_dir_up(s, OrOne(e.a))
    [] e.action = "T" -> scroll_vertical_dir_dn(s, OrOne(e.a))
    [] e.action = "J" -> IF e.a = 2 THEN clear_screen(s) ELSE s
    [] e.action = "G" -> IF e.a # None THEN [s EXCEPT !.col = e.a - 1] ELSE s
    [] e.action = "r" -> IF None \in {e.a, e.b} THEN s
                         ELSE [s EXCEPT !.top = e.a - 1, !.bottom = e.b - 1]
    [] e.action = "@" -> scroll_horizontal_right_no_wrap(s)
    [] e.action = "P" -> scroll_horizontal_left_no_wrap(s)
    [] OTHER -> s

monitor_tm_write_byte(s, c) ==
  CASE c = ENDL -> write_new_line(s)
    [] c = "bs" -> LET t == move_buffer_position_left(s)
                   IN  scroll_horizontal_left(t, Cursor(t))
    [] c = "cr" -> [s EXCEPT !.col = 0]
    [] OTHER -> write_with_line_overflow_if_needed(s, c)

monitor_tm_insert_byte(s, c) ==
  monitor_tm_write_byte(scroll_horizontal_right(s, Cursor(s)), c)
=============================================================================
