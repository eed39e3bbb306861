---------------------------- MODULE TerminalProofs ----------------------------
(***************************************************************************)
(* What is proved about the terminal of module Terminal, for screens, line *)
(* buffers and programs of any kind.                                       *)
(***************************************************************************)
EXTENDS Terminal, TLAPS, SequenceTheorems, WellFoundedInduction

-----------------------------------------------------------------------------
(* The invariant                                                           *)

Letters == {"c", "C"}
Marks == {Empty, "c", "C", "bs", "esc", ENDL}
Glyphs == {Empty, EMPTY_SPACE, ENDL, "c", "C", "^", "["}

Buffers == [0 .. BufSize - 1 -> Marks]
TTYs == [buffer : Buffers, final : 0 .. BufSize - 1, pos : 0 .. BufSize,
         newline : BOOLEAN, present : BOOLEAN, echo : BOOLEAN, canonical : BOOLEAN,
         esc : {<<>>}]
Lines == [text : Seq(Letters), cursor : Nat]
Screens == [chars : [Cells -> Glyphs], row : Rows, col : Cols,
            top : Rows, bottom : {BUFFER_HEIGHT - 1}]
Anchors == [at : Cells, clean : BOOLEAN]

\* The first n characters in the buffer.
Read(buffer, n) == [k \in 1 .. n |-> buffer[k - 1]]

\* The buffer holds the line, or what the next read returns.
Holds(t, l, e) ==
  /\ ~t.present => /\ t.final = 0 /\ t.pos = 0 /\ ~t.newline
                   /\ l = NoLine /\ e = <<>>
  /\ t.canonical /\ t.newline =>
       t.final # 0 /\ l = NoLine /\ e = Read(t.buffer, t.final)
  /\ t.canonical /\ ~t.newline =>
       /\ e = <<>> /\ t.final + 1 < BufSize
       /\ l.text = Read(t.buffer, t.final)
       /\ t.pos = l.cursor /\ t.pos <= t.final
  /\ ~t.canonical =>
       /\ ~t.newline /\ l = NoLine
       /\ t.present => t.final = 1 /\ t.pos = 1 /\ e = Read(t.buffer, 1)

\* The line is on the screen, in one row, and with nothing behind it.
Shown(s, l, a) ==
  /\ Cursor(s) = a.at + l.cursor
  /\ l.cursor <= Len(l.text)
  /\ (a.at % BUFFER_WIDTH) + Len(l.text) < BUFFER_WIDTH
  /\ \A k \in DOMAIN l.text : s.chars[a.at + k - 1] = l.text[k]
  /\ a.clean => \A n \in Cells : n >= a.at + Len(l.text) => s.chars[n] = Empty

Shows(s, t, l, a) ==
  /\ ~t.present => a = Anchor(s)
  /\ t.canonical /\ t.echo => Shown(s, l, a)

\* The flags say which modifiers are held.
FlagsOf(h) ==
  (IF h \cap {"lshift", "rshift"} # {} THEN {"shift"} ELSE {})
  \cup (IF h \cap {"ctrl", "rctrl"} # {} THEN {"ctrl"} ELSE {})
  \cup (IF "caps" \in h THEN {"caps"} ELSE {})
Helds == {h \in SUBSET (Modifiers \cup {"caps"}) :
            \A pair \in Pairs : ~(pair \subseteq h)}

\* What is left on the wire of a modifier that goes down, of a stroke, and of a
\* release; and the flag that is up then.
LastByte(key) == KeyCode[key][Len(KeyCode[key])]
Sent(left, mark, key, h) ==
  LET b      == LastByte(key)
      down   == key \in Modifiers \ h
      stroke == key \notin Modifiers
      up     == stroke \/ key \in h
  IN  IF Len(KeyCode[key]) = 1
      THEN \/ down /\ left = <<b>> /\ mark = {}
           \/ stroke /\ left = <<b, "F0", b>> /\ mark = {}
           \/ up /\ left = <<"F0", b>> /\ mark = {}
           \/ up /\ left = <<b>> /\ mark = {"release"}
      ELSE \/ down /\ left = <<"E0", b>> /\ mark = {}
           \/ down /\ left = <<b>> /\ mark = {"escape"}
           \/ stroke /\ left = <<"E0", b, "E0", "F0", b>> /\ mark = {}
           \/ stroke /\ left = <<b, "E0", "F0", b>> /\ mark = {"escape"}
           \/ up /\ left = <<"E0", "F0", b>> /\ mark = {}
           \/ up /\ left = <<"F0", b>> /\ mark = {"escape"}
           \/ up /\ left = <<b>> /\ mark = {"release"}

Wired(f, w, h) ==
  /\ h \in Helds
  /\ \/ w = NoKey /\ f = FlagsOf(h)
     \/ /\ w.key \in DOMAIN KeyCode /\ w = [key |-> w.key, left |-> w.left]
        /\ \E mark \in {{}, {"escape"}, {"release"}} :
             Sent(w.left, mark, w.key, h) /\ f = FlagsOf(h) \cup mark
        /\ w.key \in Modifiers \ h =>
             \A pair \in Pairs : w.key \in pair => h \cap pair = {}

\* The press of a key that is still on its way.
Coming(w) ==
  /\ w # NoKey /\ w.key \notin Modifiers \cup {"caps"}
  /\ Len(w.left) > Len(ReleaseCode(w.key))

Waiting ==
  /\ reader \in [state : {"running", "asleep", "ready"}, count : Nat]
  /\ reader.state # "running" => reader.count = BufSize
  /\ reader.state = "ready" => tty_is_ready(tty)

IInv ==
  /\ tty \in TTYs /\ line \in Lines /\ screen \in Screens /\ anchor \in Anchors
  /\ Holds(tty, line, expected) /\ Shows(screen, tty, line, anchor)
  /\ Wired(flags, wire, held)
  /\ Coming(wire) => Types(wire.key)
  /\ Waiting /\ faithful = TRUE

-----------------------------------------------------------------------------
(* Cells                                                                   *)

\* What the assumption says of the sizes.
LEMMA Widths ==
  /\ BUFFER_HEIGHT \in Nat /\ BUFFER_HEIGHT >= 2
  /\ BUFFER_WIDTH \in Nat /\ BUFFER_WIDTH >= 2
  /\ BufSize \in Nat /\ BufSize >= 3
  BY ScreenAssumption, TerminalAssumption

\* A product grows with its factor.
LEMMA Products ==
  ASSUME NEW r \in Nat, NEW h \in Nat, NEW w \in Nat, r <= h
  PROVE  r * w \in Nat /\ h * w \in Nat /\ r * w <= h * w
  OBVIOUS

\* Quotient and remainder are the only ones.
LEMMA DivisionUnique ==
  ASSUME NEW q \in Nat, NEW b \in Nat \ {0}, NEW r \in 0 .. b - 1
  PROVE  (q * b + r) \div b = q /\ (q * b + r) % b = r
  OBVIOUS

\* A place on the screen is a cell, and the other way round.
LEMMA PlaceIsCell ==
  ASSUME NEW r \in Rows, NEW c \in Cols
  PROVE  /\ CellAt(r, c) \in Cells
         /\ CellAt(r, c) \div BUFFER_WIDTH = r /\ CellAt(r, c) % BUFFER_WIDTH = c
  <1>1. r \in Nat /\ c \in 0 .. BUFFER_WIDTH - 1 /\ BUFFER_WIDTH \in Nat \ {0}
    BY Widths DEF Rows, Cols
  <1>2. (r * BUFFER_WIDTH + c) \div BUFFER_WIDTH = r /\ (r * BUFFER_WIDTH + c) % BUFFER_WIDTH = c
    BY <1>1
  <1>3. r * BUFFER_WIDTH + c \in Nat
    BY <1>1
  <1>4. r + 1 <= BUFFER_HEIGHT
    BY Widths DEF Rows
  <1>5. (r + 1) * BUFFER_WIDTH <= BUFFER_HEIGHT * BUFFER_WIDTH
    BY <1>1, <1>4, Products, Widths
  <1>6. (r + 1) * BUFFER_WIDTH = r * BUFFER_WIDTH + BUFFER_WIDTH
    BY <1>1
  <1>7. BUFFER_HEIGHT * BUFFER_WIDTH \in Nat
    BY Widths
  <1>8. r * BUFFER_WIDTH + c <= BUFFER_HEIGHT * BUFFER_WIDTH - 1
    BY <1>1, <1>5, <1>6, <1>7
  <1> QED
    BY <1>2, <1>3, <1>7, <1>8 DEF CellAt, Cells, Last

\* Quotient and remainder.
LEMMA Division ==
  ASSUME NEW x \in Nat, NEW b \in Nat \ {0}
  PROVE  /\ x \div b \in Nat /\ x % b \in 0 .. b - 1
         /\ x = (x \div b) * b + (x % b)
  <1>1. x \div b \in Int /\ x % b \in 0 .. b - 1
    OBVIOUS
  <1>2. x = b * (x \div b) + (x % b)
    OBVIOUS
  <1>3. PICK q \in Int, r \in 0 .. b - 1 : q = x \div b /\ r = x % b
    BY <1>1
  <1>4. x = b * q + r
    BY <1>2, <1>3
  <1>5. q * b = b * q
    OBVIOUS
  <1>6. q >= 0
    <2> SUFFICES ASSUME q < 0
                 PROVE  FALSE
      OBVIOUS
    <2>1. q + 1 <= 0
      OBVIOUS
    <2>2. b * (q + 1) <= 0
      BY <2>1
    <2> QED
      BY <1>4, <2>2
  <1> QED
    BY <1>3, <1>4, <1>5, <1>6

\* A cell is a place in a row and a column.
LEMMA CellIsPlace ==
  ASSUME NEW n \in Cells
  PROVE  RowOf(n) \in Rows /\ n % BUFFER_WIDTH \in Cols /\ n = CellAt(RowOf(n), n % BUFFER_WIDTH)
  <1>1. BUFFER_HEIGHT * BUFFER_WIDTH \in Nat /\ BUFFER_WIDTH \in Nat \ {0} /\ BUFFER_HEIGHT \in Nat
    BY Widths
  <1>2. n \in Nat /\ n < BUFFER_HEIGHT * BUFFER_WIDTH
    BY <1>1 DEF Cells, Last
  <1>3. PICK q \in Nat, c \in 0 .. BUFFER_WIDTH - 1 :
          /\ q = n \div BUFFER_WIDTH /\ c = n % BUFFER_WIDTH /\ n = q * BUFFER_WIDTH + c
    BY <1>1, <1>2, Division
  <1>4. q < BUFFER_HEIGHT
    <2> SUFFICES ASSUME BUFFER_HEIGHT <= q
                 PROVE  FALSE
      BY <1>1
    <2>1. BUFFER_HEIGHT * BUFFER_WIDTH <= q * BUFFER_WIDTH /\ q * BUFFER_WIDTH \in Nat
      BY <1>1, Products
    <2> QED
      BY <1>1, <1>2, <1>3, <2>1
  <1> QED
    BY <1>1, <1>3, <1>4 DEF RowOf, Rows, Cols, CellAt

\* A step to the right from a cell but the last leads to the next one.
LEMMA NextCell ==
  ASSUME NEW n \in Cells, n # Last
  PROVE  /\ n + 1 \in Cells
         /\ n % BUFFER_WIDTH = BUFFER_WIDTH - 1 =>
              (n + 1) \div BUFFER_WIDTH = RowOf(n) + 1 /\ (n + 1) % BUFFER_WIDTH = 0
         /\ n % BUFFER_WIDTH # BUFFER_WIDTH - 1 =>
              /\ (n + 1) \div BUFFER_WIDTH = RowOf(n)
              /\ (n + 1) % BUFFER_WIDTH = (n % BUFFER_WIDTH) + 1
  <1>1. BUFFER_HEIGHT * BUFFER_WIDTH \in Nat /\ BUFFER_WIDTH \in Nat \ {0} /\ BUFFER_WIDTH >= 2
    BY Widths
  <1>2. n + 1 \in Cells
    BY <1>1 DEF Cells, Last
  <1>3. PICK q \in Rows, c \in Cols :
          q = RowOf(n) /\ c = n % BUFFER_WIDTH /\ n = q * BUFFER_WIDTH + c
    BY CellIsPlace DEF CellAt
  <1>4. q \in Nat /\ c \in Nat /\ q * BUFFER_WIDTH \in Nat /\ c <= BUFFER_WIDTH - 1
    BY <1>1, <1>3 DEF Rows, Cols
  <1>5. CASE c = BUFFER_WIDTH - 1
    <2>1. PICK p \in Nat : p = q + 1
      BY <1>4
    <2>2. p * BUFFER_WIDTH = q * BUFFER_WIDTH + BUFFER_WIDTH
      BY <1>1, <1>4, <2>1
    <2>3. n + 1 = p * BUFFER_WIDTH + 0
      BY <1>1, <1>3, <1>4, <1>5, <2>2
    <2>4. 0 \in 0 .. BUFFER_WIDTH - 1
      BY <1>1
    <2>5. (p * BUFFER_WIDTH + 0) \div BUFFER_WIDTH = p /\ (p * BUFFER_WIDTH + 0) % BUFFER_WIDTH = 0
      BY <1>1, <2>4, DivisionUnique
    <2>6. (n + 1) \div BUFFER_WIDTH = q + 1 /\ (n + 1) % BUFFER_WIDTH = 0
      BY <2>1, <2>3, <2>5
    <2> QED
      BY <1>1, <1>2, <1>3, <1>5, <2>6
  <1>6. CASE c # BUFFER_WIDTH - 1
    <2>1. n + 1 = q * BUFFER_WIDTH + (c + 1) /\ c + 1 \in 0 .. BUFFER_WIDTH - 1
      BY <1>1, <1>3, <1>4, <1>6
    <2>2. /\ (q * BUFFER_WIDTH + (c + 1)) \div BUFFER_WIDTH = q
          /\ (q * BUFFER_WIDTH + (c + 1)) % BUFFER_WIDTH = c + 1
      BY <1>1, <1>4, <2>1, DivisionUnique
    <2> QED
      BY <1>2, <1>3, <1>6, <2>1, <2>2
  <1> QED
    BY <1>5, <1>6

-----------------------------------------------------------------------------
(* The operations of the screen keep the cursor on it                      *)

\* What a screen has.
LEMMA Fields ==
  ASSUME NEW s \in Screens
  PROVE  /\ s = [chars |-> s.chars, row |-> s.row, col |-> s.col, top |-> s.top, bottom |-> s.bottom]
         /\ s.chars \in [Cells -> Glyphs] /\ s.row \in Rows /\ s.col \in Cols
         /\ s.top \in Rows /\ s.bottom = BUFFER_HEIGHT - 1
  BY DEF Screens

\* The cursor is on a cell.
LEMMA CursorIsCell ==
  ASSUME NEW s \in Screens
  PROVE  /\ Cursor(s) \in Cells
         /\ RowOf(Cursor(s)) = s.row /\ Cursor(s) % BUFFER_WIDTH = s.col
  BY Fields, PlaceIsCell DEF Cursor, RowOf

Placed(s, row, col) == [s EXCEPT !.row = row, !.col = col]
Filled(s, chars) == [s EXCEPT !.chars = chars]

\* A screen whose cursor was placed.
LEMMA Moved ==
  ASSUME NEW s \in Screens, NEW row \in Rows, NEW col \in Cols,
         NEW t, t = Placed(s, row, col)
  PROVE  /\ t \in Screens /\ t.chars = s.chars /\ t.row = row /\ t.col = col
         /\ Cursor(t) = CellAt(row, col) /\ t.top = s.top
  BY DEF Screens, Cursor, Placed

\* A screen whose cells were filled.
LEMMA Rewritten ==
  ASSUME NEW s \in Screens, NEW chars \in [Cells -> Glyphs],
         NEW t, t = Filled(s, chars)
  PROVE  /\ t \in Screens /\ t.chars = chars /\ t.row = s.row /\ t.col = s.col
         /\ Cursor(t) = Cursor(s) /\ t.bottom = s.bottom /\ t.top = s.top
  BY DEF Screens, Cursor, Filled

\* The cursor goes right, but for the last cell.
LEMMA GoesRight ==
  ASSUME NEW s \in Screens, Cursor(s) # Last,
         NEW t, t = move_buffer_position_right(s)
  PROVE  t \in Screens /\ Cursor(t) = Cursor(s) + 1 /\ t.chars = s.chars /\ t.top = s.top
  <1> DEFINE n == Cursor(s)
  <1>1. n \in Cells /\ s.row = RowOf(n) /\ s.col = n % BUFFER_WIDTH
    BY CursorIsCell
  <1>2. n + 1 \in Cells
    BY <1>1, NextCell
  <1>3. /\ RowOf(n + 1) \in Rows /\ (n + 1) % BUFFER_WIDTH \in Cols
        /\ CellAt(RowOf(n + 1), (n + 1) % BUFFER_WIDTH) = n + 1
    BY <1>2, CellIsPlace
  <1>4. s.row \in Rows /\ s.col \in Cols
    BY Fields
  <1>5. move_buffer_position_right(s) = [s EXCEPT !.row = RowOf(n + 1), !.col = (n + 1) % BUFFER_WIDTH]
    <2> HIDE DEF n
    <2>1. CASE s.col = BUFFER_WIDTH - 1
      <3>1. RowOf(n + 1) = s.row + 1 /\ (n + 1) % BUFFER_WIDTH = 0
        BY <1>1, <2>1, NextCell DEF RowOf, n
      <3> QED
        BY <2>1, <3>1, Fields DEF move_buffer_position_right
    <2>2. CASE s.col # BUFFER_WIDTH - 1
      <3>1. RowOf(n + 1) = s.row /\ (n + 1) % BUFFER_WIDTH = s.col + 1
        BY <1>1, <2>2, NextCell DEF RowOf, n
      <3>2. s = [s EXCEPT !.row = s.row]
        BY DEF Screens
      <3>3. [s EXCEPT !.row = s.row, !.col = s.col + 1] = [s EXCEPT !.col = s.col + 1]
        BY <3>2
      <3> QED
        BY <2>2, <3>1, <3>3 DEF move_buffer_position_right
    <2> QED
      BY <2>1, <2>2
  <1>6. PICK row \in Rows, col \in Cols : row = RowOf(n + 1) /\ col = (n + 1) % BUFFER_WIDTH
    BY <1>3
  <1>7. t = Placed(s, row, col) /\ CellAt(row, col) = n + 1
    BY <1>3, <1>5, <1>6 DEF Placed
  <1>8. t \in Screens /\ Cursor(t) = CellAt(row, col) /\ t.chars = s.chars /\ t.top = s.top
    BY <1>6, <1>7, Moved
  <1> QED
    BY <1>7, <1>8

\* The cursor goes left, but for the first cell.
LEMMA GoesLeft ==
  ASSUME NEW s \in Screens, Cursor(s) # 0,
         NEW t, t = move_buffer_position_left(s)
  PROVE  t \in Screens /\ Cursor(t) = Cursor(s) - 1 /\ t.chars = s.chars
  <1> DEFINE n == Cursor(s) - 1
  <1>1. Cursor(s) \in Cells /\ s.row = RowOf(Cursor(s)) /\ s.col = Cursor(s) % BUFFER_WIDTH
    BY CursorIsCell
  <1>2. n \in Cells /\ n # Last /\ n + 1 = Cursor(s)
    BY <1>1, Widths DEF Cells, Last
  <1>3. RowOf(n) \in Rows /\ n % BUFFER_WIDTH \in Cols /\ CellAt(RowOf(n), n % BUFFER_WIDTH) = n
    BY <1>2, CellIsPlace
  <1>4. move_buffer_position_left(s) = [s EXCEPT !.row = RowOf(n), !.col = n % BUFFER_WIDTH]
    <2> HIDE DEF n
    <2>1. CASE n % BUFFER_WIDTH = BUFFER_WIDTH - 1
      <3>1. RowOf(n) = s.row - 1 /\ s.col = 0
        BY <1>1, <1>2, <1>3, <2>1, NextCell, Fields DEF RowOf, Rows
      <3> QED
        BY <2>1, <3>1, Fields DEF move_buffer_position_left
    <2>2. CASE n % BUFFER_WIDTH # BUFFER_WIDTH - 1
      <3>1. RowOf(n) = s.row /\ n % BUFFER_WIDTH = s.col - 1 /\ s.col # 0
        BY <1>1, <1>2, <1>3, <2>2, NextCell, Fields DEF RowOf, Cols
      <3>2. s = [s EXCEPT !.row = s.row]
        BY DEF Screens
      <3>3. [s EXCEPT !.row = s.row, !.col = s.col - 1] = [s EXCEPT !.col = s.col - 1]
        BY <3>2
      <3> QED
        BY <2>2, <3>1, <3>3 DEF move_buffer_position_left
    <2> QED
      BY <2>1, <2>2
  <1>5. PICK row \in Rows, col \in Cols : row = RowOf(n) /\ col = n % BUFFER_WIDTH
    BY <1>3
  <1>6. t = Placed(s, row, col) /\ CellAt(row, col) = n
    BY <1>3, <1>4, <1>5 DEF Placed
  <1>7. t \in Screens /\ Cursor(t) = CellAt(row, col) /\ t.chars = s.chars
    BY <1>5, <1>6, Moved
  <1> QED
    BY <1>6, <1>7

\* A character is put where the cursor is.
LEMMA Saved ==
  ASSUME NEW s \in Screens, NEW c \in Glyphs,
         NEW t, t = save_char_to_buffer(s, c)
  PROVE  /\ t \in Screens /\ t.row = s.row /\ t.col = s.col
         /\ t.chars = [n \in Cells |-> IF n = Cursor(s) THEN c ELSE s.chars[n]]
  <1> PICK chars : chars = [n \in Cells |-> IF n = Cursor(s) THEN c ELSE s.chars[n]]
    OBVIOUS
  <1>1. chars \in [Cells -> Glyphs]
    BY Fields
  <1>2. t = Filled(s, chars)
    BY DEF Filled, save_char_to_buffer
  <1>3. t \in Screens /\ t.chars = chars /\ t.row = s.row /\ t.col = s.col
    BY <1>1, <1>2, Rewritten
  <1> QED
    BY <1>3

\* The rows of the scrolling area move up or down.
LEMMA ScrolledUp ==
  ASSUME NEW s \in Screens, NEW n \in Nat,
         NEW t, t = scroll_vertical_dir_up(s, n)
  PROVE  t \in Screens /\ t.row = s.row /\ t.col = s.col
  <1> PICK chars : chars = [m \in Cells |->
                     IF RowOf(m) \notin s.top .. s.bottom THEN s.chars[m]
                     ELSE IF RowOf(m) = s.bottom \/ RowOf(m) + n > s.bottom THEN Empty
                     ELSE s.chars[m + n * BUFFER_WIDTH]]
    OBVIOUS
  <1>1. ASSUME NEW m \in Cells, RowOf(m) \in s.top .. s.bottom, RowOf(m) + n <= s.bottom
        PROVE  m + n * BUFFER_WIDTH \in Cells
    <2>1. RowOf(m) + n \in Rows /\ m % BUFFER_WIDTH \in Cols
      BY <1>1, CellIsPlace, Fields, Widths DEF Rows
    <2>2. CellAt(RowOf(m) + n, m % BUFFER_WIDTH) \in Cells
      BY <2>1, PlaceIsCell
    <2>3. PICK r \in Rows, c \in Cols : r = RowOf(m) /\ c = m % BUFFER_WIDTH /\ m = r * BUFFER_WIDTH + c
      BY CellIsPlace DEF CellAt
    <2>4. (r + n) * BUFFER_WIDTH = r * BUFFER_WIDTH + n * BUFFER_WIDTH
      BY Widths DEF Rows
    <2>5. (r + n) * BUFFER_WIDTH + c \in Cells
      BY <2>2, <2>3 DEF CellAt
    <2>6. r * BUFFER_WIDTH \in Nat /\ n * BUFFER_WIDTH \in Nat /\ c \in Nat
      BY <2>3, Widths DEF Rows, Cols
    <2> QED
      BY <2>3, <2>4, <2>5, <2>6
  <1>2. chars \in [Cells -> Glyphs]
    <2>1. ASSUME NEW m \in Cells
          PROVE  chars[m] \in Glyphs
      <3>1. CASE RowOf(m) \in s.top .. s.bottom /\ RowOf(m) + n <= s.bottom
        BY <1>1, <3>1, Fields DEF Glyphs
      <3>2. CASE RowOf(m) \notin s.top .. s.bottom
        BY <3>2, Fields
      <3>3. CASE RowOf(m) \in s.top .. s.bottom /\ ~(RowOf(m) + n <= s.bottom)
        <4>1. RowOf(m) + n > s.bottom
          BY <3>3, CellIsPlace, Fields, Widths DEF Rows
        <4> QED
          BY <3>3, <4>1 DEF Glyphs
      <3> QED
        BY <3>1, <3>2, <3>3
    <2> QED
      BY <2>1
  <1>3. t = Filled(s, chars)
    BY DEF Filled, scroll_vertical_dir_up
  <1> QED
    BY <1>2, <1>3, Rewritten

\* Scrolling leaves a screen.
LEMMA ScrolledDown ==
  ASSUME NEW s \in Screens, NEW n \in Nat,
         NEW t, t = scroll_vertical_dir_dn(s, n)
  PROVE  t \in Screens /\ t.row = s.row /\ t.col = s.col
  <1> PICK chars : chars = [m \in Cells |->
                     IF RowOf(m) \notin s.top .. s.bottom THEN s.chars[m]
                     ELSE IF RowOf(m) = s.top \/ RowOf(m) - n < s.top THEN Empty
                     ELSE s.chars[m - n * BUFFER_WIDTH]]
    OBVIOUS
  <1>1. ASSUME NEW m \in Cells, RowOf(m) \in s.top .. s.bottom, s.top <= RowOf(m) - n
        PROVE  m - n * BUFFER_WIDTH \in Cells
    <2>1. RowOf(m) - n \in Rows /\ m % BUFFER_WIDTH \in Cols
      BY <1>1, CellIsPlace, Fields, Widths DEF Rows
    <2>2. CellAt(RowOf(m) - n, m % BUFFER_WIDTH) \in Cells
      BY <2>1, PlaceIsCell
    <2>3. PICK r \in Rows, c \in Cols : r = RowOf(m) /\ c = m % BUFFER_WIDTH /\ m = r * BUFFER_WIDTH + c
      BY CellIsPlace DEF CellAt
    <2>4. (r - n) * BUFFER_WIDTH = r * BUFFER_WIDTH - n * BUFFER_WIDTH
      BY Widths DEF Rows
    <2>5. (r - n) * BUFFER_WIDTH + c \in Cells
      BY <2>2, <2>3 DEF CellAt
    <2>6. r * BUFFER_WIDTH \in Nat /\ n * BUFFER_WIDTH \in Nat /\ c \in Nat
      BY <2>3, Widths DEF Rows, Cols
    <2> QED
      BY <2>3, <2>4, <2>5, <2>6
  <1>2. chars \in [Cells -> Glyphs]
    <2>1. ASSUME NEW m \in Cells
          PROVE  chars[m] \in Glyphs
      <3>1. CASE RowOf(m) \in s.top .. s.bottom /\ s.top <= RowOf(m) - n
        BY <1>1, <3>1, Fields DEF Glyphs
      <3>2. CASE RowOf(m) \notin s.top .. s.bottom
        BY <3>2, Fields
      <3>3. CASE RowOf(m) \in s.top .. s.bottom /\ ~(s.top <= RowOf(m) - n)
        <4>1. RowOf(m) - n < s.top
          BY <3>3, CellIsPlace, Fields, Widths DEF Rows
        <4> QED
          BY <3>3, <4>1 DEF Glyphs
      <3> QED
        BY <3>1, <3>2, <3>3
    <2> QED
      BY <2>1
  <1>3. t = Filled(s, chars)
    BY DEF Filled, scroll_vertical_dir_dn
  <1> QED
    BY <1>2, <1>3, Rewritten

\* The first column of the next row, or of the last.
LEMMA NextLine ==
  ASSUME NEW s \in Screens, NEW t, t = move_start_next_line(s)
  PROVE  t \in Screens
  <1>1. CASE s.row = s.bottom
    BY <1>1, ScrolledUp DEF move_start_next_line
  <1>2. CASE s.row # s.bottom
    <2>1. s.row + 1 \in Rows
      BY <1>2, Fields, Widths DEF Rows
    <2>2. t = [s EXCEPT !.row = s.row + 1]
      BY <1>2 DEF move_start_next_line
    <2> QED
      BY <2>1, <2>2 DEF Screens
  <1> QED
    BY <1>1, <1>2

\* Placing the cursor in a column leaves a screen.
LEMMA InColumn ==
  ASSUME NEW s \in Screens, NEW col \in Cols, NEW t, t = [s EXCEPT !.col = col]
  PROVE  t \in Screens
  BY DEF Screens

\* A new line leaves a screen.
LEMMA NewLine ==
  ASSUME NEW s \in Screens, NEW t, t = write_new_line(s)
  PROVE  t \in Screens
  <1>1. PICK u : u = save_char_to_buffer(s, ENDL) /\ u \in Screens
    BY Saved DEF Glyphs
  <1>2. PICK v : v = move_start_next_line(u) /\ v \in Screens
    BY <1>1, NextLine
  <1>3. t = [v EXCEPT !.col = 0] /\ 0 \in Cols
    BY <1>1, <1>2, Widths DEF write_new_line, Cols
  <1> QED
    BY <1>2, <1>3, InColumn

\* Cells are numbered from 0 to the last.
LEMMA CellNumbers ==
  Last \in Nat /\ Cells = 0 .. Last /\ Last >= 3
  <1>1. BUFFER_WIDTH <= BUFFER_HEIGHT * BUFFER_WIDTH /\ 2 * BUFFER_WIDTH <= BUFFER_HEIGHT * BUFFER_WIDTH
    BY Widths, Products
  <1> QED
    BY <1>1, Widths DEF Last, Cells

\* A character is written and the cursor goes on.
LEMMA Written ==
  ASSUME NEW s \in Screens, NEW c \in Glyphs,
         NEW t, t = write_with_line_overflow_if_needed(s, c)
  PROVE  /\ t \in Screens
         /\ s.col + 1 # BUFFER_WIDTH =>
              /\ Cursor(t) = Cursor(s) + 1
              /\ t.chars = [n \in Cells |-> IF n = Cursor(s) THEN c ELSE s.chars[n]]
  <1>1. PICK u : u = save_char_to_buffer(s, c)
    OBVIOUS
  <1>2. /\ u \in Screens /\ u.row = s.row /\ u.col = s.col
        /\ u.chars = [n \in Cells |-> IF n = Cursor(s) THEN c ELSE s.chars[n]]
    BY <1>1, Saved
  <1>3. CASE s.col + 1 = BUFFER_WIDTH
    BY <1>1, <1>2, <1>3, NewLine DEF write_with_line_overflow_if_needed
  <1>4. CASE s.col + 1 # BUFFER_WIDTH
    <2>1. t = [u EXCEPT !.col = s.col + 1]
      BY <1>1, <1>2, <1>4 DEF write_with_line_overflow_if_needed
    <2>2. s.col \in Int /\ s.col + 1 \in Cols
      BY <1>4, Fields, Widths DEF Cols
    <2>3. t \in Screens /\ t.row = s.row /\ t.col = s.col + 1 /\ t.chars = u.chars
      BY <1>2, <2>1, <2>2 DEF Screens
    <2>4. s.row * BUFFER_WIDTH \in Int
      BY Fields, Widths DEF Rows
    <2>5. Cursor(t) = Cursor(s) + 1
      BY <2>2, <2>3, <2>4 DEF Cursor, CellAt
    <2> QED
      BY <1>2, <2>3, <2>5
  <1> QED
    BY <1>3, <1>4

\* What a space that is opened moves: everything up to cell `to'.
Opened(s, t, from, to) ==
  t.chars = [m \in Cells |-> IF m = from THEN EMPTY_SPACE
                             ELSE IF m \in from + 1 .. to THEN s.chars[m - 1] ELSE s.chars[m]]
UpTo(s, from) ==
  {to \in Cells : \/ to = Last
                  \/ to > from /\ s.chars[to] = Empty}

\* The least cell of a set is in it.
LEMMA LeastCell ==
  ASSUME NEW S \in SUBSET Nat, S # {}
  PROVE  Min(S) \in S
  <1>1. PICK n \in S : \A m \in S : <<m, n>> \notin OpToRel(<, Nat)
    BY NatLessThanWellFounded, WFMin
  <1>2. \A m \in S : ~(m < n)
    BY <1>1 DEF OpToRel
  <1>3. \A m \in S : n <= m
    BY <1>2
  <1> QED
    BY <1>3 DEF Min

\* Inserting moves what is behind the cursor, up to some cell.
LEMMA SpaceOpened ==
  ASSUME NEW s \in Screens, NEW from \in Cells,
         NEW t, t = scroll_horizontal_right(s, from)
  PROVE  /\ t \in Screens /\ t.row = s.row /\ t.col = s.col /\ Cursor(t) = Cursor(s)
         /\ \E to \in UpTo(s, from) : Opened(s, t, from, to)
  <1>1. PICK free : free = {m \in Cells : m > from /\ s.chars[m] = Empty}
    OBVIOUS
  <1>2. PICK to : to = IF free = {} THEN Last ELSE Min(free)
    OBVIOUS
  <1>3. to \in UpTo(s, from)
    <2>1. CASE free = {}
      <3>1. Last \in Cells
        BY Widths DEF Last, Cells
      <3> QED
        BY <1>2, <2>1, <3>1 DEF UpTo
    <2>2. CASE free # {}
      <3>1. free \in SUBSET Nat
        BY <1>1 DEF Cells
      <3>2. to \in free
        BY <1>2, <2>2, <3>1, LeastCell
      <3> QED
        BY <1>1, <3>2 DEF UpTo
    <2> QED
      BY <2>1, <2>2
  <1>4. PICK chars : chars = [m \in Cells |->
                       IF m = from THEN EMPTY_SPACE
                       ELSE IF m \in from + 1 .. to THEN s.chars[m - 1] ELSE s.chars[m]]
    OBVIOUS
  <1>5. chars \in [Cells -> Glyphs]
    <2>1. ASSUME NEW m \in Cells
          PROVE  chars[m] \in Glyphs
      <3>1. CASE m \in from + 1 .. to
        <4>1. m - 1 \in Cells
          BY <3>1, CellNumbers
        <4> QED
          BY <1>4, <3>1, <4>1, Fields DEF Glyphs
      <3>2. CASE m \notin from + 1 .. to
        BY <1>4, <3>2, Fields DEF Glyphs
      <3> QED
        BY <3>1, <3>2
    <2> QED
      BY <1>4, <2>1
  <1>6. t = Filled(s, chars)
    BY <1>4, <1>1, <1>2 DEF Filled, scroll_horizontal_right
  <1>7. t \in Screens /\ t.chars = chars /\ t.row = s.row /\ t.col = s.col /\ Cursor(t) = Cursor(s)
    BY <1>5, <1>6, Rewritten
  <1> QED
    BY <1>3, <1>7, <1>4 DEF Opened

\* A character is inserted before what is behind the cursor.
LEMMA ByteInserted ==
  ASSUME NEW s \in Screens, NEW c \in Letters, NEW t, t = monitor_tm_insert_byte(s, c)
  PROVE  /\ t \in Screens
         /\ s.col + 1 # BUFFER_WIDTH =>
              /\ Cursor(t) = Cursor(s) + 1
              /\ \E to \in UpTo(s, Cursor(s)) :
                   t.chars = [m \in Cells |->
                     IF m = Cursor(s) THEN c
                     ELSE IF m \in Cursor(s) + 1 .. to THEN s.chars[m - 1] ELSE s.chars[m]]
  <1>1. PICK u : u = scroll_horizontal_right(s, Cursor(s))
    OBVIOUS
  <1>2. u \in Screens /\ u.col = s.col /\ Cursor(u) = Cursor(s)
    BY <1>1, CursorIsCell, SpaceOpened
  <1>3. PICK to \in UpTo(s, Cursor(s)) : Opened(s, u, Cursor(s), to)
    BY <1>1, CursorIsCell, SpaceOpened
  <1>4. c \in Glyphs /\ c # ENDL /\ c # "bs" /\ c # "cr"
    BY DEF Letters, Glyphs, ENDL
  <1>5. t = write_with_line_overflow_if_needed(u, c)
    BY <1>1, <1>4 DEF monitor_tm_insert_byte, monitor_tm_write_byte
  <1>6. /\ t \in Screens
        /\ u.col + 1 # BUFFER_WIDTH =>
              /\ Cursor(t) = Cursor(u) + 1
              /\ t.chars = [n \in Cells |-> IF n = Cursor(u) THEN c ELSE u.chars[n]]
    BY <1>2, <1>4, <1>5, Written
  <1> QED
    BY <1>2, <1>3, <1>6 DEF Opened

\* A backspace takes back the character before the cursor.
LEMMA ByteErased ==
  ASSUME NEW s \in Screens, Cursor(s) # 0, NEW t, t = monitor_tm_write_byte(s, "bs")
  PROVE  /\ t \in Screens /\ Cursor(t) = Cursor(s) - 1
         /\ \A m \in Cells :
              /\ m < Cursor(t) => t.chars[m] = s.chars[m]
              /\ m >= Cursor(t) /\ m # Last /\ s.chars[m + 1] # ENDL => t.chars[m] = s.chars[m + 1]
              /\ m >= Cursor(t) /\ (m # Last => s.chars[m + 1] = Empty) => t.chars[m] = Empty
  <1>1. PICK u : u = move_buffer_position_left(s)
    OBVIOUS
  <1>2. u \in Screens /\ Cursor(u) = Cursor(s) - 1 /\ u.chars = s.chars
    BY <1>1, GoesLeft
  <1>3. PICK from : from = Cursor(u) /\ from \in Cells
    BY <1>2, CursorIsCell
  <1>4. PICK chars : chars = [m \in Cells |->
                       IF m < from THEN u.chars[m]
                       ELSE IF m = Last THEN Empty
                       ELSE IF (m + 1) % BUFFER_WIDTH = 0 /\ u.chars[m + 1] = ENDL THEN Empty
                       ELSE u.chars[m + 1]]
    OBVIOUS
  <1>5. t = scroll_horizontal_left(u, from)
    BY <1>1, <1>3 DEF monitor_tm_write_byte, ENDL
  <1>6. t = Filled(u, chars)
    BY <1>4, <1>5 DEF Filled, scroll_horizontal_left
  <1>7. ASSUME NEW m \in Cells, m # Last
        PROVE  m + 1 \in Cells
    BY <1>7, CellNumbers
  <1>8. chars \in [Cells -> Glyphs]
    <2>1. u.chars \in [Cells -> Glyphs]
      BY <1>2, Fields
    <2> QED
      BY <1>4, <1>7, <2>1 DEF Glyphs
  <1>9. t \in Screens /\ t.chars = chars /\ Cursor(t) = from
    BY <1>2, <1>3, <1>6, <1>8, Rewritten
  <1>10. ASSUME NEW m \in Cells
         PROVE  /\ m < from => chars[m] = s.chars[m]
                /\ m >= from /\ m # Last /\ s.chars[m + 1] # ENDL => chars[m] = s.chars[m + 1]
                /\ m >= from /\ (m # Last => s.chars[m + 1] = Empty) => chars[m] = Empty
    <2>1. m \in Int /\ from \in Int
      BY <1>3, CellNumbers
    <2> QED
      BY <1>2, <1>4, <2>1 DEF Empty, ENDL
  <1> QED
    BY <1>2, <1>3, <1>9, <1>10

\* Inserting spaces in a row leaves a screen.
LEMMA SpaceInRow ==
  ASSUME NEW s \in Screens, NEW t, t = scroll_horizontal_right_no_wrap(s)
  PROVE  t \in Screens
  <1>1. PICK chars : chars = [m \in Cells |->
           IF RowOf(m) # s.row \/ m < Cursor(s) THEN s.chars[m]
           ELSE IF \/ m = Cursor(s)
                   \/ {k \in m - 1 .. CellAt(s.row, BUFFER_WIDTH - 2) : s.chars[k] = ENDL} = {}
                THEN EMPTY_SPACE
           ELSE s.chars[m - 1]]
    OBVIOUS
  <1>2. ASSUME NEW m \in Cells
        PROVE  chars[m] \in Glyphs
    <2>1. Cursor(s) \in Int /\ m \in Int /\ Cursor(s) >= 0
      BY CursorIsCell, CellNumbers
    <2>2. CASE m <= Cursor(s)
      BY <1>1, <2>1, <2>2, Fields DEF Glyphs
    <2>3. CASE m > Cursor(s)
      <3>1. m - 1 \in Cells
        BY <2>1, <2>3, CellNumbers
      <3> QED
        BY <1>1, <3>1, Fields DEF Glyphs
    <2> QED
      BY <2>1, <2>2, <2>3
  <1>3. chars \in [Cells -> Glyphs]
    BY <1>1, <1>2
  <1>4. t = Filled(s, chars)
    BY <1>1 DEF Filled, scroll_horizontal_right_no_wrap
  <1> QED
    BY <1>3, <1>4, Rewritten

\* Deleting from a row leaves a screen.
LEMMA RowPulled ==
  ASSUME NEW s \in Screens, NEW t, t = scroll_horizontal_left_no_wrap(s)
  PROVE  t \in Screens
  <1>1. PICK chars : chars = [m \in Cells |->
           IF RowOf(m) # s.row \/ m < Cursor(s) THEN s.chars[m]
           ELSE IF m = CellAt(s.row, BUFFER_WIDTH - 1) THEN Empty
           ELSE s.chars[m + 1]]
    OBVIOUS
  <1>2. ASSUME NEW m \in Cells
        PROVE  chars[m] \in Glyphs
    <2>1. CASE m # Last
      <3>1. m + 1 \in Cells
        BY <2>1, CellNumbers
      <3> QED
        BY <1>1, <3>1, Fields DEF Glyphs
    <2>2. CASE m = Last
      <3>1. RowOf(m) = s.row => m = CellAt(s.row, BUFFER_WIDTH - 1)
        <4>1. PICK c \in Cols : c = m % BUFFER_WIDTH /\ m = CellAt(RowOf(m), c)
          BY CellIsPlace
        <4>2. c = BUFFER_WIDTH - 1
          <5> SUFFICES ASSUME c # BUFFER_WIDTH - 1
                       PROVE  FALSE
            OBVIOUS
          <5>1. c + 1 \in Cols /\ RowOf(m) \in Rows
            BY CellIsPlace, Widths DEF Cols
          <5>2. CellAt(RowOf(m), c + 1) \in Cells
            BY <5>1, PlaceIsCell
          <5>3. RowOf(m) * BUFFER_WIDTH \in Nat /\ c \in Nat
            BY <5>1, Widths DEF Rows, Cols
          <5>4. CellAt(RowOf(m), c + 1) = m + 1
            BY <4>1, <5>3 DEF CellAt
          <5> QED
            BY <2>2, <5>2, <5>4, CellNumbers
        <4> QED
          BY <4>1, <4>2
      <3> QED
        BY <1>1, <3>1, Fields DEF Glyphs
    <2> QED
      BY <2>1, <2>2
  <1>3. chars \in [Cells -> Glyphs]
    BY <1>1, <1>2
  <1>4. t = Filled(s, chars)
    BY <1>1 DEF Filled, scroll_horizontal_left_no_wrap
  <1> QED
    BY <1>3, <1>4, Rewritten

\* Clearing leaves a screen.
LEMMA Cleared ==
  ASSUME NEW s \in Screens, NEW t, t = clear_screen(s)
  PROVE  t \in Screens
  <1>1. PICK chars : chars = [n \in Cells |-> Empty]
    OBVIOUS
  <1>2. chars \in [Cells -> Glyphs] /\ t = Filled(s, chars)
    BY <1>1 DEF Filled, clear_screen, Glyphs
  <1> QED
    BY <1>2, Rewritten

\* A control sequence whose arguments are on the screen leaves it in order.
LEMMA SequenceStays ==
  ASSUME NEW s \in Screens, NEW e \in Controls, Within(e),
         e.action = "C" => Cursor(s) # Last, e.action = "D" => Cursor(s) # 0,
         NEW t, t = handle_escape_sequence(s, e)
  PROVE  t \in Screens
  <1>1. OrOne(e.a) \in Nat /\ e.a \in {None} \cup Nat /\ e.b \in {None} \cup Nat
    BY DEF OrOne, Controls
  <1>2. CASE e.action = "A"
    <2>1. t = IF s.row # 0 THEN [s EXCEPT !.row = s.row - 1] ELSE s
      BY <1>2 DEF handle_escape_sequence, move_buffer_position_up
    <2>2. s.row # 0 => s.row - 1 \in Rows
      BY Fields, Widths DEF Rows
    <2> QED
      BY <2>1, <2>2 DEF Screens
  <1>3. CASE e.action = "B"
    <2>1. t = IF s.row < BUFFER_HEIGHT - 1 THEN [s EXCEPT !.row = s.row + 1] ELSE s
      BY <1>3 DEF handle_escape_sequence, move_buffer_position_dn
    <2>2. s.row < BUFFER_HEIGHT - 1 => s.row + 1 \in Rows
      BY Fields, Widths DEF Rows
    <2> QED
      BY <2>1, <2>2 DEF Screens
  <1>4. CASE e.action = "C"
    BY <1>4, GoesRight DEF handle_escape_sequence
  <1>5. CASE e.action = "D"
    BY <1>5, GoesLeft DEF handle_escape_sequence
  <1>6. CASE e.action = "E"
    BY <1>6, NextLine DEF handle_escape_sequence
  <1>7. CASE e.action = "H"
    <2>1. PICK row, col : row = OrOne(e.a) - 1 /\ col = OrOne(e.b) - 1
      OBVIOUS
    <2>2. row \in Rows /\ col \in Cols
      BY <1>7, <2>1, Widths DEF Within, Rows, Cols
    <2>3. t = Placed(s, row, col)
      BY <1>7, <2>1 DEF handle_escape_sequence, Placed
    <2> QED
      BY <2>2, <2>3, Moved
  <1>8. CASE e.action = "S"
    BY <1>1, <1>8, ScrolledUp DEF handle_escape_sequence
  <1>9. CASE e.action = "T"
    BY <1>1, <1>9, ScrolledDown DEF handle_escape_sequence
  <1>10. CASE e.action = "J"
    BY <1>10, Cleared DEF handle_escape_sequence
  <1>11. CASE e.action = "G"
    <2>1. CASE e.a # None
      <3>1. e.a - 1 \in Cols
        BY <1>1, <1>11, <2>1, Widths DEF Within, Cols
      <3>2. t = [s EXCEPT !.col = e.a - 1]
        BY <1>11, <2>1 DEF handle_escape_sequence
      <3> QED
        BY <3>1, <3>2, InColumn
    <2>2. CASE e.a = None
      BY <1>11, <2>2 DEF handle_escape_sequence
    <2> QED
      BY <2>1, <2>2
  <1>12. CASE e.action = "r"
    <2>1. CASE None \in {e.a, e.b}
      BY <1>12, <2>1 DEF handle_escape_sequence
    <2>2. CASE None \notin {e.a, e.b}
      <3>1. e.a - 1 \in Rows /\ e.b - 1 = BUFFER_HEIGHT - 1
        BY <1>1, <1>12, <2>2, Widths DEF Within, Rows
      <3>2. t = [s EXCEPT !.top = e.a - 1, !.bottom = e.b - 1]
        BY <1>12, <2>2 DEF handle_escape_sequence
      <3> QED
        BY <3>1, <3>2 DEF Screens
    <2> QED
      BY <2>1, <2>2
  <1>13. CASE e.action = "@"
    BY <1>13, SpaceInRow DEF handle_escape_sequence
  <1>14. CASE e.action = "P"
    BY <1>14, RowPulled DEF handle_escape_sequence
  <1>15. CASE e.action \notin {"A", "B", "C", "D", "E", "H", "S", "T", "J", "G", "r", "@", "P"}
    BY <1>15 DEF handle_escape_sequence
  <1> QED
    BY <1>2, <1>3, <1>4, <1>5, <1>6, <1>7, <1>8, <1>9, <1>10, <1>11, <1>12, <1>13, <1>14, <1>15

\* Any character leaves a screen, but for a backspace in the first cell.
LEMMA ByteStays ==
  ASSUME NEW s \in Screens, NEW c \in Glyphs \cup {"bs", "cr"}, c = "bs" => Cursor(s) # 0,
         NEW t, t = monitor_tm_write_byte(s, c)
  PROVE  t \in Screens
  <1>1. CASE c = ENDL
    BY <1>1, NewLine DEF monitor_tm_write_byte, ENDL
  <1>2. CASE c = "bs"
    BY <1>2, ByteErased
  <1>3. CASE c = "cr"
    <2>1. t = [s EXCEPT !.col = 0] /\ 0 \in Cols
      BY <1>3, Widths DEF monitor_tm_write_byte, Cols, ENDL
    <2> QED
      BY <2>1, InColumn
  <1>4. CASE c \notin {ENDL, "bs", "cr"}
    <2>1. t = write_with_line_overflow_if_needed(s, c) /\ c \in Glyphs
      BY <1>4 DEF monitor_tm_write_byte
    <2> QED
      BY <2>1, Written
  <1> QED
    BY <1>1, <1>2, <1>3, <1>4

\* Induction up to n, with the set of the numbers that are known.
LEMMA Climb ==
  ASSUME NEW n \in Nat, NEW S, 0 \in S, \A k \in 1 .. n : k - 1 \in S => k \in S
  PROVE  n \in S
  <1> DEFINE Rest == (0 .. n) \ S
  <1>1. ASSUME Rest # {}
        PROVE  FALSE
    <2>1. Rest \in SUBSET Nat
      OBVIOUS
    <2> HIDE DEF Rest
    <2>2. PICK m \in Rest : \A i \in Rest : <<i, m>> \notin OpToRel(<, Nat)
      BY <1>1, <2>1, NatLessThanWellFounded, WFMin
    <2>3. \A i \in Rest : ~(i < m)
      BY <2>1, <2>2 DEF OpToRel
    <2>4. m \in Rest
      BY <2>2
    <2>5. m \in 1 .. n /\ m \notin S /\ m - 1 \in 0 .. n
      BY <2>4 DEF Rest
    <2>6. m - 1 \notin Rest
      BY <2>3, <2>5
    <2> QED
      BY <2>5, <2>6 DEF Rest
  <1> QED
    BY <1>1

\* Screens with the same cells, cursor and area are equal.
LEMMA SameScreen ==
  ASSUME NEW s \in Screens, NEW t \in Screens, s.chars = t.chars, s.top = t.top,
         Cursor(s) = Cursor(t)
  PROVE  s = t
  <1>1. s.row = t.row /\ s.col = t.col
    BY CursorIsCell
  <1>2. s.bottom = t.bottom
    BY Fields
  <1>3. /\ s = [chars |-> s.chars, row |-> s.row, col |-> s.col, top |-> s.top, bottom |-> s.bottom]
        /\ t = [chars |-> t.chars, row |-> t.row, col |-> t.col, top |-> t.top, bottom |-> t.bottom]
    BY Fields
  <1> QED
    BY <1>1, <1>2, <1>3

\* As many steps to the right as there are cells lead that many cells on.
LEMMA GoesFarRight ==
  ASSUME NEW s \in Screens, NEW n \in Nat, Cursor(s) + n <= Last,
         NEW t, t = MovedRight(s, n)
  PROVE  t \in Screens
  <1> DEFINE At(k) == Placed(s, RowOf(Cursor(s) + k), (Cursor(s) + k) % BUFFER_WIDTH)
             IsWalk(f) == f = [k \in 0 .. n |-> IF k = 0 THEN s ELSE move_buffer_position_right(f[k - 1])]
  <1>1. Cursor(s) \in Nat /\ Last \in Nat /\ Cells = 0 .. Last
    BY CursorIsCell, CellNumbers
  <1>2. ASSUME NEW k \in 0 .. n
        PROVE  At(k) \in Screens /\ Cursor(At(k)) = Cursor(s) + k /\ At(k).chars = s.chars /\ At(k).top = s.top
    <2>1. Cursor(s) + k \in Cells
      BY <1>1
    <2>2. PICK row \in Rows, col \in Cols :
            /\ row = RowOf(Cursor(s) + k) /\ col = (Cursor(s) + k) % BUFFER_WIDTH
            /\ CellAt(row, col) = Cursor(s) + k
      BY <2>1, CellIsPlace
    <2>3. At(k) = Placed(s, row, col)
      BY <2>2
    <2> HIDE DEF At
    <2> QED
      BY <2>2, <2>3, Moved
  <1> HIDE DEF At
  <1>3. At(0) = s
    BY <1>1, <1>2, SameScreen
  <1>4. ASSUME NEW k \in 1 .. n
        PROVE  move_buffer_position_right(At(k - 1)) = At(k)
    <2>1. PICK u, v, w : u = At(k - 1) /\ v = At(k) /\ w = move_buffer_position_right(u)
      OBVIOUS
    <2>2. u \in Screens /\ Cursor(u) = Cursor(s) + k - 1 /\ u.chars = s.chars /\ u.top = s.top
      BY <1>1, <1>2, <2>1
    <2>3. v \in Screens /\ Cursor(v) = Cursor(s) + k /\ v.chars = s.chars /\ v.top = s.top
      BY <1>2, <2>1
    <2>4. Cursor(u) # Last
      BY <1>1, <2>2
    <2>5. w \in Screens /\ Cursor(w) = Cursor(u) + 1 /\ w.chars = u.chars /\ w.top = u.top
      BY <2>1, <2>2, <2>4, GoesRight
    <2>6. Cursor(w) = Cursor(v)
      BY <1>1, <2>2, <2>3, <2>5
    <2>7. w = v
      BY <2>2, <2>3, <2>5, <2>6, SameScreen
    <2> QED
      BY <2>1, <2>7
  <1> DEFINE g == [k \in 0 .. n |-> At(k)]
  <1>5. \A k \in 1 .. n : k - 1 \in 0 .. n /\ k # 0
    OBVIOUS
  <1>6. IsWalk(g)
    <2>1. ASSUME NEW k \in 0 .. n
          PROVE  g[k] = IF k = 0 THEN s ELSE move_buffer_position_right(g[k - 1])
      <3>1. CASE k = 0
        BY <1>3, <3>1
      <3>2. CASE k # 0
        <4>1. k \in 1 .. n /\ k - 1 \in 0 .. n
          BY <3>2
        <4>2. g[k] = At(k) /\ g[k - 1] = At(k - 1)
          BY <4>1
        <4> HIDE DEF g
        <4> QED
          BY <1>4, <3>2, <4>1, <4>2
      <3> QED
        BY <3>1, <3>2
    <2>2. g = [k \in 0 .. n |-> g[k]]
      OBVIOUS
    <2> HIDE DEF g
    <2> QED
      BY <2>1, <2>2
  <1> HIDE DEF g
  <1> DEFINE f == CHOOSE f : IsWalk(f)
  <1>7. IsWalk(f) /\ t = f[n]
    BY <1>6 DEF MovedRight
  <1> HIDE DEF f
  <1>8. f[0] = s /\ \A k \in 1 .. n : f[k] = move_buffer_position_right(f[k - 1])
    BY <1>7
  <1> DEFINE S == {k \in 0 .. n : f[k] = At(k)}
  <1>9. 0 \in S /\ \A k \in 1 .. n : k - 1 \in S => k \in S
    BY <1>3, <1>4, <1>8
  <1> HIDE DEF S
  <1>10. n \in S
    BY <1>9, Climb
  <1>11. f[n] = At(n)
    BY <1>10 DEF S
  <1> QED
    BY <1>2, <1>7, <1>11

-----------------------------------------------------------------------------
(* What a character does to the line                                       *)

State(t, s, signal) == [t |-> t, s |-> s, signal |-> signal]
WithT(st, t) == [st EXCEPT !.t = t]
WithS(st, s) == [st EXCEPT !.s = s]
Edit(t, buffer, final, pos) == [t EXCEPT !.buffer = buffer, !.final = final, !.pos = pos]
Ended(t, buffer, final, pos) ==
  [t EXCEPT !.buffer = buffer, !.newline = TRUE, !.final = final, !.pos = pos]
PosAt(t, pos) == [t EXCEPT !.pos = pos]
MadePresent(t) == [t EXCEPT !.present = TRUE]

\* What a state of the terminal has.
LEMMA StateFields ==
  ASSUME NEW t, NEW s, NEW g
  PROVE  State(t, s, g).t = t /\ State(t, s, g).s = s /\ State(t, s, g).signal = g
  BY DEF State

\* A state with another terminal, or another screen.
LEMMA WithIs ==
  ASSUME NEW t, NEW s, NEW g, NEW u
  PROVE  WithT(State(t, s, g), u) = State(u, s, g) /\ WithS(State(t, s, g), u) = State(t, u, g)
  BY DEF State, WithT, WithS

\* Updates of a record in a record.
LEMMA NestedPresent ==
  ASSUME NEW st
  PROVE  Present(st) = WithT(st, MadePresent(st.t))
  BY DEF Present, WithT, MadePresent

Stepped(st, x) == [st EXCEPT !.t.pos = x]
EditedT(st, b, f, p) == [st EXCEPT !.t.buffer = b, !.t.final = f, !.t.pos = p]
EndedT(st, b, f, p, s) ==
  [st EXCEPT !.t.buffer = b, !.t.newline = TRUE, !.t.final = f, !.t.pos = p, !.s = s]

\* The nested EXCEPT that moves the cursor in the line.
LEMMA NestedPos ==
  ASSUME NEW st, NEW x
  PROVE  Stepped(st, x) = WithT(st, PosAt(st.t, x))
  BY DEF WithT, PosAt, Stepped

\* The one that edits the buffer.
LEMMA NestedEdit ==
  ASSUME NEW st, NEW b, NEW f, NEW p
  PROVE  EditedT(st, b, f, p) = WithT(st, Edit(st.t, b, f, p))
  BY DEF WithT, Edit, EditedT

\* The one that ends the line.
LEMMA NestedEnd ==
  ASSUME NEW st, NEW b, NEW f, NEW p, NEW s
  PROVE  EndedT(st, b, f, p, s) = WithS(WithT(st, Ended(st.t, b, f, p)), s)
  BY DEF WithT, WithS, Ended, EndedT

\* What inserting a character does to a state.
LEMMA InsertedIs ==
  ASSUME NEW t, NEW s, NEW g, NEW c
  PROVE  Inserted(State(t, s, g), c) =
           State(Edit(t, insert_and_shift(t.buffer, c, t.pos, t.final + 1), t.final + 1, t.pos + 1), s, g)
  <1>1. PICK st : st = State(t, s, g) /\ st.t = t
    BY StateFields
  <1>2. PICK b, f, p : b = insert_and_shift(t.buffer, c, t.pos, t.final + 1) /\ f = t.final + 1 /\ p = t.pos + 1
    OBVIOUS
  <1>3. Inserted(st, c) = EditedT(st, b, f, p)
    BY <1>1, <1>2 DEF Inserted, EditedT
  <1>4. Inserted(st, c) = WithT(st, Edit(t, b, f, p))
    BY <1>1, <1>3, NestedEdit
  <1> QED
    BY <1>1, <1>2, <1>4, WithIs

\* What noting that something was typed does.
LEMMA PresentIs ==
  ASSUME NEW t, NEW s, NEW g
  PROVE  Present(State(t, s, g)) = State(MadePresent(t), s, g)
  BY NestedPresent, StateFields, WithIs

\* What the echo of a character does.
LEMMA EchoIs ==
  ASSUME NEW t, NEW s, NEW g, NEW c
  PROVE  tty_echo(State(t, s, g), c) = State(t, IF t.echo THEN monitor_tm_write_byte(s, c) ELSE s, g)
  <1>1. PICK st : st = State(t, s, g) /\ st.t = t /\ st.s = s
    BY StateFields
  <1>2. tty_echo(st, c) = IF t.echo THEN WithS(st, monitor_tm_write_byte(s, c)) ELSE st
    BY <1>1 DEF tty_echo, WithS
  <1> QED
    BY <1>1, <1>2, WithIs

\* What the echo of an arrow does.
LEMMA ArrowEchoIs ==
  ASSUME NEW t, NEW s, NEW g, NEW a
  PROVE  echo_arrow(State(t, s, g), a) =
           State(t, IF t.echo THEN handle_escape_sequence(s, Sequence(a, None, None)) ELSE s, g)
  <1>1. PICK st : st = State(t, s, g) /\ st.t = t /\ st.s = s
    BY StateFields
  <1>2. echo_arrow(st, a) =
          IF t.echo THEN WithS(st, handle_escape_sequence(s, Sequence(a, None, None))) ELSE st
    BY <1>1 DEF echo_arrow, WithS
  <1> QED
    BY <1>1, <1>2, WithIs

\* Outside of a control sequence a character is taken for itself.
Plain(st, c) ==
  IF c \in {"etx", "bs", ENDL, "esc"}
  THEN Present(handle_ascii_control_character(st, c))
  ELSE Present(handle_ascii_printable_character(st, c))

\* A character outside escape sequences.
LEMMA TakenPlain ==
  ASSUME NEW t, NEW s, NEW g, NEW c, t.esc = <<>>, ~t.canonical \/ c # "esc"
  PROVE  write_to_keyboard_buffer(State(t, s, g), c) = Plain(State(t, s, g), c)
  <1>1. PICK st : st = State(t, s, g) /\ st.t = t
    BY StateFields
  <1>2. Append(st.t.esc, c)[1] = c
    BY <1>1
  <1>3. ~(st.t.canonical /\ Append(st.t.esc, c)[1] = "esc")
    BY <1>1, <1>2
  <1>4. write_to_keyboard_buffer(st, c) = Plain(st, c)
    BY <1>3 DEF write_to_keyboard_buffer, Plain
  <1> QED
    BY <1>1, <1>4

\* What a letter does to a state.
LEMMA LetterIs ==
  ASSUME NEW t, NEW s, NEW g, NEW c \in Letters, t.esc = <<>>
  PROVE  write_to_keyboard_buffer(State(t, s, g), c) =
           State(MadePresent(Edit(t, insert_and_shift(t.buffer, c, t.pos, t.final + 1), t.final + 1, t.pos + 1)),
                 IF t.echo THEN monitor_tm_insert_byte(s, c) ELSE s, g)
  <1>1. c \notin {"etx", "bs", ENDL, "esc"}
    BY DEF Letters, ENDL
  <1>2. PICK st : st = State(t, s, g) /\ st.t = t /\ st.s = s
    BY StateFields
  <1>3. write_to_keyboard_buffer(st, c) = Present(handle_ascii_printable_character(st, c))
    BY <1>1, <1>2, TakenPlain DEF Plain
  <1>4. PICK u : u = Edit(t, insert_and_shift(t.buffer, c, t.pos, t.final + 1), t.final + 1, t.pos + 1)
    OBVIOUS
  <1>5. Inserted(st, c) = State(u, s, g)
    BY <1>2, <1>4, InsertedIs
  <1>6. handle_ascii_printable_character(st, c) =
          IF t.echo THEN WithS(State(u, s, g), monitor_tm_insert_byte(s, c)) ELSE State(u, s, g)
    BY <1>2, <1>5, StateFields DEF handle_ascii_printable_character, WithS
  <1>7. handle_ascii_printable_character(st, c) =
          State(u, IF t.echo THEN monitor_tm_insert_byte(s, c) ELSE s, g)
    BY <1>6, WithIs
  <1> QED
    BY <1>2, <1>3, <1>4, <1>7, PresentIs

\* Only in canonical mode:
LEMMA ControlIs ==
  ASSUME NEW t, NEW s, NEW g, NEW c \in {"etx", "bs", ENDL}, t.esc = <<>>, t.canonical
  PROVE  write_to_keyboard_buffer(State(t, s, g), c) =
           Present(CASE c = "etx" -> handle_etx_character(State(t, s, g))
                     [] c = "bs" -> handle_backspace_character(State(t, s, g))
                     [] c = ENDL -> handle_newline_character(State(t, s, g)))
  <1>1. c # "esc" /\ c \in {"etx", "bs", ENDL, "esc"}
    BY DEF ENDL
  <1>2. PICK st : st = State(t, s, g) /\ st.t = t
    BY StateFields
  <1>3. write_to_keyboard_buffer(st, c) = Present(handle_ascii_control_character(st, c))
    BY <1>1, <1>2, TakenPlain DEF Plain
  <1>4. handle_ascii_control_character(st, c) =
          CASE c = "etx" -> handle_etx_character(st)
                     [] c = "bs" -> handle_backspace_character(st)
                     [] c = ENDL -> handle_newline_character(st)
    BY <1>2 DEF handle_ascii_control_character, ENDL
  <1> QED
    BY <1>2, <1>3, <1>4

Signalled(st, x) == [st EXCEPT !.signal = x]

\* A state with a signal.
LEMMA SignalledIs ==
  ASSUME NEW t, NEW s, NEW g, NEW x
  PROVE  Signalled(State(t, s, g), x) = State(t, s, x)
  BY DEF Signalled, State

\* What Ctrl-C does.
LEMMA EtxIs ==
  ASSUME NEW t, NEW s, NEW g, t.esc = <<>>, t.canonical
  PROVE  write_to_keyboard_buffer(State(t, s, g), "etx") =
           State(MadePresent(t),
                 IF t.echo THEN monitor_tm_write_byte(monitor_tm_write_byte(s, "^"), "C") ELSE s, TRUE)
  <1>1. write_to_keyboard_buffer(State(t, s, g), "etx") = Present(handle_etx_character(State(t, s, g)))
    BY ControlIs DEF ENDL
  <1>2. PICK u : u = IF t.echo THEN monitor_tm_write_byte(monitor_tm_write_byte(s, "^"), "C") ELSE s
    OBVIOUS
  <1>3. tty_echo(tty_echo(State(t, s, g), "^"), "C") = State(t, u, g)
    BY <1>2, EchoIs
  <1>4. handle_etx_character(State(t, s, g)) = Signalled(State(t, u, g), TRUE)
    <2>1. PICK st : st = State(t, s, g)
      OBVIOUS
    <2>2. handle_etx_character(st) = Signalled(tty_echo(tty_echo(st, "^"), "C"), TRUE)
      BY DEF handle_etx_character, Signalled
    <2> QED
      BY <1>3, <2>1, <2>2
  <1>5. Signalled(State(t, u, g), TRUE) = State(t, u, TRUE)
    BY SignalledIs
  <1> QED
    BY <1>1, <1>2, <1>4, <1>5, PresentIs

EditedB(st, f, p, b) == [st EXCEPT !.t.final = f, !.t.pos = p, !.t.buffer = b]

\* The nested EXCEPT of a backspace.
LEMMA NestedBack ==
  ASSUME NEW st, NEW b, NEW f, NEW p
  PROVE  EditedB(st, f, p, b) = WithT(st, Edit(st.t, b, f, p))
  BY DEF WithT, Edit, EditedB

\* What a backspace does.
LEMMA BackspaceIs ==
  ASSUME NEW t, NEW s, NEW g, t.esc = <<>>, t.canonical
  PROVE  write_to_keyboard_buffer(State(t, s, g), "bs") =
           IF t.pos = 0 THEN State(MadePresent(t), s, g)
           ELSE State(MadePresent(Edit(t, delete_and_shift(t.buffer, t.pos - 1, t.final - 1), t.final - 1, t.pos - 1)),
                      IF t.echo THEN monitor_tm_write_byte(s, "bs") ELSE s, g)
  <1>1. write_to_keyboard_buffer(State(t, s, g), "bs") = Present(handle_backspace_character(State(t, s, g)))
    BY ControlIs DEF ENDL
  <1>2. PICK st : st = State(t, s, g) /\ st.t = t /\ st.s = s
    BY StateFields
  <1>3. PICK f, p, b : f = t.final - 1 /\ p = t.pos - 1 /\ b = delete_and_shift(t.buffer, t.pos - 1, t.final - 1)
    OBVIOUS
  <1>4. handle_backspace_character(st) = IF t.pos = 0 THEN st ELSE tty_echo(EditedB(st, f, p, b), "bs")
    BY <1>2, <1>3 DEF handle_backspace_character, EditedB
  <1>5. PICK u : u = Edit(t, b, f, p) /\ EditedB(st, f, p, b) = WithT(st, u)
    BY <1>2, NestedBack
  <1>6. EditedB(st, f, p, b) = State(u, s, g)
    BY <1>2, <1>5, WithIs
  <1>7. u.echo = t.echo
    BY <1>5 DEF Edit
  <1>8. tty_echo(EditedB(st, f, p, b), "bs") = State(u, IF t.echo THEN monitor_tm_write_byte(s, "bs") ELSE s, g)
    BY <1>6, <1>7, EchoIs
  <1> QED
    BY <1>1, <1>2, <1>3, <1>4, <1>5, <1>8, PresentIs

\* What a control character does in raw mode.
LEMMA RawIs ==
  ASSUME NEW t, NEW s, NEW g, NEW c \in {"bs", "esc"}, t.esc = <<>>, ~t.canonical, t.pos = 0
  PROVE  write_to_keyboard_buffer(State(t, s, g), c) =
           State(MadePresent(Edit(t, insert_and_shift(t.buffer, c, t.pos, t.final + 1), t.final + 1, t.pos + 1)), s, g)
  <1>1. c \in {"etx", "bs", ENDL, "esc"} /\ c # "etx" /\ c # ENDL
    BY DEF ENDL
  <1>2. PICK st : st = State(t, s, g) /\ st.t = t
    BY StateFields
  <1>3. write_to_keyboard_buffer(st, c) = Present(handle_ascii_control_character(st, c))
    BY <1>1, <1>2, TakenPlain DEF Plain
  <1>4. handle_ascii_control_character(st, c) = Inserted(st, c)
    BY <1>1, <1>2 DEF handle_ascii_control_character, handle_backspace_character
  <1> QED
    BY <1>2, <1>3, <1>4, InsertedIs, PresentIs

\* What Enter does.
LEMMA NewlineIs ==
  ASSUME NEW t, NEW s, NEW g, t.esc = <<>>, t.canonical, t.final \in Nat, t.pos \in 0 .. t.final
  PROVE  \E buffer :
           /\ buffer = [n \in DOMAIN t.buffer |-> IF n = t.final THEN ENDL ELSE t.buffer[n]]
           /\ write_to_keyboard_buffer(State(t, s, g), ENDL) =
                State(MadePresent(Ended(t, buffer, t.final + 1, t.final + 2)),
                      IF t.echo THEN monitor_tm_write_byte(MovedRight(s, t.final - t.pos + 1), ENDL) ELSE s,
                      g)
  <1>1. write_to_keyboard_buffer(State(t, s, g), ENDL) = Present(handle_newline_character(State(t, s, g)))
    BY ControlIs DEF ENDL
  <1>2. PICK st : st = State(t, s, g) /\ st.t = t /\ st.s = s
    BY StateFields
  <1>3. t.final - t.pos + 1 > 0 /\ (t.final + 1) + 1 = t.final + 2
    OBVIOUS
  <1>4. PICK b : b = [n \in DOMAIN t.buffer |-> IF n = t.final THEN ENDL ELSE t.buffer[n]]
    OBVIOUS
  <1>5. PICK f, p, m : /\ f = t.final + 1 /\ p = t.final + 2
                       /\ m = IF t.echo THEN MovedRight(s, t.final - t.pos + 1) ELSE s
    OBVIOUS
  <1>6. handle_newline_character(st) = tty_echo(EndedT(st, b, f, p, m), ENDL)
    <2>1. handle_newline_character(st) =
            tty_echo(EndedT(st, [n \in DOMAIN st.t.buffer |-> IF n = st.t.final THEN ENDL ELSE st.t.buffer[n]],
                            st.t.final + 1,
                            (IF st.t.final - st.t.pos + 1 > 0 THEN st.t.final + 1 ELSE st.t.pos) + 1,
                            IF st.t.echo /\ st.t.final - st.t.pos + 1 > 0
                            THEN MovedRight(st.s, st.t.final - st.t.pos + 1) ELSE st.s), ENDL)
      BY DEF handle_newline_character, EndedT
    <2>2. (IF t.final - t.pos + 1 > 0 THEN t.final + 1 ELSE t.pos) + 1 = p
      BY <1>3, <1>5
    <2>3. (IF t.echo /\ t.final - t.pos + 1 > 0 THEN MovedRight(s, t.final - t.pos + 1) ELSE s) = m
      BY <1>3, <1>5
    <2> QED
      BY <1>2, <1>4, <1>5, <2>1, <2>2, <2>3
  <1>7. PICK u : u = Ended(t, b, f, p)
    OBVIOUS
  <1>8. EndedT(st, b, f, p, m) = WithS(WithT(st, u), m)
    BY <1>2, <1>7, NestedEnd
  <1>9. EndedT(st, b, f, p, m) = State(u, m, g)
    BY <1>2, <1>8, WithIs
  <1>10. u.echo = t.echo
    BY <1>7 DEF Ended
  <1>11. tty_echo(EndedT(st, b, f, p, m), ENDL) =
           State(u, IF t.echo THEN monitor_tm_write_byte(m, ENDL) ELSE m, g)
    BY <1>9, <1>10, EchoIs
  <1>12. (IF t.echo THEN monitor_tm_write_byte(m, ENDL) ELSE m) =
           IF t.echo THEN monitor_tm_write_byte(MovedRight(s, t.final - t.pos + 1), ENDL) ELSE s
    BY <1>5
  <1>13. write_to_keyboard_buffer(State(t, s, g), ENDL) =
           State(MadePresent(u), IF t.echo THEN monitor_tm_write_byte(MovedRight(s, t.final - t.pos + 1), ENDL) ELSE s, g)
    BY <1>1, <1>2, <1>6, <1>11, <1>12, PresentIs
  <1> QED
    BY <1>4, <1>5, <1>7, <1>13

EscIs(st, x) == [st EXCEPT !.t.esc = x]
WithEsc(t, x) == [t EXCEPT !.esc = x]

\* The nested EXCEPT of an escape sequence.
LEMMA NestedEsc ==
  ASSUME NEW st, NEW x
  PROVE  EscIs(st, x) = WithT(st, WithEsc(st.t, x))
  BY DEF EscIs, WithT, WithEsc

\* A sequence with one more element.
LEMMA Grows ==
  ASSUME NEW S, NEW e1 \in Seq(S), NEW c \in S, NEW e2, e2 = Append(e1, c)
  PROVE  /\ e2 \in Seq(S) /\ Len(e2) = Len(e1) + 1 /\ e2[Len(e1) + 1] = c
         /\ \A i \in 1 .. Len(e1) : e2[i] = e1[i]
  BY AppendProperties

\* A sequence of three, one by one.
LEMMA ThreeCharacters ==
  ASSUME NEW S, NEW a \in S, NEW b \in S, NEW c \in S,
         NEW e1, NEW e2, NEW e3, e1 = Append(<<>>, a), e2 = Append(e1, b), e3 = Append(e2, c)
  PROVE  /\ Len(e1) = 1 /\ e1[1] = a
         /\ Len(e2) = 2 /\ e2[1] = a /\ e2[2] = b
         /\ Len(e3) = 3 /\ e3[1] = a /\ e3[2] = b /\ e3[3] = c
  <1>1. <<>> \in Seq(S) /\ Len(<<>>) = 0
    OBVIOUS
  <1>2. PICK e0 : e0 \in Seq(S) /\ Len(e0) = 0 /\ e1 = Append(e0, a)
    BY <1>1
  <1>3. e1 \in Seq(S) /\ Len(e1) = 1 /\ e1[1] = a
    BY <1>2, Grows
  <1>4. e2 \in Seq(S) /\ Len(e2) = 2 /\ e2[1] = a /\ e2[2] = b
    BY <1>3, Grows
  <1>5. Len(e3) = 3 /\ e3[1] = a /\ e3[2] = b /\ e3[3] = c
    BY <1>4, Grows
  <1> QED
    BY <1>3, <1>4, <1>5

\* An arrow is three characters.
LEMMA ArrowIs ==
  ASSUME NEW t \in TTYs, NEW s, NEW g, NEW a \in {"C", "D"}, t.canonical
  PROVE  write_to_keyboard_buffer(write_to_keyboard_buffer(write_to_keyboard_buffer(
           State(t, s, g), "esc"), "["), a) = Present(handle_ansi_escape_sequence(State(t, s, g), a))
  <1>1. PICK e1, e2, e3 : e1 = Append(<<>>, "esc") /\ e2 = Append(e1, "[") /\ e3 = Append(e2, a)
    OBVIOUS
  <1>2. PICK S : S = {"esc", "[", "C", "D"}
    OBVIOUS
  <1>3. a \in S /\ "esc" \in S /\ "[" \in S
    BY <1>2
  <1>4. /\ Len(e1) = 1 /\ e1[1] = "esc"
         /\ Len(e2) = 2 /\ e2[1] = "esc" /\ e2[2] = "["
         /\ Len(e3) = 3 /\ e3[1] = "esc" /\ e3[2] = "[" /\ e3[3] = a
    BY <1>1, <1>3, ThreeCharacters
  <1>5. PICK t1, t2 : t1 = WithEsc(t, e1) /\ t2 = WithEsc(t1, e2)
    OBVIOUS
  <1>6. /\ t.esc = <<>> /\ t1.esc = e1 /\ t1.canonical /\ t2.esc = e2 /\ t2.canonical
        /\ WithEsc(t2, <<>>) = t
    BY <1>5 DEF WithEsc, TTYs
  <1>7. PICK st, st1, st2 : st = State(t, s, g) /\ st1 = State(t1, s, g) /\ st2 = State(t2, s, g)
    OBVIOUS
  <1>8. st.t = t /\ st1.t = t1 /\ st2.t = t2
    BY <1>7, StateFields
  <1>9. write_to_keyboard_buffer(st, "esc") = st1
    <2>1. st.t.esc = <<>>
      BY <1>6, <1>8
    <2>2. Append(st.t.esc, "esc") = e1
      BY <1>1, <2>1
    <2>3. Append(st.t.esc, "esc") = e1 /\ e1[1] = "esc" /\ Len(e1) < 3
      BY <1>4, <2>2
    <2>4. write_to_keyboard_buffer(st, "esc") = EscIs(st, e1)
      BY <1>6, <1>8, <2>3 DEF write_to_keyboard_buffer, EscIs
    <2>5. EscIs(st, e1) = WithT(st, t1)
      BY <1>5, <1>8, NestedEsc
    <2> QED
      BY <1>7, <2>4, <2>5, WithIs
  <1>10. write_to_keyboard_buffer(st1, "[") = st2
    <2>1. st1.t.esc = e1
      BY <1>6, <1>8
    <2>2. Append(st1.t.esc, "[") = e2
      BY <1>1, <2>1
    <2>3. Append(st1.t.esc, "[") = e2 /\ e2[1] = "esc" /\ Len(e2) < 3
      BY <1>4, <2>2
    <2>4. write_to_keyboard_buffer(st1, "[") = EscIs(st1, e2)
      BY <1>6, <1>8, <2>3 DEF write_to_keyboard_buffer, EscIs
    <2>5. EscIs(st1, e2) = WithT(st1, t2)
      BY <1>5, <1>8, NestedEsc
    <2> QED
      BY <1>7, <2>4, <2>5, WithIs
  <1>11. write_to_keyboard_buffer(st2, a) = Present(handle_ansi_escape_sequence(st, a))
    <2>1. e3 = Append(st2.t.esc, a)
      BY <1>1, <1>6, <1>8
    <2>2. e3[1] = "esc" /\ e3[2] = "[" /\ e3[3] = a /\ ~(Len(e3) < 3)
      BY <1>4
    <2>3. EscIs(st2, <<>>) = st
      <3>1. EscIs(st2, <<>>) = WithT(st2, t)
        BY <1>6, <1>8, NestedEsc
      <3> QED
        BY <1>7, <3>1, WithIs
    <2>4. write_to_keyboard_buffer(st2, a) = Present(handle_ansi_escape_sequence(EscIs(st2, <<>>), e3[3]))
      BY <1>6, <1>8, <2>1, <2>2 DEF write_to_keyboard_buffer, EscIs
    <2> QED
      BY <2>2, <2>3, <2>4
  <1> QED
    BY <1>7, <1>9, <1>10, <1>11

\* What the left arrow does.
LEMMA LeftIs ==
  ASSUME NEW t, NEW s, NEW g
  PROVE  Present(handle_ansi_escape_sequence(State(t, s, g), "D")) =
           IF t.pos > 0
           THEN State(MadePresent(PosAt(t, t.pos - 1)),
                      IF t.echo THEN handle_escape_sequence(s, Sequence("D", None, None)) ELSE s, g)
           ELSE State(MadePresent(t), s, g)
  <1>1. PICK st : st = State(t, s, g) /\ st.t = t
    BY StateFields
  <1>2. PICK u : u = PosAt(t, t.pos - 1)
    OBVIOUS
  <1>3. u = PosAt(t, t.pos - 1) /\ u.echo = t.echo
    BY <1>2 DEF PosAt
  <1>4. Stepped(st, t.pos - 1) = State(u, s, g)
    BY <1>1, <1>3, NestedPos, WithIs
  <1>5. handle_ansi_escape_sequence(st, "D") = IF t.pos > 0 THEN echo_arrow(Stepped(st, t.pos - 1), "D") ELSE st
    BY <1>1 DEF handle_ansi_escape_sequence, Stepped
  <1>6. echo_arrow(State(u, s, g), "D") =
          State(u, IF t.echo THEN handle_escape_sequence(s, Sequence("D", None, None)) ELSE s, g)
    BY <1>3, ArrowEchoIs
  <1> QED
    BY <1>1, <1>3, <1>4, <1>5, <1>6, PresentIs

\* What the right arrow does.
LEMMA RightIs ==
  ASSUME NEW t, NEW s, NEW g
  PROVE  Present(handle_ansi_escape_sequence(State(t, s, g), "C")) =
           IF t.pos < t.final
           THEN State(MadePresent(PosAt(t, t.pos + 1)),
                      IF t.echo THEN handle_escape_sequence(s, Sequence("C", None, None)) ELSE s, g)
           ELSE State(MadePresent(t), s, g)
  <1>1. PICK st : st = State(t, s, g) /\ st.t = t
    BY StateFields
  <1>2. PICK u : u = PosAt(t, t.pos + 1)
    OBVIOUS
  <1>3. u = PosAt(t, t.pos + 1) /\ u.echo = t.echo
    BY <1>2 DEF PosAt
  <1>4. Stepped(st, t.pos + 1) = State(u, s, g)
    BY <1>1, <1>3, NestedPos, WithIs
  <1>5. handle_ansi_escape_sequence(st, "C") =
          IF t.pos < t.final THEN echo_arrow(Stepped(st, t.pos + 1), "C") ELSE st
    BY <1>1 DEF handle_ansi_escape_sequence, Stepped
  <1>6. echo_arrow(State(u, s, g), "C") =
          State(u, IF t.echo THEN handle_escape_sequence(s, Sequence("C", None, None)) ELSE s, g)
    BY <1>3, ArrowEchoIs
  <1> QED
    BY <1>1, <1>3, <1>4, <1>5, <1>6, PresentIs

\* No character, one, and three.
Afters(f, st, chars, n) ==
  f = [k \in 0 .. n |-> IF k = 0 THEN st ELSE write_to_keyboard_buffer(f[k - 1], chars[k])]

\* Taking several characters follows a function that exists.
LEMMA AfterChosen ==
  ASSUME NEW st, NEW chars, NEW n, Len(chars) = n, NEW h, Afters(h, st, chars, n)
  PROVE  \E f : Afters(f, st, chars, n) /\ AfterAll(st, chars) = f[n]
  <1>1. PICK f : f = (CHOOSE u : Afters(u, st, chars, n))
    OBVIOUS
  <1>2. Afters(f, st, chars, n)
    BY <1>1
  <1>3. AfterAll(st, chars) = f[n]
    BY <1>1 DEF AfterAll, Afters
  <1> QED
    BY <1>2, <1>3

\* No characters do nothing,
LEMMA AfterNone ==
  ASSUME NEW st, NEW chars, Len(chars) = 0
  PROVE  AfterAll(st, chars) = st
  <1>1. PICK h : h = [k \in 0 .. 0 |-> st]
    OBVIOUS
  <1>2. Afters(h, st, chars, 0)
    BY <1>1 DEF Afters
  <1>3. PICK f : Afters(f, st, chars, 0) /\ AfterAll(st, chars) = f[0]
    BY <1>2, AfterChosen
  <1>4. f[0] = st
    BY <1>3 DEF Afters
  <1> QED
    BY <1>3, <1>4

\* one does what it does,
LEMMA AfterOne ==
  ASSUME NEW st, NEW chars, Len(chars) = 1
  PROVE  AfterAll(st, chars) = write_to_keyboard_buffer(st, chars[1])
  <1>1. PICK st1 : st1 = write_to_keyboard_buffer(st, chars[1])
    OBVIOUS
  <1>2. PICK h : h = [k \in 0 .. 1 |-> IF k = 0 THEN st ELSE st1]
    OBVIOUS
  <1>3. Afters(h, st, chars, 1)
    <2>1. ASSUME NEW k \in 0 .. 1
          PROVE  h[k] = IF k = 0 THEN st ELSE write_to_keyboard_buffer(h[k - 1], chars[k])
      <3>1. CASE k = 0
        BY <1>2, <3>1
      <3>2. CASE k = 1
        <4>1. h[0] = st /\ h[1] = st1
          BY <1>2
        <4> QED
          BY <1>1, <3>2, <4>1
      <3> QED
        BY <3>1, <3>2
    <2>2. h = [k \in 0 .. 1 |-> h[k]]
      BY <1>2
    <2> QED
      BY <2>1, <2>2 DEF Afters
  <1>4. PICK f : Afters(f, st, chars, 1) /\ AfterAll(st, chars) = f[1]
    BY <1>3, AfterChosen
  <1>5. f[0] = st /\ f[1] = write_to_keyboard_buffer(f[0], chars[1])
    BY <1>4 DEF Afters
  <1> QED
    BY <1>4, <1>5

\* and three do one after the other.
LEMMA AfterThree ==
  ASSUME NEW st, NEW chars, Len(chars) = 3
  PROVE  AfterAll(st, chars) = write_to_keyboard_buffer(write_to_keyboard_buffer(
                                 write_to_keyboard_buffer(st, chars[1]), chars[2]), chars[3])
  <1>1. PICK st1, st2, st3 : /\ st1 = write_to_keyboard_buffer(st, chars[1])
                             /\ st2 = write_to_keyboard_buffer(st1, chars[2])
                             /\ st3 = write_to_keyboard_buffer(st2, chars[3])
    OBVIOUS
  <1>2. PICK h : h = [k \in 0 .. 3 |-> IF k = 0 THEN st ELSE IF k = 1 THEN st1
                                        ELSE IF k = 2 THEN st2 ELSE st3]
    OBVIOUS
  <1>3. Afters(h, st, chars, 3)
    <2>1. ASSUME NEW k \in 0 .. 3
          PROVE  h[k] = IF k = 0 THEN st ELSE write_to_keyboard_buffer(h[k - 1], chars[k])
      <3>1. h[0] = st /\ h[1] = st1 /\ h[2] = st2 /\ h[3] = st3
        BY <1>2
      <3>2. CASE k = 0
        BY <3>2, <3>1
      <3>3. CASE k = 1
        BY <1>1, <3>3, <3>1
      <3>4. CASE k = 2
        BY <1>1, <3>4, <3>1
      <3>5. CASE k = 3
        BY <1>1, <3>5, <3>1
      <3> QED
        BY <3>2, <3>3, <3>4, <3>5
    <2>2. h = [k \in 0 .. 3 |-> h[k]]
      BY <1>2
    <2> QED
      BY <2>1, <2>2 DEF Afters
  <1>4. PICK f : Afters(f, st, chars, 3) /\ AfterAll(st, chars) = f[3]
    BY <1>3, AfterChosen
  <1>5. /\ f[0] = st /\ f[1] = write_to_keyboard_buffer(f[0], chars[1])
        /\ f[2] = write_to_keyboard_buffer(f[1], chars[2])
        /\ f[3] = write_to_keyboard_buffer(f[2], chars[3])
    BY <1>4 DEF Afters
  <1> QED
    BY <1>4, <1>5

-----------------------------------------------------------------------------
(* The text of the line                                                    *)

\* The text a buffer spells.
LEMMA ReadIs ==
  ASSUME NEW b, NEW n \in Nat
  PROVE  DOMAIN Read(b, n) = 1 .. n /\ Len(Read(b, n)) = n /\ \A k \in 1 .. n : Read(b, n)[k] = b[k - 1]
  BY DEF Read

\* A part of a text.
LEMMA PartOf ==
  ASSUME NEW S, NEW text \in Seq(S), NEW m \in 1 .. Len(text) + 1, NEW n \in 0 .. Len(text), m <= n + 1,
         NEW z, z = SubSeq(text, m, n)
  PROVE  z \in Seq(S) /\ Len(z) = n - m + 1 /\ \A k \in 1 .. n - m + 1 : z[k] = text[m + k - 1]
  <1>1. Len(text) \in Nat /\ \A i \in m .. n : text[i] \in S
    BY LenProperties, ElementOfSeq
  <1>2. m \in Int /\ n \in Int
    BY <1>1
  <1> QED
    BY <1>1, <1>2, SubSeqProperties

\* u is s1, of n1 characters, and then s2, of n2.
IsJoined(u, S, s1, n1, s2, n2) ==
  /\ u \in Seq(S) /\ Len(u) = n1 + n2
  /\ \A i \in 1 .. n1 + n2 : u[i] = IF i <= n1 THEN s1[i] ELSE s2[i - n1]

\* Two sequences joined.
LEMMA Joined ==
  ASSUME NEW S, NEW s1 \in Seq(S), NEW s2 \in Seq(S),
         NEW n1 \in Nat, NEW n2 \in Nat, n1 = Len(s1), n2 = Len(s2), NEW u, u = s1 \o s2
  PROVE  IsJoined(u, S, s1, n1, s2, n2)
  <1>1. u \in Seq(S) /\ Len(u) = n1 + n2
    BY ConcatProperties
  <1>2. \A i \in 1 .. n1 + n2 : u[i] = IF i <= n1 THEN s1[i] ELSE s2[i - n1]
    BY ConcatProperties
  <1> QED
    BY <1>1, <1>2 DEF IsJoined

\* A text with c behind its first `at' characters.
IsWith(new, S, text, n, at, c) ==
  /\ new \in Seq(S) /\ Len(new) = n + 1
  /\ \A k \in 1 .. n + 1 :
       new[k] = IF k <= at THEN text[k] ELSE IF k = at + 1 THEN c ELSE text[k - 1]

\* A text with a character put into it.
LEMMA WithCharacter ==
  ASSUME NEW S, NEW text \in Seq(S), NEW c \in S, NEW n, n = Len(text), NEW at \in 0 .. n,
         NEW new, new = SubSeq(text, 1, at) \o <<c>> \o SubSeq(text, at + 1, n)
  PROVE  IsWith(new, S, text, n, at, c)
  <1>1. n \in Nat /\ at \in Nat /\ at <= n
    BY LenProperties
  <1>2. PICK a : a = SubSeq(text, 1, at)
    OBVIOUS
  <1>3. a \in Seq(S) /\ at = Len(a) /\ \A k \in 1 .. at : a[k] = text[k]
    <2>1. 1 \in 1 .. n + 1 /\ at \in 0 .. n /\ 1 <= at + 1
      BY <1>1
    <2>2. a \in Seq(S) /\ Len(a) = at - 1 + 1 /\ \A k \in 1 .. at - 1 + 1 : a[k] = text[1 + k - 1]
      BY <1>2, <2>1, PartOf
    <2> QED
      BY <1>1, <2>2
  <1>4. PICK z : z = SubSeq(text, at + 1, n)
    OBVIOUS
  <1>5. PICK d : d = n - at /\ d \in Nat
    BY <1>1
  <1>6. z \in Seq(S) /\ d = Len(z) /\ \A k \in 1 .. d : z[k] = text[at + k]
    <2>1. at + 1 \in 1 .. n + 1 /\ n \in 0 .. n /\ at + 1 <= n + 1
      BY <1>1
    <2>2. /\ z \in Seq(S) /\ Len(z) = n - (at + 1) + 1
          /\ \A k \in 1 .. n - (at + 1) + 1 : z[k] = text[at + 1 + k - 1]
      BY <1>4, <2>1, PartOf
    <2> QED
      BY <1>1, <1>5, <2>2
  <1>7. PICK m : m = <<c>>
    OBVIOUS
  <1>8. m \in Seq(S) /\ 1 = Len(m) /\ m[1] = c
    BY <1>7
  <1>9. PICK u : u = a \o m
    OBVIOUS
  <1>10. PICK e : e = at + 1 /\ e \in Nat
    BY <1>1
  <1>11. /\ u \in Seq(S) /\ e = Len(u)
         /\ \A k \in 1 .. e : u[k] = IF k <= at THEN a[k] ELSE m[k - at]
    <2>1. 1 \in Nat
      OBVIOUS
    <2>2. IsJoined(u, S, a, at, m, 1)
      BY <1>1, <1>3, <1>8, <1>9, <2>1, Joined, Zenon
    <2> QED
      BY <1>10, <2>2 DEF IsJoined
  <1>12. new = u \o z
    BY <1>2, <1>4, <1>7, <1>9
  <1>13. /\ new \in Seq(S) /\ Len(new) = e + d
         /\ \A k \in 1 .. e + d : new[k] = IF k <= e THEN u[k] ELSE z[k - e]
    <2>1. IsJoined(new, S, u, e, z, d)
      BY <1>5, <1>6, <1>10, <1>11, <1>12, Joined, Zenon
    <2> QED
      BY <2>1 DEF IsJoined
  <1>14. e + d = n + 1
    BY <1>1, <1>5, <1>10
  <1>15. ASSUME NEW k \in 1 .. n + 1
         PROVE  new[k] = IF k <= at THEN text[k] ELSE IF k = at + 1 THEN c ELSE text[k - 1]
    <2>1. new[k] = IF k <= e THEN u[k] ELSE z[k - e]
      BY <1>13, <1>14
    <2>2. CASE k <= at
      <3>1. k <= e /\ k \in 1 .. e /\ k \in 1 .. at
        BY <1>1, <1>10, <2>2
      <3> QED
        BY <1>3, <1>11, <2>1, <2>2, <3>1
    <2>3. CASE k = at + 1
      <3>1. k <= e /\ k \in 1 .. e /\ ~(k <= at) /\ k - at = 1
        BY <1>1, <1>10, <2>3
      <3> QED
        BY <1>8, <1>11, <2>1, <2>3, <3>1
    <2>4. CASE k > at + 1
      <3>1. ~(k <= e) /\ k - e \in 1 .. d /\ ~(k <= at) /\ k # at + 1 /\ at + (k - e) = k - 1
        BY <1>1, <1>5, <1>10, <2>4
      <3>2. new[k] = text[at + (k - e)]
        BY <1>6, <2>1, <3>1
      <3> QED
        BY <3>1, <3>2
    <2>5. k <= at \/ k = at + 1 \/ k > at + 1
      BY <1>1
    <2> QED
      BY <2>2, <2>3, <2>4, <2>5
  <1> QED
    BY <1>13, <1>14, <1>15 DEF IsWith

\* A text without its character number `at'.
IsWithout(new, S, text, n, at) ==
  /\ new \in Seq(S) /\ Len(new) = n - 1
  /\ \A k \in 1 .. n - 1 : new[k] = IF k < at THEN text[k] ELSE text[k + 1]

\* A text with a character taken out of it.
LEMMA WithoutCharacter ==
  ASSUME NEW S, NEW text \in Seq(S), NEW n, n = Len(text), NEW at \in 1 .. n,
         NEW new, new = SubSeq(text, 1, at - 1) \o SubSeq(text, at + 1, n)
  PROVE  IsWithout(new, S, text, n, at)
  <1>1. n \in Nat /\ at \in Nat /\ at <= n /\ at >= 1
    BY LenProperties
  <1>2. PICK a : a = SubSeq(text, 1, at - 1)
    OBVIOUS
  <1>3. PICK e : e = at - 1 /\ e \in Nat
    BY <1>1
  <1>4. a \in Seq(S) /\ e = Len(a) /\ \A k \in 1 .. e : a[k] = text[k]
    <2>1. 1 \in 1 .. n + 1 /\ at - 1 \in 0 .. n /\ 1 <= at - 1 + 1
      BY <1>1
    <2>2. a \in Seq(S) /\ Len(a) = at - 1 - 1 + 1 /\ \A k \in 1 .. at - 1 - 1 + 1 : a[k] = text[1 + k - 1]
      BY <1>2, <2>1, PartOf
    <2> QED
      BY <1>1, <1>3, <2>2
  <1>5. PICK z : z = SubSeq(text, at + 1, n)
    OBVIOUS
  <1>6. PICK d : d = n - at /\ d \in Nat
    BY <1>1
  <1>7. z \in Seq(S) /\ d = Len(z) /\ \A k \in 1 .. d : z[k] = text[at + k]
    <2>1. at + 1 \in 1 .. n + 1 /\ n \in 0 .. n /\ at + 1 <= n + 1
      BY <1>1
    <2>2. /\ z \in Seq(S) /\ Len(z) = n - (at + 1) + 1
          /\ \A k \in 1 .. n - (at + 1) + 1 : z[k] = text[at + 1 + k - 1]
      BY <1>5, <2>1, PartOf
    <2> QED
      BY <1>1, <1>6, <2>2
  <1>8. new = a \o z
    BY <1>2, <1>5
  <1>9. /\ new \in Seq(S) /\ Len(new) = e + d
        /\ \A k \in 1 .. e + d : new[k] = IF k <= e THEN a[k] ELSE z[k - e]
    <2>1. IsJoined(new, S, a, e, z, d)
      BY <1>3, <1>4, <1>6, <1>7, <1>8, Joined, Zenon
    <2> QED
      BY <2>1 DEF IsJoined
  <1>10. e + d = n - 1
    BY <1>1, <1>3, <1>6
  <1>11. ASSUME NEW k \in 1 .. n - 1
         PROVE  new[k] = IF k < at THEN text[k] ELSE text[k + 1]
    <2>1. new[k] = IF k <= e THEN a[k] ELSE z[k - e]
      BY <1>9, <1>10
    <2>2. CASE k < at
      <3>1. k <= e /\ k \in 1 .. e
        BY <1>1, <1>3, <2>2
      <3> QED
        BY <1>4, <2>1, <2>2, <3>1
    <2>3. CASE ~(k < at)
      <3>1. ~(k <= e) /\ k - e \in 1 .. d /\ at + (k - e) = k + 1
        BY <1>1, <1>3, <1>6, <2>3
      <3>2. new[k] = text[at + (k - e)]
        BY <1>7, <2>1, <3>1
      <3> QED
        BY <2>3, <3>1, <3>2
    <2> QED
      BY <2>2, <2>3
  <1> QED
    BY <1>9, <1>10, <1>11 DEF IsWithout

Spells(b, text, n) == n = Len(text) /\ \A k \in 1 .. n : text[k] = b[k - 1]

\* A text that the buffer spells is the one read from it.
LEMMA SameText ==
  ASSUME NEW S, NEW text \in Seq(S), NEW n \in Nat, NEW b, Spells(b, text, n)
  PROVE  text = Read(b, n)
  <1>1. text \in [1 .. n -> S]
    BY LenProperties DEF Spells
  <1> QED
    BY <1>1 DEF Read, Spells

\* What the three changes of the buffer do to the text that is read from it.
IsText(b, S, text, n) ==
  b \in Buffers /\ text \in Seq(S) /\ text = Read(b, n) /\ Len(text) = n

\* The buffer spells the line with a character put in,
LEMMA InsertedText ==
  ASSUME NEW b \in Buffers, NEW n \in Nat, n + 1 < BufSize, NEW c \in Marks, NEW at \in 0 .. n,
         NEW S, NEW text \in Seq(S), text = Read(b, n), c \in S,
         NEW new, new = SubSeq(text, 1, at) \o <<c>> \o SubSeq(text, at + 1, n),
         NEW b2, b2 = insert_and_shift(b, c, at, n + 1), NEW f, f = n + 1
  PROVE  IsText(b2, S, new, f)
  <1>1. n = Len(text) /\ \A k \in 1 .. n : text[k] = b[k - 1]
    BY ReadIs
  <1>2. /\ new \in Seq(S) /\ Len(new) = n + 1
        /\ \A k \in 1 .. n + 1 :
             new[k] = IF k <= at THEN text[k] ELSE IF k = at + 1 THEN c ELSE text[k - 1]
    <2>1. n = Len(text)
      BY <1>1
    <2>2. IsWith(new, S, text, n, at, c)
      BY <2>1, WithCharacter, Zenon
    <2> QED
      BY <2>2 DEF IsWith
  <1>3. b \in [0 .. BufSize - 1 -> Marks]
    BY DEF Buffers
  <1>4. b2 = [m \in 0 .. BufSize - 1 |->
                IF m = at THEN c ELSE IF m \in at + 1 .. n + 1 - 1 THEN b[m - 1] ELSE b[m]]
    BY <1>3 DEF insert_and_shift
  <1>5. b2 \in Buffers
    <2>1. ASSUME NEW m \in 0 .. BufSize - 1, m \in at + 1 .. n + 1 - 1
          PROVE  m - 1 \in 0 .. BufSize - 1
      BY <2>1, Widths
    <2> QED
      BY <1>3, <1>4, <2>1 DEF Buffers
  <1>6. ASSUME NEW k \in 1 .. n + 1
        PROVE  new[k] = b2[k - 1]
    <2>1. /\ k \in Nat /\ k - 1 \in 0 .. BufSize - 1 /\ at \in Nat
          /\ k <= at => k \in 1 .. n /\ k - 1 # at /\ ~(k - 1 \in at + 1 .. n + 1 - 1)
          /\ k = at + 1 => k - 1 = at /\ ~(k <= at)
          /\ k > at + 1 => /\ k - 1 \in 1 .. n /\ k - 1 # at /\ k - 1 \in at + 1 .. n + 1 - 1
                           /\ ~(k <= at) /\ k # at + 1
      BY Widths
    <2>2. new[k] = IF k <= at THEN text[k] ELSE IF k = at + 1 THEN c ELSE text[k - 1]
      BY <1>2
    <2>3. b2[k - 1] = IF k - 1 = at THEN c
                      ELSE IF k - 1 \in at + 1 .. n + 1 - 1 THEN b[k - 1 - 1] ELSE b[k - 1]
      BY <1>4, <2>1
    <2>4. CASE k <= at
      <3>1. text[k] = b[k - 1]
        BY <1>1, <2>1, <2>4
      <3> QED
        BY <2>1, <2>2, <2>3, <2>4, <3>1
    <2>5. CASE k = at + 1
      BY <2>1, <2>2, <2>3, <2>5
    <2>6. CASE k > at + 1
      <3>1. text[k - 1] = b[k - 1 - 1]
        BY <1>1, <2>1, <2>6
      <3> QED
        BY <2>1, <2>2, <2>3, <2>6, <3>1
    <2>7. k <= at \/ k = at + 1 \/ k > at + 1
      BY <2>1
    <2> QED
      BY <2>4, <2>5, <2>6, <2>7
  <1>7. PICK n1 \in Nat : n1 = n + 1
    OBVIOUS
  <1>8. new = Read(b2, n1)
    <2>1. Spells(b2, new, n1)
      BY <1>2, <1>6, <1>7 DEF Spells
    <2> QED
      BY <1>2, <2>1, SameText, Zenon
  <1> QED
    BY <1>2, <1>5, <1>7, <1>8 DEF IsText

\* or taken out,
LEMMA ErasedText ==
  ASSUME NEW b \in Buffers, NEW n \in Nat, n + 1 < BufSize, NEW at \in 1 .. n,
         NEW S, NEW text \in Seq(S), text = Read(b, n),
         NEW new, new = SubSeq(text, 1, at - 1) \o SubSeq(text, at + 1, n),
         NEW b2, b2 = delete_and_shift(b, at - 1, n - 1), NEW f, f = n - 1
  PROVE  IsText(b2, S, new, f)
  <1>1. n = Len(text) /\ \A k \in 1 .. n : text[k] = b[k - 1]
    BY ReadIs
  <1>2. /\ new \in Seq(S) /\ Len(new) = n - 1
        /\ \A k \in 1 .. n - 1 : new[k] = IF k < at THEN text[k] ELSE text[k + 1]
    <2>1. n = Len(text)
      BY <1>1
    <2>2. IsWithout(new, S, text, n, at)
      BY <2>1, WithoutCharacter, Zenon
    <2> QED
      BY <2>2 DEF IsWithout
  <1>3. b \in [0 .. BufSize - 1 -> Marks]
    BY DEF Buffers
  <1>4. b2 = [m \in 0 .. BufSize - 1 |->
                IF m \in at - 1 .. n - 1 - 1 THEN b[m + 1] ELSE b[m]]
    BY <1>3 DEF delete_and_shift
  <1>5. b2 \in Buffers
    <2>1. ASSUME NEW m \in 0 .. BufSize - 1, m \in at - 1 .. n - 1 - 1
          PROVE  m + 1 \in 0 .. BufSize - 1
      BY <2>1, Widths
    <2> QED
      BY <1>3, <1>4, <2>1 DEF Buffers
  <1>6. ASSUME NEW k \in 1 .. n - 1
        PROVE  new[k] = b2[k - 1]
    <2>1. /\ k \in Nat /\ k - 1 \in 0 .. BufSize - 1 /\ at \in Nat
          /\ k < at => k \in 1 .. n /\ ~(k - 1 \in at - 1 .. n - 1 - 1)
          /\ k >= at => /\ k + 1 \in 1 .. n /\ k - 1 \in at - 1 .. n - 1 - 1
                        /\ ~(k < at) /\ k + 1 - 1 = k - 1 + 1
      BY Widths
    <2>2. new[k] = IF k < at THEN text[k] ELSE text[k + 1]
      BY <1>2
    <2>3. b2[k - 1] = IF k - 1 \in at - 1 .. n - 1 - 1 THEN b[k - 1 + 1] ELSE b[k - 1]
      BY <1>4, <2>1
    <2>4. CASE k < at
      <3>1. text[k] = b[k - 1]
        BY <1>1, <2>1, <2>4
      <3> QED
        BY <2>1, <2>2, <2>3, <2>4, <3>1
    <2>5. CASE k >= at
      <3>1. text[k + 1] = b[k + 1 - 1]
        BY <1>1, <2>1, <2>5
      <3> QED
        BY <2>1, <2>2, <2>3, <2>5, <3>1
    <2>6. k < at \/ k >= at
      BY <2>1
    <2> QED
      BY <2>4, <2>5, <2>6
  <1>7. PICK n1 \in Nat : n1 = n - 1
    OBVIOUS
  <1>8. new = Read(b2, n1)
    <2>1. Spells(b2, new, n1)
      BY <1>2, <1>6, <1>7 DEF Spells
    <2> QED
      BY <1>2, <2>1, SameText, Zenon
  <1> QED
    BY <1>2, <1>5, <1>7, <1>8 DEF IsText

IsLonger(new, S, text, n, c) ==
  /\ new \in Seq(S) /\ Len(new) = n + 1 /\ new[n + 1] = c
  /\ \A k \in 1 .. n : new[k] = text[k]

\* A text with a character behind it.
LEMMA Appended ==
  ASSUME NEW S, NEW text \in Seq(S), NEW n, n = Len(text), NEW c \in S, NEW new, new = Append(text, c)
  PROVE  IsLonger(new, S, text, n, c)
  BY Grows DEF IsLonger

\* or ended.
LEMMA EndedText ==
  ASSUME NEW b \in Buffers, NEW n \in Nat, n + 1 < BufSize,
         NEW S, NEW text \in Seq(S), text = Read(b, n), ENDL \in S,
         NEW b2, b2 = [m \in DOMAIN b |-> IF m = n THEN ENDL ELSE b[m]],
         NEW f, f = n + 1, NEW new, new = Append(text, ENDL)
  PROVE  IsText(b2, S, new, f)
  <1>1. n = Len(text) /\ \A k \in 1 .. n : text[k] = b[k - 1]
    BY ReadIs
  <1>2. new = Append(text, ENDL)
    OBVIOUS
  <1>3. /\ new \in Seq(S) /\ Len(new) = n + 1 /\ new[n + 1] = ENDL
        /\ \A k \in 1 .. n : new[k] = text[k]
    <2>1. n = Len(text)
      BY <1>1
    <2>2. IsLonger(new, S, text, n, ENDL)
      BY <1>2, <2>1, Appended, Zenon
    <2> QED
      BY <2>2 DEF IsLonger
  <1>4. b \in [0 .. BufSize - 1 -> Marks] /\ ENDL \in Marks
    BY DEF Buffers, Marks
  <1>5. b2 = [m \in 0 .. BufSize - 1 |-> IF m = n THEN ENDL ELSE b[m]]
    BY <1>4
  <1>6. b2 \in Buffers
    BY <1>4, <1>5 DEF Buffers
  <1>7. ASSUME NEW k \in 1 .. n + 1
        PROVE  new[k] = b2[k - 1]
    <2>1. /\ k - 1 \in 0 .. BufSize - 1
          /\ k = n + 1 \/ (k \in 1 .. n /\ k - 1 # n)
      BY Widths
    <2>2. b2[k - 1] = IF k - 1 = n THEN ENDL ELSE b[k - 1]
      BY <1>5, <2>1
    <2> QED
      BY <1>1, <1>3, <2>1, <2>2
  <1>8. PICK n1 \in Nat : n1 = n + 1
    OBVIOUS
  <1>9. new = Read(b2, n1)
    <2>1. Spells(b2, new, n1)
      BY <1>3, <1>7, <1>8 DEF Spells
    <2> QED
      BY <1>3, <2>1, SameText, Zenon
  <1> QED
    BY <1>3, <1>6, <1>8, <1>9 DEF IsText

-----------------------------------------------------------------------------
(* A line on the screen                                                    *)

\* The k-th cell behind a cell, in its row.
LEMMA InRow ==
  ASSUME NEW at \in Cells, NEW k \in Nat, (at % BUFFER_WIDTH) + k < BUFFER_WIDTH
  PROVE  at + k \in Cells /\ (at + k) % BUFFER_WIDTH = (at % BUFFER_WIDTH) + k
  <1>1. PICK r, c : r = RowOf(at) /\ c = at % BUFFER_WIDTH
    OBVIOUS
  <1>2. r \in Rows /\ c \in Cols /\ at = CellAt(r, c)
    BY <1>1, CellIsPlace
  <1>3. c \in Nat /\ c + k < BUFFER_WIDTH
    BY <1>1, <1>2, Widths DEF Cols
  <1>4. PICK d : d = c + k /\ d \in Cols
    BY <1>3, Widths DEF Cols
  <1>5. CellAt(r, d) \in Cells /\ CellAt(r, d) % BUFFER_WIDTH = d
    BY <1>2, <1>4, PlaceIsCell
  <1>6. CellAt(r, d) = at + k
    <2>1. PICK x : x = r * BUFFER_WIDTH /\ x \in Nat
      BY <1>2, Widths, Products DEF Rows
    <2>2. at = x + c /\ CellAt(r, d) = x + d
      BY <1>2, <2>1 DEF CellAt
    <2> QED
      BY <1>3, <1>4, <2>1, <2>2
  <1> QED
    BY <1>1, <1>4, <1>5, <1>6

\* Where a line begins.
LEMMA AnchorIs ==
  ASSUME NEW s \in Screens
  PROVE  /\ Anchor(s) \in Anchors /\ Anchor(s).at = Cursor(s)
         /\ Anchor(s).clean => \A n \in Cells : n >= Cursor(s) => s.chars[n] = Empty
  BY CursorIsCell DEF Anchor, Anchors

\* The empty line.
LEMMA NoLineIs ==
  NoLine \in Lines /\ NoLine.text = <<>> /\ NoLine.cursor = 0 /\ Len(NoLine.text) = 0
  BY EmptySeq DEF NoLine, Lines

\* Where no line was begun, none is shown.
LEMMA NothingShown ==
  ASSUME NEW s \in Screens, NEW a, a = Anchor(s)
  PROVE  Shown(s, NoLine, a)
  <1>1. a.at = Cursor(s) /\ a.at \in Cells
    BY AnchorIs, CursorIsCell
  <1>2. a.at \in Nat
    BY <1>1, CellNumbers
  <1>3. a.at % BUFFER_WIDTH \in Cols
    BY <1>1, CellIsPlace
  <1>4. a.at % BUFFER_WIDTH \in Nat /\ a.at % BUFFER_WIDTH < BUFFER_WIDTH
    BY <1>3, Widths DEF Cols
  <1>5. Cursor(s) = a.at + 0 /\ (a.at % BUFFER_WIDTH) + 0 < BUFFER_WIDTH
    BY <1>1, <1>2, <1>4
  <1>6. a.clean => \A n \in Cells : n >= a.at + 0 => s.chars[n] = Empty
    BY <1>1, <1>2, AnchorIs
  <1>7. DOMAIN NoLine.text = {}
    BY DEF NoLine
  <1> QED
    BY <1>5, <1>6, <1>7, NoLineIs DEF Shown

\* What a line has.
LEMMA LineFields ==
  ASSUME NEW l \in Lines
  PROVE  l.text \in Seq(Letters) /\ l.cursor \in Nat /\ Len(l.text) \in Nat
         /\ DOMAIN l.text = 1 .. Len(l.text)
         /\ \A k \in 1 .. Len(l.text) : l.text[k] \in Letters
  <1>1. l.text \in Seq(Letters) /\ l.cursor \in Nat
    BY DEF Lines
  <1> QED
    BY <1>1, LenProperties, ElementOfSeq

IsLine(l, text, cur) == l \in Lines /\ l.text = text /\ l.cursor = cur
\* A line of a text and a cursor.
LEMMA LineIs ==
  ASSUME NEW text \in Seq(Letters), NEW cur \in Nat, NEW l, l = [text |-> text, cursor |-> cur]
  PROVE  IsLine(l, text, cur)
  BY DEF Lines, IsLine

\* Where a line that is shown stands.
Stands(l, a, n, at, cur) == n = Len(l.text) /\ at = a.at /\ cur = l.cursor

\* Where a line that is shown stands.
LEMMA ShownAt ==
  ASSUME NEW s \in Screens, NEW l \in Lines, NEW a \in Anchors, Shown(s, l, a),
         NEW n, NEW at, NEW cur, Stands(l, a, n, at, cur)
  PROVE  /\ n \in Nat /\ at \in Nat /\ at \in Cells /\ cur \in 0 .. n
         /\ at + n \in Cells /\ (at + n) % BUFFER_WIDTH = (at % BUFFER_WIDTH) + n
         /\ (at % BUFFER_WIDTH) \in Nat /\ (at % BUFFER_WIDTH) + n < BUFFER_WIDTH
         /\ Cursor(s) = at + cur /\ Cursor(s) \in Cells /\ s.col = (at % BUFFER_WIDTH) + cur
  <1>1. n \in Nat /\ cur \in Nat
    BY LineFields DEF Stands
  <1>2. at \in Cells /\ at \in Nat
    BY CellNumbers DEF Anchors, Stands
  <1>3. at % BUFFER_WIDTH \in Nat
    BY <1>2, CellIsPlace, Widths DEF Cols
  <1>4. cur <= n /\ (at % BUFFER_WIDTH) + n < BUFFER_WIDTH /\ Cursor(s) = at + cur
    BY DEF Shown, Stands
  <1>5. at + n \in Cells /\ (at + n) % BUFFER_WIDTH = (at % BUFFER_WIDTH) + n
    BY <1>1, <1>2, <1>4, InRow
  <1>6. (at % BUFFER_WIDTH) + cur < BUFFER_WIDTH
    BY <1>1, <1>3, <1>4, Widths
  <1>7. (at + cur) % BUFFER_WIDTH = (at % BUFFER_WIDTH) + cur
    BY <1>1, <1>2, <1>6, InRow
  <1>8. Cursor(s) \in Cells /\ Cursor(s) % BUFFER_WIDTH = s.col
    BY CursorIsCell
  <1>9. s.col = (at % BUFFER_WIDTH) + cur
    BY <1>4, <1>7, <1>8
  <1> QED
    BY <1>1, <1>2, <1>3, <1>4, <1>5, <1>8, <1>9

After(l, cur) == l.cursor = cur

\* There is room in the row for one more character and the mark of its end.
RoomInRow(a, l) == ((a.at + Len(l.text)) % BUFFER_WIDTH) + 1 < BUFFER_WIDTH

\* A letter is put into the line on the screen.
LEMMA InsertShown ==
  ASSUME NEW s \in Screens, NEW l \in Lines, NEW a \in Anchors, Shown(s, l, a), NEW c \in Letters,
         NEW n \in Nat, NEW at \in Nat, NEW cur \in Nat, Stands(l, a, n, at, cur), RoomInRow(a, l),
         NEW l2 \in Lines, IsWith(l2.text, Letters, l.text, n, cur, c), After(l2, cur + 1),
         NEW s2, s2 = monitor_tm_insert_byte(s, c)
  PROVE  s2 \in Screens /\ Shown(s2, l2, a)
  <1>1. /\ n \in Nat /\ at \in Nat /\ at \in Cells /\ cur \in 0 .. n
        /\ at + n \in Cells /\ (at + n) % BUFFER_WIDTH = (at % BUFFER_WIDTH) + n
        /\ (at % BUFFER_WIDTH) \in Nat /\ (at % BUFFER_WIDTH) + n < BUFFER_WIDTH
        /\ Cursor(s) = at + cur /\ Cursor(s) \in Cells /\ s.col = (at % BUFFER_WIDTH) + cur
    BY ShownAt
  <1>2. PICK w : w = at % BUFFER_WIDTH /\ w \in Nat
    BY <1>1
  <1>3. n \in Nat /\ at \in Nat /\ cur \in Nat /\ cur <= n /\ Last \in Nat /\ at + n <= Last
    BY <1>1, CellNumbers
  <1>4. w + n + 1 < BUFFER_WIDTH
    BY <1>1, <1>2 DEF RoomInRow, Stands
  <1>5. s.col + 1 # BUFFER_WIDTH
    <2>1. s.col = w + cur
      BY <1>1, <1>2
    <2> QED
      BY <1>3, <1>2, <1>4, <2>1, Widths
  <1>6. s2 \in Screens /\ Cursor(s2) = Cursor(s) + 1
    BY <1>5, ByteInserted
  <1>7. PICK to : /\ to \in UpTo(s, Cursor(s))
                  /\ s2.chars = [m \in Cells |->
                       IF m = Cursor(s) THEN c
                       ELSE IF m \in Cursor(s) + 1 .. to THEN s.chars[m - 1] ELSE s.chars[m]]
    BY <1>5, ByteInserted
  <1>8. PICK at0 : at0 = Cursor(s) /\ at0 = at + cur /\ at0 \in Nat
    BY <1>1
  <1>9. /\ to \in Cells /\ to \in Nat
        /\ to = Last \/ (to > at0 /\ s.chars[to] = Empty)
    BY <1>7, <1>8, CellNumbers DEF UpTo
  <1>10. \A m \in Cells : s2.chars[m] = IF m = at0 THEN c
                           ELSE IF m \in at0 + 1 .. to THEN s.chars[m - 1] ELSE s.chars[m]
    BY <1>7, <1>8
  <1>11. /\ \A k \in 1 .. n : s.chars[at + k - 1] = l.text[k] /\ l.text[k] # Empty
         /\ a.clean => \A m \in Cells : m >= at + n => s.chars[m] = Empty
    BY LineFields DEF Shown, Letters, Empty, Stands
  <1>12. to >= at + n
    <2>1. CASE to = Last
      BY <1>1, <2>1, CellNumbers
    <2>2. CASE to > at0 /\ s.chars[to] = Empty /\ to < at + n
      <3>1. to - at + 1 \in 1 .. n /\ at + (to - at + 1) - 1 = to
        BY <1>3, <1>8, <1>9, <2>2
      <3> QED
        BY <1>11, <2>2, <3>1
    <2> QED
      BY <1>1, <1>9, <2>1, <2>2
  <1>13. ASSUME NEW k \in 1 .. n + 1
         PROVE  s2.chars[at + k - 1] = l2.text[k]
    <2>1. l2.text[k] = IF k <= cur THEN l.text[k] ELSE IF k = cur + 1 THEN c ELSE l.text[k - 1]
      BY DEF IsWith
    <2>2. PICK m : m = at + k - 1 /\ m \in Cells /\ m \in Nat
      <3>1. at + k - 1 \in 0 .. Last
        BY <1>3
      <3> QED
        BY <3>1, CellNumbers
    <2>3. s2.chars[m] = IF m = at0 THEN c
                        ELSE IF m \in at0 + 1 .. to THEN s.chars[m - 1] ELSE s.chars[m]
      BY <1>10, <2>2
    <2>4. CASE k <= cur
      <3>1. m # at0 /\ ~(m \in at0 + 1 .. to) /\ k \in 1 .. n
        BY <1>3, <1>8, <2>2, <2>4
      <3> QED
        BY <1>11, <2>1, <2>2, <2>3, <2>4, <3>1
    <2>5. CASE k = cur + 1
      <3>1. m = at0 /\ ~(k <= cur)
        BY <1>3, <1>8, <2>2, <2>5
      <3> QED
        BY <2>1, <2>2, <2>3, <2>5, <3>1
    <2>6. CASE k > cur + 1
      <3>1. /\ m # at0 /\ m \in at0 + 1 .. to /\ k - 1 \in 1 .. n /\ m - 1 = at + (k - 1) - 1
            /\ ~(k <= cur) /\ k # cur + 1
        BY <1>3, <1>8, <1>9, <1>12, <2>2, <2>6
      <3>2. s.chars[at + (k - 1) - 1] = l.text[k - 1]
        BY <1>11, <3>1
      <3> QED
        BY <2>1, <2>2, <2>3, <3>1, <3>2
    <2>7. k <= cur \/ k = cur + 1 \/ k > cur + 1
      OBVIOUS
    <2> QED
      BY <2>4, <2>5, <2>6, <2>7
  <1>14. ASSUME a.clean, NEW m \in Cells, m >= at + (n + 1)
         PROVE  s2.chars[m] = Empty
    <2>1. m \in Nat /\ m # at0 /\ m >= at + n
      BY <1>1, <1>8, <1>14, CellNumbers
    <2>2. CASE m \in at0 + 1 .. to
      <3>1. m - 1 \in Cells /\ m - 1 >= at + n
        BY <1>3, <1>8, <1>14, <2>1, CellNumbers
      <3> QED
        BY <1>10, <1>11, <1>14, <2>1, <2>2, <3>1
    <2> QED
      BY <1>10, <1>11, <1>14, <2>1, <2>2
  <1>15. Len(l2.text) = n + 1 /\ DOMAIN l2.text = 1 .. n + 1
    BY LineFields DEF IsWith
  <1>16. Cursor(s2) = at + (cur + 1) /\ cur + 1 <= n + 1 /\ w + (n + 1) < BUFFER_WIDTH
    <2>1. cur + 1 <= n + 1 /\ w + (n + 1) < BUFFER_WIDTH /\ (at + cur) + 1 = at + (cur + 1)
      BY <1>3, <1>2, <1>4, Widths
    <2> QED
      BY <1>6, <1>8, <2>1
  <1> QED
    BY <1>2, <1>6, <1>13, <1>14, <1>15, <1>16 DEF Shown, Stands, After

\* The character before the cursor is taken back.
LEMMA EraseShown ==
  ASSUME NEW s \in Screens, NEW l \in Lines, NEW a \in Anchors, Shown(s, l, a),
         NEW n \in Nat, NEW at \in Nat, NEW cur \in Nat, Stands(l, a, n, at, cur), cur > 0,
         NEW l2 \in Lines, IsWithout(l2.text, Letters, l.text, n, cur), After(l2, cur - 1),
         NEW s2, s2 = monitor_tm_write_byte(s, "bs")
  PROVE  s2 \in Screens /\ Shown(s2, l2, a)
  <1>1. /\ at \in Cells /\ cur \in 0 .. n /\ at + n \in Cells
        /\ (at % BUFFER_WIDTH) \in Nat /\ (at % BUFFER_WIDTH) + n < BUFFER_WIDTH
        /\ Cursor(s) = at + cur /\ Cursor(s) \in Cells
    BY ShownAt
  <1>2. PICK w : w = at % BUFFER_WIDTH /\ w \in Nat /\ w + n < BUFFER_WIDTH
    BY <1>1
  <1>3. cur <= n /\ Last \in Nat /\ at + n <= Last
    BY <1>1, CellNumbers
  <1>4. PICK at0 : at0 = at + cur - 1 /\ at0 \in Nat /\ at0 + 1 = at + cur
    OBVIOUS
  <1>5. s2 \in Screens /\ Cursor(s2) = at0
        /\ \A m \in Cells :
             /\ m < at0 => s2.chars[m] = s.chars[m]
             /\ m >= at0 /\ m # Last /\ s.chars[m + 1] # ENDL => s2.chars[m] = s.chars[m + 1]
             /\ m >= at0 /\ (m # Last => s.chars[m + 1] = Empty) => s2.chars[m] = Empty
    <2>1. PICK x : x = Cursor(s) /\ x = at + cur
      BY <1>1
    <2>2. x # 0 /\ x - 1 = at0
      BY <1>4, <2>1
    <2>3. PICK y : y = Cursor(s2)
      OBVIOUS
    <2>4. /\ s2 \in Screens /\ y = x - 1
          /\ \A m \in Cells :
               /\ m < y => s2.chars[m] = s.chars[m]
               /\ m >= y /\ m # Last /\ s.chars[m + 1] # ENDL => s2.chars[m] = s.chars[m + 1]
               /\ m >= y /\ (m # Last => s.chars[m + 1] = Empty) => s2.chars[m] = Empty
      BY <2>1, <2>2, <2>3, ByteErased
    <2>5. y = at0
      BY <2>2, <2>4
    <2> QED
      BY <2>3, <2>4, <2>5
  <1>6. /\ \A k \in 1 .. n : s.chars[at + k - 1] = l.text[k] /\ l.text[k] # ENDL
        /\ a.clean => \A m \in Cells : m >= at + n => s.chars[m] = Empty
    BY LineFields DEF Shown, Letters, ENDL, Stands
  <1>7. ASSUME NEW k \in 1 .. n - 1
        PROVE  s2.chars[at + k - 1] = l2.text[k]
    <2>1. l2.text[k] = IF k < cur THEN l.text[k] ELSE l.text[k + 1]
      BY DEF IsWithout
    <2>2. PICK m : m = at + k - 1 /\ m \in Cells /\ m \in Nat /\ m + 1 <= Last
      <3>1. at + k - 1 \in 0 .. Last /\ at + k - 1 + 1 <= Last
        BY <1>3
      <3> QED
        BY <3>1, CellNumbers
    <2>3. CASE k < cur
      <3>1. m < at0 /\ k \in 1 .. n
        BY <1>3, <1>4, <2>2, <2>3
      <3>2. s2.chars[m] = s.chars[m]
        BY <1>5, <2>2, <3>1
      <3>3. s.chars[at + k - 1] = l.text[k]
        BY <1>6, <3>1
      <3> QED
        BY <2>1, <2>2, <2>3, <3>2, <3>3
    <2>4. CASE ~(k < cur)
      <3>1. m >= at0 /\ m # Last /\ k + 1 \in 1 .. n /\ m + 1 = at + (k + 1) - 1
        BY <1>3, <1>4, <2>2, <2>4
      <3>2. s.chars[at + (k + 1) - 1] = l.text[k + 1] /\ l.text[k + 1] # ENDL
        BY <1>6, <3>1
      <3>3. s2.chars[m] = s.chars[m + 1]
        BY <1>5, <2>2, <3>1, <3>2
      <3> QED
        BY <2>1, <2>2, <2>4, <3>1, <3>2, <3>3
    <2> QED
      BY <2>3, <2>4
  <1>8. ASSUME a.clean, NEW m \in Cells, m >= at + (n - 1)
        PROVE  s2.chars[m] = Empty
    <2>1. m \in Nat /\ m >= at0
      BY <1>3, <1>4, <1>8, CellNumbers
    <2>2. ASSUME m # Last
          PROVE  s.chars[m + 1] = Empty
      <3>1. m + 1 \in Cells /\ m + 1 >= at + n
        BY <1>3, <1>8, <2>1, <2>2, CellNumbers
      <3> QED
        BY <1>6, <1>8, <3>1
    <2> QED
      BY <1>5, <2>1, <2>2
  <1>9. Len(l2.text) = n - 1 /\ DOMAIN l2.text = 1 .. n - 1
    BY LineFields DEF IsWithout
  <1>10. at0 = at + (cur - 1) /\ cur - 1 <= n - 1 /\ w + (n - 1) < BUFFER_WIDTH
    BY <1>2, <1>3, <1>4, Widths
  <1> QED
    BY <1>2, <1>5, <1>7, <1>8, <1>9, <1>10 DEF Shown, Stands, After

\* The cursor moves within the line.
LEMMA CursorShown ==
  ASSUME NEW s \in Screens, NEW l \in Lines, NEW a \in Anchors, Shown(s, l, a),
         NEW cur \in Nat, cur <= Len(l.text), NEW l2, l2 = [l EXCEPT !.cursor = cur],
         NEW s2, s2.chars = s.chars, Cursor(s2) = a.at + cur
  PROVE  l2 \in Lines /\ Shown(s2, l2, a)
  <1>1. l2 \in Lines /\ l2.text = l.text /\ l2.cursor = cur
    BY DEF Lines
  <1> QED
    BY <1>1 DEF Shown

\* The line is shown after the cursor went left
LEMMA LeftShown ==
  ASSUME NEW s \in Screens, NEW l \in Lines, NEW a \in Anchors, Shown(s, l, a),
         NEW n \in Nat, NEW at \in Nat, NEW cur \in Nat, Stands(l, a, n, at, cur), cur > 0,
         NEW l2, l2 = [l EXCEPT !.cursor = cur - 1],
         NEW s2, s2 = handle_escape_sequence(s, Sequence("D", None, None))
  PROVE  s2 \in Screens /\ l2 \in Lines /\ Shown(s2, l2, a)
  <1>1. cur \in 0 .. n /\ Cursor(s) = at + cur
    BY ShownAt
  <1>2. PICK x : x = Cursor(s) /\ x = at + cur
    BY <1>1
  <1>3. PICK d : d = cur - 1 /\ d \in Nat /\ d <= n /\ x # 0 /\ x - 1 = at + d
    BY <1>1, <1>2
  <1>4. s2 = move_buffer_position_left(s)
    BY DEF handle_escape_sequence, Sequence
  <1>5. s2 \in Screens /\ Cursor(s2) = x - 1 /\ s2.chars = s.chars
    BY <1>2, <1>3, <1>4, GoesLeft
  <1>6. d <= Len(l.text) /\ Cursor(s2) = a.at + d /\ l2 = [l EXCEPT !.cursor = d]
    BY <1>3, <1>5 DEF Stands
  <1> QED
    BY <1>3, <1>5, <1>6, CursorShown

\* and after it went right.
LEMMA RightShown ==
  ASSUME NEW s \in Screens, NEW l \in Lines, NEW a \in Anchors, Shown(s, l, a),
         NEW n \in Nat, NEW at \in Nat, NEW cur \in Nat, Stands(l, a, n, at, cur), cur < n,
         NEW l2, l2 = [l EXCEPT !.cursor = cur + 1],
         NEW s2, s2 = handle_escape_sequence(s, Sequence("C", None, None))
  PROVE  s2 \in Screens /\ l2 \in Lines /\ Shown(s2, l2, a)
  <1>1. at + n \in Cells /\ Cursor(s) = at + cur
    BY ShownAt
  <1>2. PICK x : x = Cursor(s) /\ x = at + cur
    BY <1>1
  <1>3. Last \in Nat /\ at + n <= Last
    BY <1>1, CellNumbers
  <1>4. PICK d : d = cur + 1 /\ d \in Nat /\ d <= n /\ x # Last /\ x + 1 = at + d
    BY <1>2, <1>3
  <1>5. s2 = move_buffer_position_right(s)
    BY DEF handle_escape_sequence, Sequence
  <1>6. s2 \in Screens /\ Cursor(s2) = x + 1 /\ s2.chars = s.chars
    BY <1>2, <1>4, <1>5, GoesRight
  <1>7. d <= Len(l.text) /\ Cursor(s2) = a.at + d /\ l2 = [l EXCEPT !.cursor = d]
    BY <1>4, <1>6 DEF Stands
  <1> QED
    BY <1>4, <1>6, <1>7, CursorShown

\* The cursor goes behind the end of the line, and on to the next.
LEMMA EnterShown ==
  ASSUME NEW s \in Screens, NEW l \in Lines, NEW a \in Anchors, Shown(s, l, a),
         NEW n \in Nat, NEW at \in Nat, NEW cur \in Nat, Stands(l, a, n, at, cur), at + n # Last,
         NEW s2, s2 = monitor_tm_write_byte(MovedRight(s, n - cur + 1), ENDL)
  PROVE  s2 \in Screens
  <1>1. at + n \in Cells /\ Cursor(s) = at + cur /\ cur \in 0 .. n
    BY ShownAt
  <1>2. PICK x : x = Cursor(s) /\ x = at + cur
    BY <1>1
  <1>3. Last \in Nat /\ at + n <= Last
    BY <1>1, CellNumbers
  <1>4. PICK d : d = n - cur + 1 /\ d \in Nat /\ x + d <= Last
    BY <1>1, <1>2, <1>3
  <1>5. PICK u : u = MovedRight(s, d)
    OBVIOUS
  <1>6. Cursor(s) + d <= Last
    BY <1>2, <1>4
  <1>7. u \in Screens
    BY <1>4, <1>5, <1>6, GoesFarRight
  <1>8. s2 = monitor_tm_write_byte(u, ENDL)
    BY <1>4, <1>5
  <1>9. ENDL \in Glyphs \cup {"bs", "cr"} /\ ENDL # "bs"
    BY DEF Glyphs, ENDL
  <1> QED
    BY <1>7, <1>8, <1>9, ByteStays

\* Nothing is typed ahead: there is no line that waits to be read.
LEMMA NotEnded ==
  ASSUME NEW t \in TTYs, NEW l, NEW e, Holds(t, l, e), e = <<>>
  PROVE  /\ t.canonical => ~t.newline
         /\ ~t.canonical => ~t.present
  <1>1. t.final \in Nat /\ t.buffer \in Buffers
    BY Widths DEF TTYs
  <1>2. Len(e) = 0
    OBVIOUS
  <1>3. t.canonical /\ t.newline => t.final # 0 /\ e = Read(t.buffer, t.final)
    BY DEF Holds
  <1>4. ~t.canonical /\ t.present => e = Read(t.buffer, 1)
    BY DEF Holds
  <1>5. Len(Read(t.buffer, t.final)) = t.final /\ Len(Read(t.buffer, 1)) = 1
    BY <1>1, ReadIs
  <1> QED
    BY <1>1, <1>2, <1>3, <1>4, <1>5

\* What a terminal has.
LEMMA TTYFields ==
  ASSUME NEW t \in TTYs
  PROVE  /\ t.buffer \in Buffers /\ t.final \in 0 .. BufSize - 1 /\ t.pos \in 0 .. BufSize
         /\ t.newline \in BOOLEAN /\ t.present \in BOOLEAN /\ t.echo \in BOOLEAN /\ t.canonical \in BOOLEAN
         /\ t.esc = <<>>
  BY DEF TTYs

\* The changes of the terminal.
ChangedTo(t2, t, buffer, final, pos, newline) ==
  /\ t2 \in TTYs /\ t2.buffer = buffer /\ t2.final = final /\ t2.pos = pos
  /\ t2.present = TRUE /\ t2.newline = newline /\ t2.echo = t.echo /\ t2.canonical = t.canonical

\* A terminal where something was typed,
LEMMA PresentFields ==
  ASSUME NEW t \in TTYs, NEW t2, t2 = MadePresent(t)
  PROVE  ChangedTo(t2, t, t.buffer, t.final, t.pos, t.newline)
  BY DEF MadePresent, TTYs, ChangedTo

\* or edited,
LEMMA EditFields ==
  ASSUME NEW t \in TTYs, NEW b \in Buffers, NEW f \in 0 .. BufSize - 1, NEW p \in 0 .. BufSize,
         NEW t2, t2 = MadePresent(Edit(t, b, f, p))
  PROVE  ChangedTo(t2, t, b, f, p, t.newline)
  <1>1. PICK u : u = Edit(t, b, f, p)
    OBVIOUS
  <1>2. /\ u \in TTYs /\ u.buffer = b /\ u.final = f /\ u.pos = p
        /\ u.newline = t.newline /\ u.echo = t.echo /\ u.canonical = t.canonical
    BY <1>1 DEF Edit, TTYs
  <1>3. t2 = MadePresent(u)
    BY <1>1
  <1> QED
    BY <1>2, <1>3, PresentFields DEF ChangedTo

\* or the cursor moved in the line,
LEMMA PosFields ==
  ASSUME NEW t \in TTYs, NEW p \in 0 .. BufSize, NEW t2, t2 = MadePresent(PosAt(t, p))
  PROVE  ChangedTo(t2, t, t.buffer, t.final, p, t.newline)
  <1>1. PICK u : u = PosAt(t, p)
    OBVIOUS
  <1>2. /\ u \in TTYs /\ u.buffer = t.buffer /\ u.final = t.final /\ u.pos = p
        /\ u.newline = t.newline /\ u.echo = t.echo /\ u.canonical = t.canonical
    BY <1>1 DEF PosAt, TTYs
  <1>3. t2 = MadePresent(u)
    BY <1>1
  <1> QED
    BY <1>2, <1>3, PresentFields DEF ChangedTo

\* or the line ended.
LEMMA EndFields ==
  ASSUME NEW t \in TTYs, NEW b \in Buffers, NEW f \in 0 .. BufSize - 1, NEW p \in 0 .. BufSize,
         NEW t2, t2 = MadePresent(Ended(t, b, f, p))
  PROVE  ChangedTo(t2, t, b, f, p, TRUE)
  <1>1. PICK u : u = Ended(t, b, f, p)
    OBVIOUS
  <1>2. /\ u \in TTYs /\ u.buffer = b /\ u.final = f /\ u.pos = p
        /\ u.newline = TRUE /\ u.echo = t.echo /\ u.canonical = t.canonical
    BY <1>1 DEF Ended, TTYs
  <1>3. t2 = MadePresent(u)
    BY <1>1
  <1> QED
    BY <1>2, <1>3, PresentFields DEF ChangedTo

-----------------------------------------------------------------------------
(* What a key does to the line, to its buffer and to the screen            *)

Sound(t, s, l, e, a) ==
  /\ t \in TTYs /\ l \in Lines /\ s \in Screens /\ a \in Anchors
  /\ Holds(t, l, e) /\ Shows(s, t, l, a)

\* A line of n characters that is being edited.
Editing(t, l, a, n, at, cur) ==
  /\ n \in Nat /\ n + 1 < BufSize /\ n = t.final /\ at \in Nat
  /\ cur \in Nat /\ cur <= n /\ cur = t.pos
  /\ ~t.newline /\ l.text = Read(t.buffer, n) /\ Stands(l, a, n, at, cur)

\* A line is being edited in canonical mode.
LEMMA LineEdited ==
  ASSUME NEW t, NEW s, NEW l, NEW e, NEW a, Sound(t, s, l, e, a), t.canonical, e = <<>>
  PROVE  \E n, at, cur : Editing(t, l, a, n, at, cur)
  <1>1. t \in TTYs /\ l \in Lines /\ a \in Anchors /\ Holds(t, l, e)
    BY DEF Sound
  <1>2. ~t.newline
    BY <1>1, NotEnded
  <1>3. /\ t.final + 1 < BufSize /\ l.text = Read(t.buffer, t.final)
        /\ t.pos = l.cursor /\ t.pos <= t.final
    BY <1>1, <1>2 DEF Holds
  <1>4. t.final \in Nat /\ t.pos \in Nat
    BY <1>1, TTYFields, Widths
  <1>5. a.at \in Nat
    BY <1>1, CellNumbers DEF Anchors
  <1>6. Len(l.text) = t.final
    BY <1>3, <1>4, ReadIs
  <1> QED
    BY <1>2, <1>3, <1>4, <1>5, <1>6 DEF Editing, Stands

\* The states a key of a line may lead to.
Leads(t, s, l, e, a, t2, s2, l2, e2, a2) ==
  Sound(t2, s2, l2, e2, a2) /\ t2.canonical = t.canonical /\ t2.echo = t.echo

\* An edit that keeps the line in buffer and screen is sound.
LEMMA StillEditing ==
  ASSUME NEW t, NEW s, NEW l, NEW e, NEW a, Sound(t, s, l, e, a), t.canonical, e = <<>>,
         NEW t2 \in TTYs, NEW s2 \in Screens, NEW l2 \in Lines,
         t2.canonical = t.canonical, t2.echo = t.echo, t2.present = TRUE, ~t2.newline,
         t2.final + 1 < BufSize, l2.text = Read(t2.buffer, t2.final), t2.pos = l2.cursor,
         t2.pos <= t2.final, t.echo => Shown(s2, l2, a)
  PROVE  Leads(t, s, l, e, a, t2, s2, l2, e, a)
  <1>1. a \in Anchors
    BY DEF Sound
  <1>2. Holds(t2, l2, e)
    BY DEF Holds
  <1>3. Shows(s2, t2, l2, a)
    BY DEF Shows
  <1> QED
    BY <1>1, <1>2, <1>3 DEF Leads, Sound

\* A letter changes buffer, line and screen alike.
LEMMA LetterTyped ==
  ASSUME NEW t, NEW s, NEW l, NEW e, NEW a, Sound(t, s, l, e, a), t.canonical, e = <<>>,
         NEW g, NEW c \in Letters, RoomInRow(a, l), t.final + 2 < BufSize,
         NEW l2, l2 = [text |-> SubSeq(l.text, 1, l.cursor) \o <<c>> \o SubSeq(l.text, l.cursor + 1, Len(l.text)),
                       cursor |-> l.cursor + 1]
  PROVE  \E t2, s2 : /\ write_to_keyboard_buffer(State(t, s, g), c) = State(t2, s2, g)
                     /\ Leads(t, s, l, e, a, t2, s2, l2, e, a)
  <1>1. PICK n, at, cur : Editing(t, l, a, n, at, cur)
    BY LineEdited
  <1>2. /\ n \in Nat /\ n + 1 < BufSize /\ n = t.final /\ at \in Nat
        /\ cur \in Nat /\ cur <= n /\ cur = t.pos
        /\ ~t.newline /\ l.text = Read(t.buffer, n) /\ Stands(l, a, n, at, cur)
    BY <1>1 DEF Editing
  <1>3. n = Len(l.text) /\ cur = l.cursor
    BY <1>2 DEF Stands
  <1>4. t \in TTYs /\ s \in Screens /\ l \in Lines /\ a \in Anchors
    BY DEF Sound
  <1>5. t.buffer \in Buffers /\ t.esc = <<>> /\ c \in Marks
    BY <1>4, TTYFields DEF Letters, Marks
  <1>6. l.text \in Seq(Letters) /\ cur \in 0 .. n
    BY <1>2, <1>4, LineFields
  <1>7. PICK new : new = SubSeq(l.text, 1, cur) \o <<c>> \o SubSeq(l.text, cur + 1, n)
    OBVIOUS
  <1>8. IsWith(new, Letters, l.text, n, cur, c)
    BY <1>3, <1>6, <1>7, WithCharacter, Zenon
  <1>9. PICK b : b = insert_and_shift(t.buffer, c, cur, n + 1)
    OBVIOUS
  <1>10. PICK f, p : f = n + 1 /\ p = cur + 1
    OBVIOUS
  <1>11. /\ f \in 0 .. BufSize - 1 /\ p \in 0 .. BufSize /\ p \in Nat /\ p <= f /\ f + 1 < BufSize
         /\ f = t.final + 1 /\ p = t.pos + 1
    <2>1. n \in Nat /\ n + 2 < BufSize /\ cur \in Nat /\ cur <= n
      BY <1>2
    <2>2. /\ f \in 0 .. BufSize - 1 /\ p \in 0 .. BufSize /\ p \in Nat /\ p <= f /\ f + 1 < BufSize
      BY <1>10, <2>1, Widths
    <2>3. f = t.final + 1 /\ p = t.pos + 1
      BY <1>2, <1>10
    <2> QED
      BY <2>2, <2>3
  <1>12. b \in Buffers /\ new = Read(b, f) /\ new \in Seq(Letters)
    <2>1. IsText(b, Letters, new, f)
      BY <1>2, <1>5, <1>6, <1>7, <1>9, <1>10, InsertedText, Zenon
    <2> QED
      BY <2>1 DEF IsText
  <1>13. PICK t2 : t2 = MadePresent(Edit(t, b, f, p))
    OBVIOUS
  <1>14. PICK s2 : s2 = IF t.echo THEN monitor_tm_insert_byte(s, c) ELSE s
    OBVIOUS
  <1>15. write_to_keyboard_buffer(State(t, s, g), c) = State(t2, s2, g)
    <2>1. b = insert_and_shift(t.buffer, c, t.pos, t.final + 1)
      BY <1>2, <1>9
    <2> QED
      BY <1>5, <1>11, <1>13, <1>14, <2>1, LetterIs
  <1>16. /\ t2 \in TTYs /\ t2.buffer = b /\ t2.final = f /\ t2.pos = p /\ t2.present = TRUE
         /\ t2.newline = t.newline /\ t2.echo = t.echo /\ t2.canonical = t.canonical
    <2>1. ChangedTo(t2, t, b, f, p, t.newline)
      BY <1>4, <1>11, <1>13, <1>12, EditFields, Zenon
    <2> QED
      BY <2>1 DEF ChangedTo
  <1>17. l2.text = new /\ l2.cursor = p /\ l2 \in Lines
    <2>1. l2 = [text |-> new, cursor |-> p]
      BY <1>3, <1>7, <1>10
    <2>2. IsLine(l2, new, p)
      BY <1>11, <1>12, <2>1, LineIs, Zenon
    <2> QED
      BY <2>2 DEF IsLine
  <1>18. s2 \in Screens /\ (t.echo => Shown(s2, l2, a))
    <2>1. CASE t.echo
      <3>1. Shown(s, l, a)
        BY <2>1 DEF Sound, Shows
      <3>2. After(l2, cur + 1) /\ IsWith(l2.text, Letters, l.text, n, cur, c)
        BY <1>8, <1>10, <1>17 DEF After
      <3>3. s2 = monitor_tm_insert_byte(s, c)
        BY <1>14, <2>1
      <3> QED
        BY <1>2, <1>4, <1>17, <3>1, <3>2, <3>3, InsertShown
    <2>2. CASE ~t.echo
      BY <1>4, <1>14, <2>2
    <2> QED
      BY <2>1, <2>2
  <1>19. t2.final + 1 < BufSize /\ t2.pos <= t2.final /\ l2.text = Read(t2.buffer, t2.final)
    BY <1>11, <1>16, <1>17, <1>12
  <1>20. ~t2.newline /\ t2.pos = l2.cursor
    BY <1>2, <1>16, <1>17
  <1>21. Leads(t, s, l, e, a, t2, s2, l2, e, a)
    BY <1>16, <1>17, <1>18, <1>19, <1>20, StillEditing
  <1> QED
    BY <1>15, <1>21

\* A key that finds nothing to do.
LEMMA NothingTyped ==
  ASSUME NEW t, NEW s, NEW l, NEW e, NEW a, Sound(t, s, l, e, a), t.canonical, e = <<>>,
         NEW t2, t2 = MadePresent(t)
  PROVE  Leads(t, s, l, e, a, t2, s, l, e, a)
  <1>1. PICK n, at, cur : Editing(t, l, a, n, at, cur)
    BY LineEdited
  <1>2. /\ n + 1 < BufSize /\ n = t.final /\ cur <= n /\ cur = t.pos
        /\ ~t.newline /\ l.text = Read(t.buffer, n) /\ cur = l.cursor
    BY <1>1 DEF Editing, Stands
  <1>3. t \in TTYs /\ s \in Screens /\ l \in Lines
    BY DEF Sound
  <1>4. /\ t2 \in TTYs /\ t2.buffer = t.buffer /\ t2.final = t.final /\ t2.pos = t.pos
        /\ t2.present = TRUE /\ t2.newline = t.newline /\ t2.echo = t.echo /\ t2.canonical = t.canonical
    BY <1>3, PresentFields DEF ChangedTo
  <1>5. t.echo => Shown(s, l, a)
    BY DEF Sound, Shows
  <1> QED
    BY <1>2, <1>3, <1>4, <1>5, StillEditing

\* So does a backspace.
LEMMA BackspaceTyped ==
  ASSUME NEW t, NEW s, NEW l, NEW e, NEW a, Sound(t, s, l, e, a), t.canonical, e = <<>>,
         NEW g, l.cursor > 0,
         NEW l2, l2 = [text |-> SubSeq(l.text, 1, l.cursor - 1) \o SubSeq(l.text, l.cursor + 1, Len(l.text)),
                       cursor |-> l.cursor - 1]
  PROVE  \E t2, s2 : /\ write_to_keyboard_buffer(State(t, s, g), "bs") = State(t2, s2, g)
                     /\ Leads(t, s, l, e, a, t2, s2, l2, e, a)
  <1>1. PICK n, at, cur : Editing(t, l, a, n, at, cur)
    BY LineEdited
  <1>2. /\ n \in Nat /\ n + 1 < BufSize /\ n = t.final /\ at \in Nat
        /\ cur \in Nat /\ cur <= n /\ cur = t.pos
        /\ ~t.newline /\ l.text = Read(t.buffer, n) /\ Stands(l, a, n, at, cur)
    BY <1>1 DEF Editing
  <1>3. n = Len(l.text) /\ cur = l.cursor /\ cur > 0
    BY <1>2 DEF Stands
  <1>4. t \in TTYs /\ s \in Screens /\ l \in Lines /\ a \in Anchors
    BY DEF Sound
  <1>5. t.buffer \in Buffers /\ t.esc = <<>>
    BY <1>4, TTYFields
  <1>6. l.text \in Seq(Letters) /\ cur \in 1 .. n
    BY <1>2, <1>3, <1>4, LineFields
  <1>7. PICK new : new = SubSeq(l.text, 1, cur - 1) \o SubSeq(l.text, cur + 1, n)
    OBVIOUS
  <1>8. IsWithout(new, Letters, l.text, n, cur)
    BY <1>3, <1>6, <1>7, WithoutCharacter, Zenon
  <1>9. PICK b : b = delete_and_shift(t.buffer, cur - 1, n - 1)
    OBVIOUS
  <1>10. PICK f, p : f = n - 1 /\ p = cur - 1
    OBVIOUS
  <1>11. /\ f \in 0 .. BufSize - 1 /\ p \in 0 .. BufSize /\ p \in Nat /\ p <= f /\ f + 1 < BufSize
         /\ f = t.final - 1 /\ p = t.pos - 1 /\ t.pos # 0
    <2>1. n \in Nat /\ n + 1 < BufSize /\ cur \in Nat /\ cur <= n /\ cur > 0
      BY <1>2, <1>3
    <2>2. f \in 0 .. BufSize - 1 /\ p \in 0 .. BufSize /\ p \in Nat /\ p <= f /\ f + 1 < BufSize
      BY <1>10, <2>1, Widths
    <2>3. f = t.final - 1 /\ p = t.pos - 1 /\ t.pos # 0
      BY <1>2, <1>10, <2>1
    <2> QED
      BY <2>2, <2>3
  <1>12. b \in Buffers /\ new = Read(b, f) /\ new \in Seq(Letters)
    <2>1. IsText(b, Letters, new, f)
      BY <1>2, <1>5, <1>6, <1>7, <1>9, <1>10, ErasedText, Zenon
    <2> QED
      BY <2>1 DEF IsText
  <1>13. PICK t2 : t2 = MadePresent(Edit(t, b, f, p))
    OBVIOUS
  <1>14. PICK s2 : s2 = IF t.echo THEN monitor_tm_write_byte(s, "bs") ELSE s
    OBVIOUS
  <1>15. write_to_keyboard_buffer(State(t, s, g), "bs") = State(t2, s2, g)
    <2>1. b = delete_and_shift(t.buffer, t.pos - 1, t.final - 1)
      BY <1>2, <1>9
    <2> QED
      BY <1>5, <1>11, <1>13, <1>14, <2>1, BackspaceIs
  <1>16. /\ t2 \in TTYs /\ t2.buffer = b /\ t2.final = f /\ t2.pos = p /\ t2.present = TRUE
         /\ t2.newline = t.newline /\ t2.echo = t.echo /\ t2.canonical = t.canonical
    <2>1. ChangedTo(t2, t, b, f, p, t.newline)
      BY <1>4, <1>11, <1>12, <1>13, EditFields, Zenon
    <2> QED
      BY <2>1 DEF ChangedTo
  <1>17. l2.text = new /\ l2.cursor = p /\ l2 \in Lines
    <2>1. l2 = [text |-> new, cursor |-> p]
      BY <1>3, <1>7, <1>10
    <2>2. IsLine(l2, new, p)
      BY <1>11, <1>12, <2>1, LineIs, Zenon
    <2> QED
      BY <2>2 DEF IsLine
  <1>18. s2 \in Screens /\ (t.echo => Shown(s2, l2, a))
    <2>1. CASE t.echo
      <3>1. Shown(s, l, a)
        BY <2>1 DEF Sound, Shows
      <3>2. After(l2, cur - 1) /\ IsWithout(l2.text, Letters, l.text, n, cur)
        BY <1>8, <1>10, <1>17 DEF After
      <3>3. s2 = monitor_tm_write_byte(s, "bs")
        BY <1>14, <2>1
      <3> QED
        BY <1>2, <1>3, <1>4, <1>17, <3>1, <3>2, <3>3, EraseShown
    <2>2. CASE ~t.echo
      BY <1>4, <1>14, <2>2
    <2> QED
      BY <2>1, <2>2
  <1>19. t2.final + 1 < BufSize /\ t2.pos <= t2.final /\ l2.text = Read(t2.buffer, t2.final)
    BY <1>11, <1>12, <1>16, <1>17
  <1>20. ~t2.newline /\ t2.pos = l2.cursor
    BY <1>2, <1>16, <1>17
  <1>21. Leads(t, s, l, e, a, t2, s2, l2, e, a)
    BY <1>16, <1>17, <1>18, <1>19, <1>20, StillEditing
  <1> QED
    BY <1>15, <1>21

\* The cursor goes to place p of the line; sh is the screen where it is shown.
LEMMA ArrowTyped ==
  ASSUME NEW t, NEW s, NEW l, NEW e, NEW a, Sound(t, s, l, e, a), t.canonical, e = <<>>,
         NEW p \in Nat, p <= t.final, NEW l2 \in Lines, l2.text = l.text, l2.cursor = p,
         NEW t2, t2 = MadePresent(PosAt(t, p)),
         NEW s2 \in Screens, t.echo => Shown(s2, l2, a)
  PROVE  Leads(t, s, l, e, a, t2, s2, l2, e, a)
  <1>1. PICK n, at, cur : Editing(t, l, a, n, at, cur)
    BY LineEdited
  <1>2. n \in Nat /\ n + 1 < BufSize /\ n = t.final /\ ~t.newline /\ l.text = Read(t.buffer, n)
    BY <1>1 DEF Editing
  <1>3. t \in TTYs /\ p \in 0 .. BufSize
    BY <1>2, Widths DEF Sound
  <1>4. /\ t2 \in TTYs /\ t2.buffer = t.buffer /\ t2.final = t.final /\ t2.pos = p
        /\ t2.present = TRUE /\ t2.newline = t.newline /\ t2.echo = t.echo /\ t2.canonical = t.canonical
    <2>1. ChangedTo(t2, t, t.buffer, t.final, p, t.newline)
      BY <1>3, PosFields, Zenon
    <2> QED
      BY <2>1 DEF ChangedTo
  <1> QED
    BY <1>2, <1>4, StillEditing

\* So does the left arrow.
LEMMA LeftTyped ==
  ASSUME NEW t, NEW s, NEW l, NEW e, NEW a, Sound(t, s, l, e, a), t.canonical, e = <<>>,
         NEW g, l.cursor > 0, NEW l2, l2 = [l EXCEPT !.cursor = l.cursor - 1]
  PROVE  \E t2, s2 : /\ Present(handle_ansi_escape_sequence(State(t, s, g), "D")) = State(t2, s2, g)
                     /\ Leads(t, s, l, e, a, t2, s2, l2, e, a)
  <1>1. PICK n, at, cur : Editing(t, l, a, n, at, cur)
    BY LineEdited
  <1>2. /\ n \in Nat /\ n = t.final /\ at \in Nat /\ cur \in Nat /\ cur <= n /\ cur = t.pos
        /\ Stands(l, a, n, at, cur)
    BY <1>1 DEF Editing
  <1>3. cur = l.cursor /\ cur > 0
    BY <1>2 DEF Stands
  <1>4. t \in TTYs /\ s \in Screens /\ l \in Lines /\ a \in Anchors
    BY DEF Sound
  <1>5. PICK p : p = cur - 1 /\ p \in Nat /\ p <= t.final
    BY <1>2, <1>3
  <1>6. l2 = [l EXCEPT !.cursor = p] /\ l2 = [l EXCEPT !.cursor = cur - 1]
    BY <1>3, <1>5
  <1>7. l2 \in Lines /\ l2.text = l.text /\ l2.cursor = p
    BY <1>4, <1>5, <1>6 DEF Lines
  <1>8. PICK t2 : t2 = MadePresent(PosAt(t, p))
    OBVIOUS
  <1>9. PICK s2 : s2 = IF t.echo THEN handle_escape_sequence(s, Sequence("D", None, None)) ELSE s
    OBVIOUS
  <1>10. Present(handle_ansi_escape_sequence(State(t, s, g), "D")) = State(t2, s2, g)
    <2>1. t.pos > 0 /\ p = t.pos - 1
      BY <1>2, <1>3, <1>5
    <2> QED
      BY <1>8, <1>9, <2>1, LeftIs
  <1>11. s2 \in Screens /\ (t.echo => Shown(s2, l2, a))
    <2>1. CASE t.echo
      <3>1. Shown(s, l, a)
        BY <2>1 DEF Sound, Shows
      <3>2. s2 = handle_escape_sequence(s, Sequence("D", None, None))
        BY <1>9, <2>1
      <3> QED
        BY <1>2, <1>3, <1>4, <1>6, <3>1, <3>2, LeftShown
    <2>2. CASE ~t.echo
      BY <1>4, <1>9, <2>2
    <2> QED
      BY <2>1, <2>2
  <1>12. Leads(t, s, l, e, a, t2, s2, l2, e, a)
    BY <1>5, <1>7, <1>8, <1>11, ArrowTyped
  <1> QED
    BY <1>10, <1>12

\* So does the right arrow.
LEMMA RightTyped ==
  ASSUME NEW t, NEW s, NEW l, NEW e, NEW a, Sound(t, s, l, e, a), t.canonical, e = <<>>,
         NEW g, l.cursor < Len(l.text), NEW l2, l2 = [l EXCEPT !.cursor = l.cursor + 1]
  PROVE  \E t2, s2 : /\ Present(handle_ansi_escape_sequence(State(t, s, g), "C")) = State(t2, s2, g)
                     /\ Leads(t, s, l, e, a, t2, s2, l2, e, a)
  <1>1. PICK n, at, cur : Editing(t, l, a, n, at, cur)
    BY LineEdited
  <1>2. /\ n \in Nat /\ n = t.final /\ at \in Nat /\ cur \in Nat /\ cur = t.pos
        /\ Stands(l, a, n, at, cur)
    BY <1>1 DEF Editing
  <1>3. cur = l.cursor /\ cur < n
    BY <1>2 DEF Stands
  <1>4. t \in TTYs /\ s \in Screens /\ l \in Lines /\ a \in Anchors
    BY DEF Sound
  <1>5. PICK p : p = cur + 1 /\ p \in Nat /\ p <= t.final
    BY <1>2, <1>3
  <1>6. l2 = [l EXCEPT !.cursor = p] /\ l2 = [l EXCEPT !.cursor = cur + 1]
    BY <1>3, <1>5
  <1>7. l2 \in Lines /\ l2.text = l.text /\ l2.cursor = p
    BY <1>4, <1>5, <1>6 DEF Lines
  <1>8. PICK t2 : t2 = MadePresent(PosAt(t, p))
    OBVIOUS
  <1>9. PICK s2 : s2 = IF t.echo THEN handle_escape_sequence(s, Sequence("C", None, None)) ELSE s
    OBVIOUS
  <1>10. Present(handle_ansi_escape_sequence(State(t, s, g), "C")) = State(t2, s2, g)
    <2>1. t.pos < t.final /\ p = t.pos + 1
      BY <1>2, <1>3, <1>5
    <2> QED
      BY <1>8, <1>9, <2>1, RightIs
  <1>11. s2 \in Screens /\ (t.echo => Shown(s2, l2, a))
    <2>1. CASE t.echo
      <3>1. Shown(s, l, a)
        BY <2>1 DEF Sound, Shows
      <3>2. s2 = handle_escape_sequence(s, Sequence("C", None, None))
        BY <1>9, <2>1
      <3> QED
        BY <1>2, <1>3, <1>4, <1>6, <3>1, <3>2, RightShown
    <2>2. CASE ~t.echo
      BY <1>4, <1>9, <2>2
    <2> QED
      BY <2>1, <2>2
  <1>12. Leads(t, s, l, e, a, t2, s2, l2, e, a)
    BY <1>5, <1>7, <1>8, <1>11, ArrowTyped
  <1> QED
    BY <1>10, <1>12

\* Enter hands the line over.
LEMMA EnterTyped ==
  ASSUME NEW t, NEW s, NEW l, NEW e, NEW a, Sound(t, s, l, e, a), t.canonical, e = <<>>,
         NEW g, a.at + Len(l.text) # Last, NEW e2, e2 = Append(l.text, ENDL)
  PROVE  \E t2, s2 : /\ write_to_keyboard_buffer(State(t, s, g), ENDL) = State(t2, s2, g)
                     /\ Leads(t, s, l, e, a, t2, s2, NoLine, e2, Anchor(s2))
  <1>1. PICK n, at, cur : Editing(t, l, a, n, at, cur)
    BY LineEdited
  <1>2. /\ n \in Nat /\ n + 1 < BufSize /\ n = t.final /\ at \in Nat
        /\ cur \in Nat /\ cur <= n /\ cur = t.pos
        /\ l.text = Read(t.buffer, n) /\ Stands(l, a, n, at, cur)
    BY <1>1 DEF Editing
  <1>3. at + n # Last
    BY <1>2 DEF Stands
  <1>4. t \in TTYs /\ s \in Screens /\ l \in Lines /\ a \in Anchors
    BY DEF Sound
  <1>5. t.buffer \in Buffers /\ t.esc = <<>>
    BY <1>4, TTYFields
  <1>6. PICK b : /\ b = [m \in DOMAIN t.buffer |-> IF m = t.final THEN ENDL ELSE t.buffer[m]]
                 /\ write_to_keyboard_buffer(State(t, s, g), ENDL) =
                      State(MadePresent(Ended(t, b, t.final + 1, t.final + 2)),
                            IF t.echo THEN monitor_tm_write_byte(MovedRight(s, t.final - t.pos + 1), ENDL) ELSE s,
                            g)
    <2>1. t.final \in Nat /\ t.pos \in 0 .. t.final
      BY <1>2
    <2> QED
      BY <1>5, <2>1, NewlineIs
  <1>7. PICK f, p : f = n + 1 /\ p = n + 2
    OBVIOUS
  <1>8. f \in 0 .. BufSize - 1 /\ p \in 0 .. BufSize /\ f # 0
    <2>1. n \in Nat /\ n + 1 < BufSize
      BY <1>2
    <2> QED
      BY <1>7, <2>1, Widths
  <1>9. PICK t2 : t2 = MadePresent(Ended(t, b, f, p))
    OBVIOUS
  <1>10. PICK s2 : s2 = IF t.echo THEN monitor_tm_write_byte(MovedRight(s, n - cur + 1), ENDL) ELSE s
    OBVIOUS
  <1>11. write_to_keyboard_buffer(State(t, s, g), ENDL) = State(t2, s2, g)
    <2>1. f = t.final + 1 /\ p = t.final + 2 /\ n = t.final /\ cur = t.pos
      BY <1>2, <1>7
    <2> QED
      BY <1>6, <1>9, <1>10, <2>1
  <1>12. b \in Buffers /\ e2 = Read(b, f)
    <2>1. l.text \in Seq(Letters \cup {ENDL})
      <3>1. l.text \in Seq(Letters)
        BY <1>4, LineFields
      <3> QED
        BY <3>1
    <2>2. ENDL \in Letters \cup {ENDL}
      OBVIOUS
    <2>3. b = [m \in DOMAIN t.buffer |-> IF m = n THEN ENDL ELSE t.buffer[m]]
      BY <1>2, <1>6
    <2>4. IsText(b, Letters \cup {ENDL}, e2, f)
      BY <1>2, <1>5, <1>7, <2>1, <2>2, <2>3, EndedText, Zenon
    <2> QED
      BY <2>4 DEF IsText
  <1>13. /\ t2 \in TTYs /\ t2.buffer = b /\ t2.final = f /\ t2.present = TRUE
         /\ t2.newline = TRUE /\ t2.echo = t.echo /\ t2.canonical = t.canonical
    <2>1. ChangedTo(t2, t, b, f, p, TRUE)
      BY <1>4, <1>8, <1>9, <1>12, EndFields, Zenon
    <2> QED
      BY <2>1 DEF ChangedTo
  <1>14. s2 \in Screens
    <2>1. CASE t.echo
      <3>1. Shown(s, l, a)
        BY <2>1 DEF Sound, Shows
      <3>2. s2 = monitor_tm_write_byte(MovedRight(s, n - cur + 1), ENDL)
        BY <1>10, <2>1
      <3> QED
        BY <1>2, <1>3, <1>4, <3>1, <3>2, EnterShown
    <2>2. CASE ~t.echo
      BY <1>4, <1>10, <2>2
    <2> QED
      BY <2>1, <2>2
  <1>15. Anchor(s2) \in Anchors /\ NoLine \in Lines
    BY <1>14, AnchorIs, NoLineIs
  <1>16. Holds(t2, NoLine, e2)
    BY <1>8, <1>12, <1>13 DEF Holds
  <1>17. Shows(s2, t2, NoLine, Anchor(s2))
    BY <1>14, NothingShown DEF Shows
  <1>18. Leads(t, s, l, e, a, t2, s2, NoLine, e2, Anchor(s2))
    BY <1>13, <1>14, <1>15, <1>16, <1>17 DEF Leads, Sound
  <1> QED
    BY <1>11, <1>18

\* A line without text is the empty one.
LEMMA NoLineEdited ==
  ASSUME NEW l \in Lines, l.text = <<>>, l.cursor = 0
  PROVE  l = NoLine
  BY DEF Lines, NoLine

\* No character of the line was typed.
LEMMA EmptyLine ==
  ASSUME NEW t, NEW s, NEW l, NEW e, NEW a, Sound(t, s, l, e, a), l.text = <<>>
  PROVE  l = NoLine
  <1>1. t \in TTYs /\ l \in Lines /\ Holds(t, l, e)
    BY DEF Sound
  <1>2. CASE t.canonical /\ ~t.newline
    <2>1. l.text = Read(t.buffer, t.final) /\ t.pos = l.cursor /\ t.pos <= t.final
      BY <1>1, <1>2 DEF Holds
    <2>2. t.final \in Nat /\ t.pos \in Nat
      BY <1>1, TTYFields, Widths
    <2>3. Len(l.text) = t.final /\ Len(l.text) = 0
      BY <2>1, <2>2, ReadIs
    <2> QED
      BY <1>1, <2>1, <2>2, <2>3, NoLineEdited
  <1> QED
    BY <1>1, <1>2 DEF Holds

\* Ctrl-C on an empty line leaves it empty.
LEMMA InterruptTyped ==
  ASSUME NEW t, NEW s, NEW l, NEW e, NEW a, Sound(t, s, l, e, a), t.canonical, e = <<>>,
         NEW g, l.text = <<>>
  PROVE  \E t2, s2 : /\ write_to_keyboard_buffer(State(t, s, g), "etx") = State(t2, s2, TRUE)
                     /\ Leads(t, s, l, e, a, t2, s2, l, e, Anchor(s2))
  <1>1. l = NoLine
    BY EmptyLine
  <1>2. t \in TTYs /\ s \in Screens /\ l \in Lines
    BY DEF Sound
  <1>3. PICK t2 : t2 = MadePresent(t)
    OBVIOUS
  <1>4. PICK s2 : s2 = IF t.echo THEN monitor_tm_write_byte(monitor_tm_write_byte(s, "^"), "C") ELSE s
    OBVIOUS
  <1>5. write_to_keyboard_buffer(State(t, s, g), "etx") = State(t2, s2, TRUE)
    BY <1>2, <1>3, <1>4, EtxIs, TTYFields
  <1>6. s2 \in Screens
    <2>1. "^" \in Glyphs \cup {"bs", "cr"} /\ "C" \in Glyphs \cup {"bs", "cr"}
      BY DEF Glyphs
    <2>2. PICK u : u = monitor_tm_write_byte(s, "^")
      OBVIOUS
    <2>3. u \in Screens
      BY <1>2, <2>1, <2>2, ByteStays
    <2>4. monitor_tm_write_byte(u, "C") \in Screens
      BY <2>1, <2>3, ByteStays
    <2> QED
      BY <1>2, <1>4, <2>2, <2>4
  <1>7. Leads(t, s, l, e, a, t2, s, l, e, a)
    BY <1>3, NothingTyped
  <1>8. /\ t2 \in TTYs /\ Holds(t2, l, e) /\ t2.canonical = t.canonical /\ t2.echo = t.echo
        /\ t2.present = TRUE
    BY <1>2, <1>3, <1>7, PresentFields DEF Leads, Sound, ChangedTo
  <1>9. Anchor(s2) \in Anchors
    BY <1>6, AnchorIs
  <1>10. Shows(s2, t2, l, Anchor(s2))
    BY <1>1, <1>6, NothingShown DEF Shows
  <1>11. Leads(t, s, l, e, a, t2, s2, l, e, Anchor(s2))
    BY <1>2, <1>6, <1>8, <1>9, <1>10 DEF Leads, Sound
  <1> QED
    BY <1>5, <1>11

\* Without the line editor, the first character can be read at once.
LEMMA RawTyped ==
  ASSUME NEW t, NEW s, NEW l, NEW e, NEW a, Sound(t, s, l, e, a), ~t.canonical, e = <<>>,
         NEW g, NEW c \in Letters \cup {"bs", "esc"}, NEW e2, e2 = <<c>>
  PROVE  \E t2, s2 : /\ write_to_keyboard_buffer(State(t, s, g), c) = State(t2, s2, g)
                     /\ Leads(t, s, l, e, a, t2, s2, NoLine, e2, Anchor(s2))
  <1>1. t \in TTYs /\ s \in Screens /\ Holds(t, l, e)
    BY DEF Sound
  <1>2. ~t.present /\ ~t.newline /\ t.final = 0 /\ t.pos = 0
    BY <1>1, NotEnded DEF Holds
  <1>3. t.buffer \in Buffers /\ t.esc = <<>>
    BY <1>1, TTYFields
  <1>4. PICK b : b = insert_and_shift(t.buffer, c, t.pos, t.final + 1)
    OBVIOUS
  <1>5. b \in Buffers /\ e2 = Read(b, 1)
    <2>1. t.buffer \in [0 .. BufSize - 1 -> Marks] /\ c \in Marks
      BY <1>3 DEF Buffers, Letters, Marks
    <2>2. b = [m \in 0 .. BufSize - 1 |->
                 IF m = 0 THEN c ELSE IF m \in 0 + 1 .. 0 + 1 - 1 THEN t.buffer[m - 1] ELSE t.buffer[m]]
      BY <1>2, <1>4, <2>1 DEF insert_and_shift
    <2>3. b = [m \in 0 .. BufSize - 1 |-> IF m = 0 THEN c ELSE t.buffer[m]]
      BY <2>2
    <2>4. b[0] = c
      BY <2>3, Widths
    <2>5. Read(b, 1) = [k \in 1 .. 1 |-> c]
      BY <2>4 DEF Read
    <2>6. Read(b, 1) = <<c>>
      BY <2>5
    <2> QED
      BY <2>1, <2>3, <2>6 DEF Buffers
  <1>6. PICK t2 : t2 = MadePresent(Edit(t, b, t.final + 1, t.pos + 1))
    OBVIOUS
  <1>7. /\ t2 \in TTYs /\ t2.buffer = b /\ t2.final = 1 /\ t2.pos = 1 /\ t2.present = TRUE
        /\ t2.newline = t.newline /\ t2.echo = t.echo /\ t2.canonical = t.canonical
    <2>1. 1 \in 0 .. BufSize - 1 /\ 1 \in 0 .. BufSize /\ t.final + 1 = 1 /\ t.pos + 1 = 1
      BY <1>2, Widths
    <2>2. t2 = MadePresent(Edit(t, b, 1, 1))
      BY <1>6, <2>1
    <2>3. ChangedTo(t2, t, b, 1, 1, t.newline)
      BY <1>1, <1>5, <2>1, <2>2, EditFields, Zenon
    <2> QED
      BY <2>3 DEF ChangedTo
  <1>8. PICK s2 : s2 = IF c \in Letters /\ t.echo THEN monitor_tm_insert_byte(s, c) ELSE s
    OBVIOUS
  <1>9. write_to_keyboard_buffer(State(t, s, g), c) = State(t2, s2, g)
    <2>1. CASE c \in Letters
      BY <1>3, <1>4, <1>6, <1>8, <2>1, LetterIs
    <2>2. CASE c \notin Letters
      <3>1. c \in {"bs", "esc"}
        BY <2>2
      <3>2. s2 = s
        BY <1>8, <2>2
      <3> QED
        BY <1>2, <1>3, <1>4, <1>6, <3>1, <3>2, RawIs
    <2> QED
      BY <2>1, <2>2
  <1>10. s2 \in Screens
    BY <1>1, <1>8, ByteInserted
  <1>11. Anchor(s2) \in Anchors /\ NoLine \in Lines
    BY <1>10, AnchorIs, NoLineIs
  <1>12. Holds(t2, NoLine, e2)
    BY <1>2, <1>5, <1>7 DEF Holds
  <1>13. Shows(s2, t2, NoLine, Anchor(s2))
    BY <1>7 DEF Shows
  <1>14. Leads(t, s, l, e, a, t2, s2, NoLine, e2, Anchor(s2))
    BY <1>7, <1>10, <1>11, <1>12, <1>13 DEF Leads, Sound
  <1> QED
    BY <1>9, <1>14

-----------------------------------------------------------------------------
(* Scan codes                                                              *)

\* Bytes of a scan code, joined.
LEMMA Glued ==
  ASSUME NEW a, NEW b, NEW c, NEW d
  PROVE  /\ <<a>> \o <<b, c>> = <<a, b, c>>
         /\ <<a>> \o <<b, c, d>> = <<a, b, c, d>>
  <1>1. PICK S : S = {a, b, c, d}
    OBVIOUS
  <1>2. a \in S /\ b \in S /\ c \in S /\ d \in S
    BY <1>1
  <1>3. <<a>> \o <<b, c>> = <<a, b, c>>
    <2>1. PICK u, v : u = <<a>> \o <<b, c>> /\ v = <<a, b, c>>
      OBVIOUS
    <2>2. u \in Seq(S) /\ Len(u) = 3 /\ u[1] = a /\ u[2] = b /\ u[3] = c
      BY <1>2, <2>1
    <2>3. v \in Seq(S) /\ Len(v) = 3 /\ v[1] = a /\ v[2] = b /\ v[3] = c
      BY <1>2, <2>1
    <2>4. u = v
      BY <2>2, <2>3
    <2> QED
      BY <2>1, <2>4
  <1>4. <<a>> \o <<b, c, d>> = <<a, b, c, d>>
    <2>1. PICK u, v : u = <<a>> \o <<b, c, d>> /\ v = <<a, b, c, d>>
      OBVIOUS
    <2>2. u \in Seq(S) /\ Len(u) = 4 /\ u[1] = a /\ u[2] = b /\ u[3] = c /\ u[4] = d
      BY <1>2, <2>1
    <2>3. v \in Seq(S) /\ Len(v) = 4 /\ v[1] = a /\ v[2] = b /\ v[3] = c /\ v[4] = d
      BY <1>2, <2>1
    <2>4. u = v
      BY <2>2, <2>3
    <2> QED
      BY <2>1, <2>4
  <1> QED
    BY <1>3, <1>4

\* The same for five.
LEMMA GluedToFive ==
  ASSUME NEW a, NEW b, NEW c, NEW d, NEW e
  PROVE  <<a, b>> \o <<c, d, e>> = <<a, b, c, d, e>>
  <1>1. PICK S : S = {a, b, c, d, e}
    OBVIOUS
  <1>2. a \in S /\ b \in S /\ c \in S /\ d \in S /\ e \in S
    BY <1>1
  <1>3. PICK u, v : u = <<a, b>> \o <<c, d, e>> /\ v = <<a, b, c, d, e>>
    OBVIOUS
  <1>4. u \in Seq(S) /\ Len(u) = 5 /\ u[1] = a /\ u[2] = b /\ u[3] = c /\ u[4] = d /\ u[5] = e
    BY <1>2, <1>3
  <1>5. v \in Seq(S) /\ Len(v) = 5 /\ v[1] = a /\ v[2] = b /\ v[3] = c /\ v[4] = d /\ v[5] = e
    BY <1>2, <1>3
  <1>6. u = v
    BY <1>4, <1>5
  <1> QED
    BY <1>3, <1>6

\* The code of a key is one byte, or two.
OneByte(key, b) == KeyCode[key] = <<b>>
TwoBytes(key, b) == KeyCode[key] = <<"E0", b>>

\* The release code of a key of one byte,
LEMMA ReleaseOfOne ==
  ASSUME NEW key, NEW b, OneByte(key, b)
  PROVE  ReleaseCode(key) = <<"F0", b>> /\ KeyCode[key][Len(KeyCode[key])] = b /\ Len(KeyCode[key]) = 1
  <1>1. PICK k : k = KeyCode[key] /\ k = <<b>>
    BY DEF OneByte
  <1>2. Len(k) = 1 /\ k[Len(k)] = b
    BY <1>1
  <1>3. SubSeq(k, 1, Len(k) - 1) = <<>>
    <2>1. Len(k) - 1 = 0 /\ 1 \in Int /\ 0 \in Int /\ 0 < 1
      BY <1>2
    <2>2. SubSeq(k, 1, 0) = <<>>
      BY <2>1, SubSeqEmpty
    <2> QED
      BY <2>1, <2>2
  <1>4. PICK r, S : r = <<"F0", b>> /\ S = {"F0", b} /\ r \in Seq(S)
    <2>1. PICK S : S = {"F0", b}
      OBVIOUS
    <2>2. "F0" \in S /\ b \in S
      BY <2>1
    <2>3. <<"F0", b>> \in Seq(S)
      BY <2>2
    <2> QED
      BY <2>1, <2>3
  <1>5. <<>> \o r = r
    BY <1>4, ConcatEmptySeq
  <1>6. ReleaseCode(key) = SubSeq(k, 1, Len(k) - 1) \o r
    BY <1>1, <1>2, <1>4 DEF ReleaseCode
  <1> QED
    BY <1>1, <1>2, <1>3, <1>4, <1>5, <1>6

\* and of two.
LEMMA ReleaseOfTwo ==
  ASSUME NEW key, NEW b, TwoBytes(key, b)
  PROVE  /\ ReleaseCode(key) = <<"E0", "F0", b>> /\ KeyCode[key][Len(KeyCode[key])] = b
         /\ Len(KeyCode[key]) = 2
  <1>1. PICK k : k = KeyCode[key] /\ k = <<"E0", b>>
    BY DEF TwoBytes
  <1>2. Len(k) = 2 /\ k[Len(k)] = b /\ k[1] = "E0"
    BY <1>1
  <1>3. SubSeq(k, 1, Len(k) - 1) = <<"E0">>
    <2>1. Len(k) - 1 = 1
      BY <1>2
    <2>2. PICK u : u = SubSeq(k, 1, 1)
      OBVIOUS
    <2>3. 1 \in Int /\ \A i \in 1 .. 1 : k[i] \in {"E0"}
      BY <1>2
    <2>4. u \in Seq({"E0"}) /\ Len(u) = 1
      BY <2>2, <2>3, SubSeqProperties
    <2>5. u[1] = "E0"
      BY <2>4, ElementOfSeq
    <2>6. u = <<"E0">>
      BY <2>4, <2>5
    <2> QED
      BY <2>1, <2>2, <2>6
  <1>4. PICK r : r = <<"F0", b>>
    OBVIOUS
  <1>5. ReleaseCode(key) = SubSeq(k, 1, Len(k) - 1) \o r
    BY <1>1, <1>2, <1>4 DEF ReleaseCode
  <1>6. <<"E0">> \o <<"F0", b>> = <<"E0", "F0", b>>
    BY Glued
  <1> QED
    BY <1>1, <1>2, <1>3, <1>4, <1>5, <1>6

\* The codes of the keys.
LEMMA Codes ==
  /\ OneByte("c", "21") /\ OneByte("enter", "5A") /\ OneByte("bksp", "66") /\ OneByte("esc", "76")
  /\ OneByte("lshift", "12") /\ OneByte("rshift", "59") /\ OneByte("ctrl", "14") /\ OneByte("caps", "58")
  /\ TwoBytes("left", "6B") /\ TwoBytes("right", "74") /\ TwoBytes("rctrl", "14")
  BY DEF OneByte, TwoBytes, KeyCode

\* The keys.
LEMMA KeyNames ==
  /\ DOMAIN KeyCode = {"c", "enter", "bksp", "esc", "left", "right", "lshift", "rshift", "ctrl", "rctrl", "caps"}
  /\ Modifiers = {"lshift", "rshift", "ctrl", "rctrl"}
  <1>1. DOMAIN KeyCode = {"c", "enter", "bksp", "esc", "left", "right", "lshift", "rshift", "ctrl", "rctrl", "caps"}
    BY DEF KeyCode
  <1>2. Modifiers = {"lshift", "rshift", "ctrl", "rctrl"}
    BY DEF Modifiers, Pairs
  <1> QED
    BY <1>1, <1>2

\* The flags of the modifiers that are held.
LEMMA FlagsAre ==
  ASSUME NEW h, NEW f, f = FlagsOf(h)
  PROVE  /\ f \subseteq {"shift", "ctrl", "caps"}
         /\ "shift" \in f <=> ("lshift" \in h \/ "rshift" \in h)
         /\ "ctrl" \in f <=> ("ctrl" \in h \/ "rctrl" \in h)
         /\ "caps" \in f <=> "caps" \in h
         /\ "release" \notin f /\ "escape" \notin f
  BY DEF FlagsOf

\* And the other way round.
LEMMA FlagsFrom ==
  ASSUME NEW h, NEW f \in SUBSET {"shift", "ctrl", "caps"},
         "shift" \in f <=> ("lshift" \in h \/ "rshift" \in h),
         "ctrl" \in f <=> ("ctrl" \in h \/ "rctrl" \in h),
         "caps" \in f <=> "caps" \in h
  PROVE  f = FlagsOf(h)
  <1>1. PICK g : g = FlagsOf(h)
    OBVIOUS
  <1>2. /\ g \subseteq {"shift", "ctrl", "caps"}
        /\ "shift" \in g <=> ("lshift" \in h \/ "rshift" \in h)
        /\ "ctrl" \in g <=> ("ctrl" \in h \/ "rctrl" \in h)
        /\ "caps" \in g <=> "caps" \in h
    BY <1>1, FlagsAre
  <1>3. \A x : x \in f <=> x \in g
    BY <1>2
  <1> QED
    BY <1>1, <1>3

\* The bytes that only announce others.
LEMMA Announced ==
  ASSUME NEW f \in SUBSET {"shift", "ctrl", "caps"}, NEW g
  PROVE  /\ flags = f /\ g = decoded("F0") => g.flags = f \cup {"release"} /\ g.chars = <<>>
         /\ flags = f /\ g = decoded("E0") => g.flags = f \cup {"escape"} /\ g.chars = <<>>
         /\ flags = f \cup {"escape"} /\ g = decoded("F0") => g.flags = f \cup {"release"} /\ g.chars = <<>>
  <1>1. "release" \notin f /\ "escape" \notin f
    OBVIOUS
  <1>2. ASSUME flags = f, g = decoded("F0")
        PROVE  g.flags = f \cup {"release"} /\ g.chars = <<>>
    BY <1>1, <1>2 DEF decoded, read_key, Quiet
  <1>3. ASSUME flags = f, g = decoded("E0")
        PROVE  g.flags = f \cup {"escape"} /\ g.chars = <<>>
    BY <1>1, <1>3 DEF decoded, read_key, Quiet
  <1>4. ASSUME flags = f \cup {"escape"}, g = decoded("F0")
        PROVE  g.flags = f \cup {"release"} /\ g.chars = <<>>
    <2>1. "release" \notin flags /\ "escape" \in flags /\ flags \ {"escape"} = f
      BY <1>1, <1>4
    <2> QED
      BY <1>4, <2>1 DEF decoded, manage_escape_sequence, Quiet
  <1> QED
    BY <1>2, <1>3, <1>4

\* What the release of a byte takes back.
Freed(byte) == CASE byte \in {"12", "59"} -> {"shift"} [] byte = "14" -> {"ctrl"} [] OTHER -> {}

\* A byte after F0 lowers the flag of its key.
LEMMA Released ==
  ASSUME NEW f \in SUBSET {"shift", "ctrl", "caps"}, flags = f \cup {"release"}, NEW byte,
         NEW g, g = decoded(byte)
  PROVE  g.flags = f \ Freed(byte) /\ g.chars = <<>>
  <1>1. "release" \in flags
    OBVIOUS
  <1>2. g = Quiet(flags \ ({"release"} \cup Freed(byte)))
    BY <1>1 DEF decoded, reset_flags, Freed
  <1>3. flags \ ({"release"} \cup Freed(byte)) = f \ Freed(byte)
    OBVIOUS
  <1> QED
    BY <1>2, <1>3 DEF Quiet

\* A modifier, by its byte.
LEMMA Pressed ==
  ASSUME NEW f \in SUBSET {"shift", "ctrl", "caps"}, NEW g
  PROVE  /\ \A byte \in {"12", "59"} :
              flags = f /\ g = decoded(byte) => g.flags = f \cup {"shift"} /\ g.chars = <<>>
         /\ flags = f /\ g = decoded("14") => g.flags = f \cup {"ctrl"} /\ g.chars = <<>>
         /\ flags = f /\ g = decoded("58") =>
              g.flags = (IF "caps" \in f THEN f \ {"caps"} ELSE f \cup {"caps"}) /\ g.chars = <<>>
         /\ flags = f \cup {"escape"} /\ g = decoded("14") => g.flags = f \cup {"ctrl"} /\ g.chars = <<>>
  <1>1. "release" \notin f /\ "escape" \notin f
    OBVIOUS
  <1>2. ASSUME NEW byte \in {"12", "59"}, flags = f, g = decoded(byte)
        PROVE  g.flags = f \cup {"shift"} /\ g.chars = <<>>
    BY <1>1, <1>2 DEF decoded, read_key, Quiet
  <1>3. ASSUME flags = f, g = decoded("14")
        PROVE  g.flags = f \cup {"ctrl"} /\ g.chars = <<>>
    BY <1>1, <1>3 DEF decoded, read_key, Quiet
  <1>4. ASSUME flags = f, g = decoded("58")
        PROVE  g.flags = (IF "caps" \in f THEN f \ {"caps"} ELSE f \cup {"caps"}) /\ g.chars = <<>>
    BY <1>1, <1>4 DEF decoded, read_key, Quiet
  <1>5. ASSUME flags = f \cup {"escape"}, g = decoded("14")
        PROVE  g.flags = f \cup {"ctrl"} /\ g.chars = <<>>
    <2>1. "release" \notin flags /\ "escape" \in flags /\ flags \ {"escape"} = f
      BY <1>1, <1>5
    <2> QED
      BY <1>5, <2>1 DEF decoded, manage_escape_sequence, Quiet
  <1> QED
    BY <1>2, <1>3, <1>4, <1>5

\* The characters of a key.
Characters(m) ==
  CASE m = "left" -> <<"esc", "[", "D">>
    [] m = "right" -> <<"esc", "[", "C">>
    [] OTHER -> <<m>>

\* The byte of the letter key gives a letter, or Ctrl-C.
LEMMA LetterStruck ==
  ASSUME flags = FlagsOf(held), NEW g, g = decoded("21")
  PROVE  /\ g.flags = flags /\ g.chars = <<Meaning("c")>>
         /\ Meaning("c") \in {"c", "C", "etx"}
  <1>1. /\ "release" \notin flags /\ "escape" \notin flags
        /\ "ctrl" \in flags <=> held \cap {"ctrl", "rctrl"} # {}
        /\ flags \cap {"caps", "shift"} = {} <=> held \cap {"lshift", "rshift", "caps"} = {}
    <2>1. /\ "shift" \in flags <=> ("lshift" \in held \/ "rshift" \in held)
          /\ "ctrl" \in flags <=> ("ctrl" \in held \/ "rctrl" \in held)
          /\ "caps" \in flags <=> "caps" \in held
          /\ "release" \notin flags /\ "escape" \notin flags
      BY FlagsAre
    <2> QED
      BY <2>1
  <1>2. g = scancode_to_ascii(flags, "21")
    BY <1>1 DEF decoded, read_key
  <1>3. PICK m : m = IF "ctrl" \in flags THEN "etx"
                     ELSE IF flags \cap {"caps", "shift"} = {} THEN "c" ELSE "C"
    OBVIOUS
  <1>4. g.flags = flags /\ g.chars = <<m>>
    BY <1>2, <1>3 DEF scancode_to_ascii
  <1>5. Meaning("c") = m
    BY <1>1, <1>3 DEF Meaning
  <1> QED
    BY <1>3, <1>4, <1>5

\* The bytes of Enter, backspace and Escape give these characters.
LEMMA OtherStruck ==
  ASSUME flags = FlagsOf(held), NEW g
  PROVE  /\ g = decoded("5A") => g.flags = flags /\ g.chars = <<ENDL>>
         /\ g = decoded("66") => g.flags = flags /\ g.chars = <<"bs">>
         /\ g = decoded("76") => g.flags = flags /\ g.chars = <<"esc">>
  <1>1. "release" \notin flags /\ "escape" \notin flags
    BY FlagsAre
  <1>2. ASSUME g = decoded("5A")
        PROVE  g.flags = flags /\ g.chars = <<ENDL>>
    <2>1. g = scancode_to_ascii(flags, "5A")
      BY <1>1, <1>2 DEF decoded, read_key
    <2> QED
      BY <2>1 DEF scancode_to_ascii
  <1>3. ASSUME g = decoded("66")
        PROVE  g.flags = flags /\ g.chars = <<"bs">>
    <2>1. g = scancode_to_ascii(flags, "66")
      BY <1>1, <1>3 DEF decoded, read_key
    <2> QED
      BY <2>1 DEF scancode_to_ascii
  <1>4. ASSUME g = decoded("76")
        PROVE  g.flags = flags /\ g.chars = <<"esc">>
    BY <1>1, <1>4 DEF decoded, read_key
  <1> QED
    BY <1>2, <1>3, <1>4

\* The second byte of an arrow gives an escape sequence.
LEMMA ArrowStruck ==
  ASSUME NEW f \in SUBSET {"shift", "ctrl", "caps"}, flags = f \cup {"escape"}, NEW g
  PROVE  /\ g = decoded("6B") => g.flags = f /\ g.chars = <<"esc", "[", "D">>
         /\ g = decoded("74") => g.flags = f /\ g.chars = <<"esc", "[", "C">>
  <1>1. "release" \notin flags /\ "escape" \in flags /\ flags \ {"escape"} = f
    OBVIOUS
  <1>2. ASSUME g = decoded("6B")
        PROVE  g.flags = f /\ g.chars = <<"esc", "[", "D">>
    BY <1>1, <1>2 DEF decoded, manage_escape_sequence, Arrow
  <1>3. ASSUME g = decoded("74")
        PROVE  g.flags = f /\ g.chars = <<"esc", "[", "C">>
    BY <1>1, <1>3 DEF decoded, manage_escape_sequence, Arrow
  <1> QED
    BY <1>2, <1>3

\* What the other keys mean.
LEMMA Meanings ==
  /\ Meaning("enter") = ENDL /\ Meaning("bksp") = "bs" /\ Meaning("esc") = "esc"
  /\ Meaning("left") = "left" /\ Meaning("right") = "right"
  BY DEF Meaning

\* What an ordinary key says is known when its last byte is down.
LEMMA Struck ==
  ASSUME NEW key \in DOMAIN KeyCode \ (Modifiers \cup {"caps"}), NEW g, g = decoded(LastByte(key)),
         \/ Len(KeyCode[key]) = 1 /\ flags = FlagsOf(held)
         \/ Len(KeyCode[key]) # 1 /\ flags = FlagsOf(held) \cup {"escape"}
  PROVE  /\ g.flags = FlagsOf(held) /\ g.chars = Characters(Meaning(key))
         /\ Meaning(key) \in {"c", "C", "etx", ENDL, "bs", "esc", "left", "right"}
  <1>1. key \in {"c", "enter", "bksp", "esc", "left", "right"}
    BY KeyNames
  <1>2. FlagsOf(held) \in SUBSET {"shift", "ctrl", "caps"}
    BY FlagsAre
  <1>3. CASE key = "c"
    <2>1. LastByte(key) = "21" /\ Len(KeyCode[key]) = 1
      BY <1>3, Codes, ReleaseOfOne DEF LastByte
    <2>2. g.flags = flags /\ g.chars = <<Meaning(key)>> /\ Meaning(key) \in {"c", "C", "etx"}
      BY <1>3, <2>1, LetterStruck
    <2> QED
      BY <2>1, <2>2 DEF Characters
  <1>4. CASE key = "enter"
    <2>1. LastByte(key) = "5A" /\ Len(KeyCode[key]) = 1
      BY <1>4, Codes, ReleaseOfOne DEF LastByte
    <2>2. g.flags = flags /\ g.chars = <<ENDL>>
      BY <2>1, OtherStruck
    <2> QED
      BY <1>4, <2>1, <2>2, Meanings DEF Characters, ENDL
  <1>5. CASE key = "bksp"
    <2>1. LastByte(key) = "66" /\ Len(KeyCode[key]) = 1
      BY <1>5, Codes, ReleaseOfOne DEF LastByte
    <2>2. g.flags = flags /\ g.chars = <<"bs">>
      BY <2>1, OtherStruck
    <2> QED
      BY <1>5, <2>1, <2>2, Meanings DEF Characters
  <1>6. CASE key = "esc"
    <2>1. LastByte(key) = "76" /\ Len(KeyCode[key]) = 1
      BY <1>6, Codes, ReleaseOfOne DEF LastByte
    <2>2. g.flags = flags /\ g.chars = <<"esc">>
      BY <2>1, OtherStruck
    <2> QED
      BY <1>6, <2>1, <2>2, Meanings DEF Characters
  <1>7. CASE key = "left"
    <2>1. LastByte(key) = "6B" /\ Len(KeyCode[key]) = 2
      BY <1>7, Codes, ReleaseOfTwo DEF LastByte
    <2>2. flags = FlagsOf(held) \cup {"escape"}
      BY <2>1
    <2>3. g.flags = FlagsOf(held) /\ g.chars = <<"esc", "[", "D">>
      BY <1>2, <2>1, <2>2, ArrowStruck
    <2> QED
      BY <1>7, <2>3, Meanings DEF Characters
  <1>8. CASE key = "right"
    <2>1. LastByte(key) = "74" /\ Len(KeyCode[key]) = 2
      BY <1>8, Codes, ReleaseOfTwo DEF LastByte
    <2>2. flags = FlagsOf(held) \cup {"escape"}
      BY <2>1
    <2>3. g.flags = FlagsOf(held) /\ g.chars = <<"esc", "[", "C">>
      BY <1>2, <2>1, <2>2, ArrowStruck
    <2> QED
      BY <1>8, <2>3, Meanings DEF Characters
  <1> QED
    BY <1>1, <1>3, <1>4, <1>5, <1>6, <1>7, <1>8

\* The codes of the keys, by their last byte.
LEMMA KeyBytes ==
  ASSUME NEW key \in DOMAIN KeyCode, NEW b, b = LastByte(key)
  PROVE  /\ \/ /\ Len(KeyCode[key]) = 1 /\ KeyCode[key] = <<b>>
               /\ ReleaseCode(key) = <<"F0", b>> /\ Len(ReleaseCode(key)) = 2
            \/ /\ Len(KeyCode[key]) = 2 /\ KeyCode[key] = <<"E0", b>>
               /\ ReleaseCode(key) = <<"E0", "F0", b>> /\ Len(ReleaseCode(key)) = 3
         /\ key \in {"lshift", "rshift"} => Len(KeyCode[key]) = 1 /\ b \in {"12", "59"}
         /\ key = "ctrl" => Len(KeyCode[key]) = 1 /\ b = "14"
         /\ key = "rctrl" => Len(KeyCode[key]) = 2 /\ b = "14"
         /\ key = "caps" => Len(KeyCode[key]) = 1 /\ b = "58"
         /\ key \notin Modifiers => b \notin {"12", "59", "14"}
  <1>1. ASSUME NEW k, NEW c, OneByte(k, c)
        PROVE  /\ Len(KeyCode[k]) = 1 /\ KeyCode[k] = <<c>> /\ LastByte(k) = c
               /\ ReleaseCode(k) = <<"F0", c>> /\ Len(ReleaseCode(k)) = 2
    <2>1. ReleaseCode(k) = <<"F0", c>> /\ Len(KeyCode[k]) = 1 /\ LastByte(k) = c
      BY <1>1, ReleaseOfOne DEF LastByte
    <2>2. Len(<<"F0", c>>) = 2
      OBVIOUS
    <2> QED
      BY <1>1, <2>1, <2>2 DEF OneByte
  <1>2. ASSUME NEW k, NEW c, TwoBytes(k, c)
        PROVE  /\ Len(KeyCode[k]) = 2 /\ KeyCode[k] = <<"E0", c>> /\ LastByte(k) = c
               /\ ReleaseCode(k) = <<"E0", "F0", c>> /\ Len(ReleaseCode(k)) = 3
    <2>1. ReleaseCode(k) = <<"E0", "F0", c>> /\ Len(KeyCode[k]) = 2 /\ LastByte(k) = c
      BY <1>2, ReleaseOfTwo DEF LastByte
    <2>2. Len(<<"E0", "F0", c>>) = 3
      OBVIOUS
    <2> QED
      BY <1>2, <2>1, <2>2 DEF TwoBytes
  <1>3. \/ key = "c" /\ OneByte(key, "21")
        \/ key = "enter" /\ OneByte(key, "5A")
        \/ key = "bksp" /\ OneByte(key, "66")
        \/ key = "esc" /\ OneByte(key, "76")
        \/ key = "lshift" /\ OneByte(key, "12")
        \/ key = "rshift" /\ OneByte(key, "59")
        \/ key = "ctrl" /\ OneByte(key, "14")
        \/ key = "caps" /\ OneByte(key, "58")
        \/ key = "left" /\ TwoBytes(key, "6B")
        \/ key = "right" /\ TwoBytes(key, "74")
        \/ key = "rctrl" /\ TwoBytes(key, "14")
    BY KeyNames, Codes
  <1>4. \/ OneByte(key, b) \/ TwoBytes(key, b)
    BY <1>1, <1>2, <1>3
  <1>5. /\ key \in {"lshift", "rshift"} => OneByte(key, b) /\ b \in {"12", "59"}
        /\ key = "ctrl" => OneByte(key, b) /\ b = "14"
        /\ key = "rctrl" => TwoBytes(key, b) /\ b = "14"
        /\ key = "caps" => OneByte(key, b) /\ b = "58"
    BY <1>1, <1>2, <1>3
  <1>6. key \notin Modifiers => b \notin {"12", "59", "14"}
    BY <1>1, <1>2, <1>3, KeyNames
  <1> QED
    BY <1>1, <1>2, <1>4, <1>5, <1>6

\* The wire after the interrupt of a byte.
Rest(w) == IF Len(w.left) = 1 THEN NoKey ELSE [w EXCEPT !.left = Tail(@)]
Sending(key, left) == [key |-> key, left |-> left]

\* The last byte on the wire.
LEMMA OneToGo ==
  ASSUME NEW key, NEW a
  PROVE  Len(<<a>>) = 1 /\ Head(<<a>>) = a /\ Rest(Sending(key, <<a>>)) = NoKey
  BY DEF Rest, Sending

\* Two bytes on the wire.
LEMMA TwoToGo ==
  ASSUME NEW key, NEW a, NEW b
  PROVE  /\ Len(<<a, b>>) = 2 /\ Len(<<b>>) = 1 /\ Head(<<a, b>>) = a
         /\ Rest(Sending(key, <<a, b>>)) = Sending(key, <<b>>)
  <1>1. Len(<<a, b>>) = 2 /\ Len(<<b>>) = 1 /\ Head(<<a, b>>) = a /\ Tail(<<a, b>>) = <<b>>
    OBVIOUS
  <1> QED
    BY <1>1 DEF Rest, Sending

\* Three bytes on the wire.
LEMMA ThreeToGo ==
  ASSUME NEW key, NEW a, NEW b, NEW c
  PROVE  /\ Len(<<a, b, c>>) = 3 /\ Len(<<b, c>>) = 2 /\ Head(<<a, b, c>>) = a
         /\ Rest(Sending(key, <<a, b, c>>)) = Sending(key, <<b, c>>)
  <1>1. Len(<<a, b, c>>) = 3 /\ Len(<<b, c>>) = 2 /\ Head(<<a, b, c>>) = a /\ Tail(<<a, b, c>>) = <<b, c>>
    OBVIOUS
  <1> QED
    BY <1>1 DEF Rest, Sending

\* Four bytes on the wire.
LEMMA FourToGo ==
  ASSUME NEW key, NEW a, NEW b, NEW c, NEW d
  PROVE  /\ Len(<<a, b, c, d>>) = 4 /\ Len(<<b, c, d>>) = 3 /\ Head(<<a, b, c, d>>) = a
         /\ Rest(Sending(key, <<a, b, c, d>>)) = Sending(key, <<b, c, d>>)
  <1>1. /\ Len(<<a, b, c, d>>) = 4 /\ Len(<<b, c, d>>) = 3 /\ Head(<<a, b, c, d>>) = a
        /\ Tail(<<a, b, c, d>>) = <<b, c, d>>
    OBVIOUS
  <1> QED
    BY <1>1 DEF Rest, Sending

\* Five bytes on the wire.
LEMMA FiveToGo ==
  ASSUME NEW key, NEW a, NEW b, NEW c, NEW d, NEW e
  PROVE  /\ Len(<<a, b, c, d, e>>) = 5 /\ Len(<<b, c, d, e>>) = 4 /\ Head(<<a, b, c, d, e>>) = a
         /\ Rest(Sending(key, <<a, b, c, d, e>>)) = Sending(key, <<b, c, d, e>>)
  <1>1. /\ Len(<<a, b, c, d, e>>) = 5 /\ Len(<<b, c, d, e>>) = 4 /\ Head(<<a, b, c, d, e>>) = a
        /\ Tail(<<a, b, c, d, e>>) = <<b, c, d, e>>
    OBVIOUS
  <1> QED
    BY <1>1 DEF Rest, Sending

\* A key whose bytes are on the wire.
LEMMA SendingIs ==
  ASSUME NEW key \in DOMAIN KeyCode, NEW left, NEW w, w = Sending(key, left)
  PROVE  w # NoKey /\ w.key = key /\ w.left = left
  <1>1. key # "none"
    BY KeyNames
  <1> QED
    BY <1>1 DEF Sending, NoKey

\* The keys that can be held, key by key.
LEMMA HeldPairs ==
  ASSUME NEW h
  PROVE  h \in Helds <=> /\ h \subseteq Modifiers \cup {"caps"}
                         /\ ~("lshift" \in h /\ "rshift" \in h) /\ ~("ctrl" \in h /\ "rctrl" \in h)
  BY DEF Helds, Pairs

\* The other key of its pair is up.
Alone(key, h) == \A pair \in Pairs : key \in pair => h \cap pair = {}
\* The other key of a pair is up, key by key.
LEMMA AloneIs ==
  ASSUME NEW key, NEW h
  PROVE  Alone(key, h) <=> /\ key \in {"lshift", "rshift"} => "lshift" \notin h /\ "rshift" \notin h
                           /\ key \in {"ctrl", "rctrl"} => "ctrl" \notin h /\ "rctrl" \notin h
  BY DEF Alone, Pairs

\* Flags and wire agree when some bytes of a key are left,
LEMMA WiredAs ==
  ASSUME NEW h \in Helds, NEW key \in DOMAIN KeyCode, NEW left, NEW mark \in {{}, {"escape"}, {"release"}},
         Sent(left, mark, key, h), key \in Modifiers \ h => Alone(key, h),
         NEW f, f = FlagsOf(h) \cup mark, NEW w, w = Sending(key, left)
  PROVE  Wired(f, w, h)
  <1>1. w.key = key /\ w.left = left
    BY SendingIs
  <1> QED
    BY <1>1 DEF Wired, Alone, Sending

\* only then,
LEMMA WiredFrom ==
  ASSUME NEW h, NEW f, NEW w, Wired(f, w, h), w # NoKey
  PROVE  /\ h \in Helds
         /\ \E key \in DOMAIN KeyCode, mark \in {{}, {"escape"}, {"release"}} : \E left :
              /\ w = Sending(key, left) /\ Sent(left, mark, key, h) /\ f = FlagsOf(h) \cup mark
              /\ key \in Modifiers \ h => Alone(key, h)
  <1>1. PICK key, left : key = w.key /\ left = w.left
    OBVIOUS
  <1>2. /\ h \in Helds /\ key \in DOMAIN KeyCode /\ w = Sending(key, left)
        /\ key \in Modifiers \ h => Alone(key, h)
    BY <1>1 DEF Wired, Alone, Sending
  <1>3. \E mark \in {{}, {"escape"}, {"release"}} : Sent(left, mark, key, h) /\ f = FlagsOf(h) \cup mark
    BY <1>1 DEF Wired
  <1> QED
    BY <1>2, <1>3

\* or when the wire is empty.
LEMMA Unwired ==
  ASSUME NEW h \in Helds, NEW f, f = FlagsOf(h)
  PROVE  Wired(f, NoKey, h)
  BY DEF Wired

\* What the interrupt of a byte may be: one that only announces, a modifier that
\* goes up or down, or the press of another key.
Toggled(key) == IF key \in held THEN held \ {key} ELSE held \cup {key}
Passes(d) ==
  /\ d.chars = <<>> /\ ~Completed /\ Wired(d.flags, Rest(wire), held)
  /\ Coming(Rest(wire)) => Coming(wire) /\ Rest(wire).key = wire.key
Toggles(d) ==
  /\ d.chars = <<>> /\ Completed /\ Wired(d.flags, Rest(wire), Toggled(wire.key))
  /\ wire.key \in Modifiers \cup {"caps"} /\ ~Coming(Rest(wire))
Strikes(d) ==
  /\ wire.key \in DOMAIN KeyCode \ (Modifiers \cup {"caps"})
  /\ d.chars = Characters(Meaning(wire.key)) /\ Completed /\ Wired(d.flags, Rest(wire), held)
  /\ Meaning(wire.key) \in {"c", "C", "etx", ENDL, "bs", "esc", "left", "right"}
  /\ Coming(wire) /\ ~Coming(Rest(wire))

\* When the byte on the wire completes a press or a release.
LEMMA CompletedIs ==
  ASSUME NEW key \in DOMAIN KeyCode, NEW left, wire = Sending(key, left)
  PROVE  /\ key \in Modifiers => (Completed <=> Len(left) = 1)
         /\ key \notin Modifiers => (Completed <=> Len(left) = Len(ReleaseCode(key)) + 1)
         /\ Coming(wire) <=> key \notin Modifiers \cup {"caps"} /\ Len(left) > Len(ReleaseCode(key))
  <1>1. wire # NoKey /\ wire.key = key /\ wire.left = left
    BY SendingIs
  <1> QED
    BY <1>1 DEF Completed, Coming

\* When the press of a key is still to come.
LEMMA ComingIs ==
  ASSUME NEW key \in DOMAIN KeyCode, NEW left, NEW w, w = Sending(key, left)
  PROVE  Coming(w) <=> key \notin Modifiers \cup {"caps"} /\ Len(left) > Len(ReleaseCode(key))
  BY SendingIs DEF Coming

\* Nothing comes on an empty wire.
LEMMA NothingComing == ~Coming(NoKey)
  BY DEF Coming

\* One byte less is left.
Follows(rest, left) == Len(rest) \in Nat /\ Len(left) = Len(rest) + 1
Other(rest, key) == Len(rest) # 0 /\ Len(rest) # Len(ReleaseCode(key))
Release(rest, key) == Len(rest) = Len(ReleaseCode(key))

\* A byte that only announces the others.
LEMMA PassesOn ==
  ASSUME NEW key \in DOMAIN KeyCode, NEW left, wire = Sending(key, left), held \in Helds,
         key \in Modifiers \ held => Alone(key, held),
         NEW rest, NEW mark \in {{}, {"escape"}, {"release"}}, Sent(rest, mark, key, held),
         Rest(wire) = Sending(key, rest), Follows(rest, left), Other(rest, key),
         NEW d, d.flags = FlagsOf(held) \cup mark, d.chars = <<>>
  PROVE  Passes(d)
  <1>1. Len(ReleaseCode(key)) \in Nat
    BY KeyBytes
  <1>2. ~Completed /\ (Coming(Rest(wire)) => Coming(wire))
    <2>1. Coming(Rest(wire)) <=> key \notin Modifiers \cup {"caps"} /\ Len(rest) > Len(ReleaseCode(key))
      BY ComingIs
    <2>2. /\ key \in Modifiers => (Completed <=> Len(left) = 1)
          /\ key \notin Modifiers => (Completed <=> Len(left) = Len(ReleaseCode(key)) + 1)
          /\ Coming(wire) <=> key \notin Modifiers \cup {"caps"} /\ Len(left) > Len(ReleaseCode(key))
      BY CompletedIs
    <2>3. PICK n, m, r : n = Len(left) /\ m = Len(rest) /\ r = Len(ReleaseCode(key))
      OBVIOUS
    <2>4. m \in Nat /\ r \in Nat /\ n = m + 1 /\ m # 0 /\ m # r
      BY <1>1, <2>3 DEF Follows, Other
    <2>5. n # 1 /\ n # r + 1 /\ (m > r => n > r)
      BY <2>4
    <2> QED
      BY <2>1, <2>2, <2>3, <2>5
  <1>3. Wired(d.flags, Rest(wire), held)
    BY WiredAs
  <1>4. Rest(wire).key = key /\ wire.key = key
    BY SendingIs
  <1> QED
    BY <1>2, <1>3, <1>4 DEF Passes

\* The last byte of an ordinary key.
LEMMA StrikesOf ==
  ASSUME NEW key \in DOMAIN KeyCode \ (Modifiers \cup {"caps"}), NEW left, wire = Sending(key, left),
         held \in Helds,
         NEW rest, Sent(rest, {}, key, held),
         Rest(wire) = Sending(key, rest), Follows(rest, left), Release(rest, key),
         NEW d, d.flags = FlagsOf(held), d.chars = Characters(Meaning(key)),
         Meaning(key) \in {"c", "C", "etx", ENDL, "bs", "esc", "left", "right"}
  PROVE  Strikes(d)
  <1>1. Completed /\ Coming(wire) /\ ~Coming(Rest(wire))
    <2>1. Coming(Rest(wire)) <=> key \notin Modifiers \cup {"caps"} /\ Len(rest) > Len(ReleaseCode(key))
      BY ComingIs
    <2>2. /\ key \notin Modifiers => (Completed <=> Len(left) = Len(ReleaseCode(key)) + 1)
          /\ Coming(wire) <=> key \notin Modifiers \cup {"caps"} /\ Len(left) > Len(ReleaseCode(key))
      BY CompletedIs
    <2>3. PICK n, m, r : n = Len(left) /\ m = Len(rest) /\ r = Len(ReleaseCode(key))
      OBVIOUS
    <2>4. m \in Nat /\ n = m + 1 /\ m = r
      BY <2>3 DEF Follows, Release
    <2>5. n = r + 1 /\ n > r /\ ~(m > r)
      BY <2>4
    <2> QED
      BY <2>1, <2>2, <2>3, <2>5
  <1>2. Wired(d.flags, Rest(wire), held)
    <2>1. d.flags = FlagsOf(held) \cup {} /\ {} \in {{}, {"escape"}, {"release"}} /\ key \notin Modifiers
      OBVIOUS
    <2> QED
      BY <2>1, WiredAs
  <1>3. wire.key = key
    BY SendingIs
  <1> QED
    BY <1>1, <1>2, <1>3 DEF Strikes

\* Toggling a modifier leaves a set of keys that can be held.
LEMMA ToggledIs ==
  ASSUME held \in Helds, NEW key \in Modifiers \cup {"caps"}, key \in Modifiers \ held => Alone(key, held)
  PROVE  Toggled(key) \in Helds
  BY KeyNames, AloneIs, HeldPairs DEF Toggled

\* The byte of a modifier that goes down, and of one that goes up.
LEMMA ModifierDown ==
  ASSUME held \in Helds, NEW key \in Modifiers \ held, NEW d, d = decoded(LastByte(key)),
         \/ Len(KeyCode[key]) = 1 /\ flags = FlagsOf(held)
         \/ Len(KeyCode[key]) # 1 /\ flags = FlagsOf(held) \cup {"escape"}
  PROVE  d.chars = <<>> /\ d.flags = FlagsOf(Toggled(key))
  <1>1. PICK f : f = FlagsOf(held)
    OBVIOUS
  <1>2. /\ f \in SUBSET {"shift", "ctrl", "caps"}
        /\ "shift" \in f <=> ("lshift" \in held \/ "rshift" \in held)
        /\ "ctrl" \in f <=> ("ctrl" \in held \/ "rctrl" \in held)
        /\ "caps" \in f <=> "caps" \in held
    BY <1>1, FlagsAre
  <1>3. PICK b : b = LastByte(key)
    OBVIOUS
  <1>4. key \in DOMAIN KeyCode /\ key \in {"lshift", "rshift", "ctrl", "rctrl"}
    BY KeyNames
  <1>5. CASE key \in {"lshift", "rshift"}
    <2>1. b \in {"12", "59"} /\ flags = f
      BY <1>1, <1>3, <1>4, <1>5, KeyBytes
    <2>2. d.flags = f \cup {"shift"} /\ d.chars = <<>>
      BY <1>2, <1>3, <2>1, Pressed
    <2>3. f \cup {"shift"} = FlagsOf(Toggled(key))
      <3>1. PICK h, g : h = Toggled(key) /\ g = f \cup {"shift"}
        OBVIOUS
      <3>2. \A x : x \in h <=> x \in held \/ x = key
        BY <3>1 DEF Toggled
      <3>3. g \in SUBSET {"shift", "ctrl", "caps"}
        BY <1>2, <3>1
      <3>4. /\ "shift" \in g <=> ("lshift" \in h \/ "rshift" \in h)
            /\ "ctrl" \in g <=> ("ctrl" \in h \/ "rctrl" \in h)
            /\ "caps" \in g <=> "caps" \in h
        BY <1>2, <1>5, <3>1, <3>2
      <3>5. g = FlagsOf(h)
        BY <3>3, <3>4, FlagsFrom
      <3> QED
        BY <3>1, <3>5
    <2> QED
      BY <2>2, <2>3
  <1>6. CASE key \in {"ctrl", "rctrl"}
    <2>1. b = "14" /\ (flags = f \/ flags = f \cup {"escape"})
      BY <1>1, <1>3, <1>4, <1>6, KeyBytes
    <2>2. d.flags = f \cup {"ctrl"} /\ d.chars = <<>>
      BY <1>2, <1>3, <2>1, Pressed
    <2>3. f \cup {"ctrl"} = FlagsOf(Toggled(key))
      <3>1. PICK h, g : h = Toggled(key) /\ g = f \cup {"ctrl"}
        OBVIOUS
      <3>2. \A x : x \in h <=> x \in held \/ x = key
        BY <3>1 DEF Toggled
      <3>3. g \in SUBSET {"shift", "ctrl", "caps"}
        BY <1>2, <3>1
      <3>4. /\ "shift" \in g <=> ("lshift" \in h \/ "rshift" \in h)
            /\ "ctrl" \in g <=> ("ctrl" \in h \/ "rctrl" \in h)
            /\ "caps" \in g <=> "caps" \in h
        BY <1>2, <1>6, <3>1, <3>2
      <3>5. g = FlagsOf(h)
        BY <3>3, <3>4, FlagsFrom
      <3> QED
        BY <3>1, <3>5
    <2> QED
      BY <2>2, <2>3
  <1> QED
    BY <1>4, <1>5, <1>6

\* The last byte of a release lowers the flag of its key.
LEMMA KeyReleased ==
  ASSUME held \in Helds, NEW key \in DOMAIN KeyCode, key \in Modifiers => key \in held,
         NEW d, d = decoded(LastByte(key)), flags = FlagsOf(held) \cup {"release"}
  PROVE  /\ d.chars = <<>>
         /\ d.flags = FlagsOf(IF key \in Modifiers THEN Toggled(key) ELSE held)
  <1>1. PICK f, b : f = FlagsOf(held) /\ b = LastByte(key)
    OBVIOUS
  <1>2. /\ f \in SUBSET {"shift", "ctrl", "caps"}
        /\ "shift" \in f <=> ("lshift" \in held \/ "rshift" \in held)
        /\ "ctrl" \in f <=> ("ctrl" \in held \/ "rctrl" \in held)
        /\ "caps" \in f <=> "caps" \in held
    BY <1>1, FlagsAre
  <1>3. d.flags = f \ Freed(b) /\ d.chars = <<>>
    BY <1>1, <1>2, Released
  <1>4. CASE key \notin Modifiers
    <2>1. Freed(b) = {}
      BY <1>1, <1>4, KeyBytes DEF Freed
    <2> QED
      BY <1>1, <1>3, <1>4, <2>1
  <1>5. CASE key \in {"lshift", "rshift"}
    <2>1. Freed(b) = {"shift"} /\ key \in Modifiers
      BY <1>1, <1>5, KeyBytes, KeyNames DEF Freed
    <2>2. f \ {"shift"} = FlagsOf(Toggled(key))
      <3>1. PICK h, g : h = Toggled(key) /\ g = f \ {"shift"}
        OBVIOUS
      <3>2. \A x : x \in h <=> x \in held /\ x # key
        BY <2>1, <3>1 DEF Toggled
      <3>3. g \in SUBSET {"shift", "ctrl", "caps"}
        BY <1>2, <3>1
      <3>4. /\ "shift" \in g <=> ("lshift" \in h \/ "rshift" \in h)
            /\ "ctrl" \in g <=> ("ctrl" \in h \/ "rctrl" \in h)
            /\ "caps" \in g <=> "caps" \in h
        BY <1>2, <1>5, <2>1, <3>1, <3>2, HeldPairs
      <3>5. g = FlagsOf(h)
        BY <3>3, <3>4, FlagsFrom
      <3> QED
        BY <3>1, <3>5
    <2> QED
      BY <1>3, <2>1, <2>2
  <1>6. CASE key \in {"ctrl", "rctrl"}
    <2>1. Freed(b) = {"ctrl"} /\ key \in Modifiers
      BY <1>1, <1>6, KeyBytes, KeyNames DEF Freed
    <2>2. f \ {"ctrl"} = FlagsOf(Toggled(key))
      <3>1. PICK h, g : h = Toggled(key) /\ g = f \ {"ctrl"}
        OBVIOUS
      <3>2. \A x : x \in h <=> x \in held /\ x # key
        BY <2>1, <3>1 DEF Toggled
      <3>3. g \in SUBSET {"shift", "ctrl", "caps"}
        BY <1>2, <3>1
      <3>4. /\ "shift" \in g <=> ("lshift" \in h \/ "rshift" \in h)
            /\ "ctrl" \in g <=> ("ctrl" \in h \/ "rctrl" \in h)
            /\ "caps" \in g <=> "caps" \in h
        BY <1>2, <1>6, <2>1, <3>1, <3>2, HeldPairs
      <3>5. g = FlagsOf(h)
        BY <3>3, <3>4, FlagsFrom
      <3> QED
        BY <3>1, <3>5
    <2> QED
      BY <1>3, <2>1, <2>2
  <1> QED
    BY <1>4, <1>5, <1>6, KeyNames

\* Caps Lock changes its flag.
LEMMA CapsChanged ==
  ASSUME NEW d, d = decoded("58"), flags = FlagsOf(held)
  PROVE  d.chars = <<>> /\ d.flags = FlagsOf(Toggled("caps"))
  <1>1. PICK f : f = FlagsOf(held)
    OBVIOUS
  <1>2. /\ f \in SUBSET {"shift", "ctrl", "caps"}
        /\ "shift" \in f <=> ("lshift" \in held \/ "rshift" \in held)
        /\ "ctrl" \in f <=> ("ctrl" \in held \/ "rctrl" \in held)
        /\ "caps" \in f <=> "caps" \in held
    BY <1>1, FlagsAre
  <1>3. d.flags = (IF "caps" \in f THEN f \ {"caps"} ELSE f \cup {"caps"}) /\ d.chars = <<>>
    BY <1>1, <1>2, Pressed
  <1>4. CASE "caps" \in held
    <2>1. f \ {"caps"} = FlagsOf(Toggled("caps"))
      <3>1. PICK h, g : h = Toggled("caps") /\ g = f \ {"caps"}
        OBVIOUS
      <3>2. \A x : x \in h <=> x \in held /\ x # "caps"
        BY <1>4, <3>1 DEF Toggled
      <3>3. g \in SUBSET {"shift", "ctrl", "caps"}
        BY <1>2, <3>1
      <3>4. /\ "shift" \in g <=> ("lshift" \in h \/ "rshift" \in h)
            /\ "ctrl" \in g <=> ("ctrl" \in h \/ "rctrl" \in h)
            /\ "caps" \in g <=> "caps" \in h
        BY <1>2, <1>4, <3>1, <3>2
      <3>5. g = FlagsOf(h)
        BY <3>3, <3>4, FlagsFrom
      <3> QED
        BY <3>1, <3>5
    <2> QED
      BY <1>2, <1>3, <1>4, <2>1
  <1>5. CASE "caps" \notin held
    <2>1. f \cup {"caps"} = FlagsOf(Toggled("caps"))
      <3>1. PICK h, g : h = Toggled("caps") /\ g = f \cup {"caps"}
        OBVIOUS
      <3>2. \A x : x \in h <=> x \in held \/ x = "caps"
        BY <1>5, <3>1 DEF Toggled
      <3>3. g \in SUBSET {"shift", "ctrl", "caps"}
        BY <1>2, <3>1
      <3>4. /\ "shift" \in g <=> ("lshift" \in h \/ "rshift" \in h)
            /\ "ctrl" \in g <=> ("ctrl" \in h \/ "rctrl" \in h)
            /\ "caps" \in g <=> "caps" \in h
        BY <1>2, <1>5, <3>1, <3>2
      <3>5. g = FlagsOf(h)
        BY <3>3, <3>4, FlagsFrom
      <3> QED
        BY <3>1, <3>5
    <2> QED
      BY <1>2, <1>3, <1>5, <2>1
  <1> QED
    BY <1>4, <1>5

\* What may be left of a key whose code is one byte, and of the others.
OneLeft(key, b, left, mark) ==
  \/ key \in Modifiers \ held /\ left = <<b>> /\ mark = {}
  \/ key \notin Modifiers /\ left = <<b, "F0", b>> /\ mark = {}
  \/ (key \in Modifiers => key \in held) /\ left = <<"F0", b>> /\ mark = {}
  \/ (key \in Modifiers => key \in held) /\ left = <<b>> /\ mark = {"release"}
TwoLeft(key, b, left, mark) ==
  \/ key \in Modifiers \ held /\ left = <<"E0", b>> /\ mark = {}
  \/ key \in Modifiers \ held /\ left = <<b>> /\ mark = {"escape"}
  \/ key \notin Modifiers /\ left = <<"E0", b, "E0", "F0", b>> /\ mark = {}
  \/ key \notin Modifiers /\ left = <<b, "E0", "F0", b>> /\ mark = {"escape"}
  \/ (key \in Modifiers => key \in held) /\ left = <<"E0", "F0", b>> /\ mark = {}
  \/ (key \in Modifiers => key \in held) /\ left = <<"F0", b>> /\ mark = {"escape"}
  \/ (key \in Modifiers => key \in held) /\ left = <<b>> /\ mark = {"release"}

\* What can be left of a key of one byte,
LEMMA SentOne ==
  ASSUME NEW key \in DOMAIN KeyCode, NEW b, b = LastByte(key), Len(KeyCode[key]) = 1, NEW left, NEW mark
  PROVE  Sent(left, mark, key, held) <=> OneLeft(key, b, left, mark)
  BY DEF Sent, OneLeft

\* and of two.
LEMMA SentTwo ==
  ASSUME NEW key \in DOMAIN KeyCode, NEW b, b = LastByte(key), Len(KeyCode[key]) # 1, NEW left, NEW mark
  PROVE  Sent(left, mark, key, held) <=> TwoLeft(key, b, left, mark)
  BY DEF Sent, TwoLeft

\* The last byte that is left of a modifier, or of the release of a key.
LEMMA LastOne ==
  ASSUME NEW key \in DOMAIN KeyCode, NEW b, b = LastByte(key), wire = Sending(key, <<b>>),
         held \in Helds, key \in Modifiers \ held => Alone(key, held), NEW d, d = decoded(b),
         \/ /\ key \in Modifiers \ held
            /\ \/ Len(KeyCode[key]) = 1 /\ flags = FlagsOf(held)
               \/ Len(KeyCode[key]) # 1 /\ flags = FlagsOf(held) \cup {"escape"}
         \/ (key \in Modifiers => key \in held) /\ flags = FlagsOf(held) \cup {"release"}
  PROVE  Passes(d) \/ Toggles(d)
  <1>1. Rest(wire) = NoKey /\ wire.key = key /\ Len(<<b>>) = 1
    BY OneToGo, SendingIs
  <1>2. d.chars = <<>> /\ d.flags = FlagsOf(IF key \in Modifiers THEN Toggled(key) ELSE held)
    BY ModifierDown, KeyReleased
  <1>3. CASE key \in Modifiers
    <2>1. Completed
      BY <1>1, <1>3, CompletedIs
    <2>2. Wired(d.flags, NoKey, Toggled(key))
      BY <1>2, <1>3, ToggledIs, Unwired
    <2> QED
      BY <1>1, <1>2, <1>3, <2>1, <2>2, NothingComing DEF Toggles
  <1>4. CASE key \notin Modifiers
    <2>1. ~Completed
      BY <1>1, <1>4, CompletedIs, KeyBytes
    <2>2. Wired(d.flags, NoKey, held)
      BY <1>2, <1>4, Unwired
    <2> QED
      BY <1>1, <1>2, <2>1, <2>2, NothingComing DEF Passes
  <1> QED
    BY <1>3, <1>4

\* The press of a key whose code is one byte.
LEMMA OneStruck ==
  ASSUME NEW key \in DOMAIN KeyCode \ Modifiers, NEW b, b = LastByte(key), Len(KeyCode[key]) = 1,
         wire = Sending(key, <<b, "F0", b>>), held \in Helds, NEW d, d = decoded(b), flags = FlagsOf(held)
  PROVE  Toggles(d) \/ Strikes(d)
  <1>1. /\ Rest(wire) = Sending(key, <<"F0", b>>) /\ wire.key = key
        /\ Len(<<b, "F0", b>>) = 3 /\ Len(<<"F0", b>>) = 2 /\ Len(ReleaseCode(key)) = 2
    BY ThreeToGo, SendingIs, KeyBytes
  <1>2. \A h : Sent(<<"F0", b>>, {}, key, h)
    BY DEF Sent
  <1>3. CASE key = "caps"
    <2>1. d.chars = <<>> /\ d.flags = FlagsOf(Toggled("caps"))
      BY <1>3, KeyBytes, CapsChanged
    <2>2. Toggled("caps") \in Helds
      BY <1>3, ToggledIs
    <2>3. Wired(d.flags, Rest(wire), Toggled("caps"))
      <3>1. d.flags = FlagsOf(Toggled("caps")) \cup {}
        BY <2>1
      <3> QED
        BY <1>1, <1>2, <1>3, <2>2, <3>1, WiredAs
    <2>4. Completed /\ ~Coming(Rest(wire))
      <3>1. Completed <=> Len(<<b, "F0", b>>) = Len(ReleaseCode(key)) + 1
        BY CompletedIs
      <3>2. ~Coming(Rest(wire))
        BY <1>1, <1>3, ComingIs
      <3> QED
        BY <1>1, <3>1, <3>2
    <2> QED
      BY <1>1, <1>3, <2>1, <2>3, <2>4 DEF Toggles
  <1>4. CASE key # "caps"
    <2>1. /\ d.flags = FlagsOf(held) /\ d.chars = Characters(Meaning(key))
          /\ Meaning(key) \in {"c", "C", "etx", ENDL, "bs", "esc", "left", "right"}
      BY <1>4, Struck
    <2>2. Follows(<<"F0", b>>, <<b, "F0", b>>) /\ Release(<<"F0", b>>, key)
      BY <1>1 DEF Follows, Release
    <2> QED
      BY <1>1, <1>2, <1>4, <2>1, <2>2, StrikesOf, Zenon
  <1> QED
    BY <1>3, <1>4

\* The next byte of a key of one byte passes, toggles or strikes,
LEMMA OneTaken ==
  ASSUME NEW key \in DOMAIN KeyCode, NEW b, b = LastByte(key), Len(KeyCode[key]) = 1,
         NEW left, NEW mark, OneLeft(key, b, left, mark), wire = Sending(key, left),
         held \in Helds, key \in Modifiers \ held => Alone(key, held),
         flags = FlagsOf(held) \cup mark, NEW d, d = decoded(Head(left))
  PROVE  Passes(d) \/ Toggles(d) \/ Strikes(d)
  <1>1. CASE key \in Modifiers \ held /\ left = <<b>> /\ mark = {}
    BY <1>1, OneToGo, LastOne
  <1>2. CASE key \notin Modifiers /\ left = <<b, "F0", b>> /\ mark = {}
    BY <1>2, ThreeToGo, OneStruck
  <1>3. CASE (key \in Modifiers => key \in held) /\ left = <<"F0", b>> /\ mark = {}
    <2>1. Head(left) = "F0" /\ Len(left) = 2 /\ Len(<<b>>) = 1 /\ Rest(wire) = Sending(key, <<b>>)
      BY <1>3, TwoToGo
    <2>2. d.flags = FlagsOf(held) \cup {"release"} /\ d.chars = <<>>
      <3>1. FlagsOf(held) \in SUBSET {"shift", "ctrl", "caps"} /\ flags = FlagsOf(held)
        BY <1>3, FlagsAre
      <3> QED
        BY <2>1, <3>1, Announced
    <2>3. Sent(<<b>>, {"release"}, key, held)
      BY <1>3, SentOne DEF OneLeft
    <2>4. Follows(<<b>>, left) /\ Other(<<b>>, key)
      BY <2>1, KeyBytes DEF Follows, Other
    <2> QED
      BY <1>3, <2>1, <2>2, <2>3, <2>4, PassesOn, Zenon
  <1>4. CASE (key \in Modifiers => key \in held) /\ left = <<b>> /\ mark = {"release"}
    BY <1>4, OneToGo, LastOne
  <1> QED
    BY <1>1, <1>2, <1>3, <1>4 DEF OneLeft

\* and so does that of a key of two.
LEMMA TwoTaken ==
  ASSUME NEW key \in DOMAIN KeyCode, NEW b, b = LastByte(key), Len(KeyCode[key]) # 1,
         NEW left, NEW mark, TwoLeft(key, b, left, mark), wire = Sending(key, left),
         held \in Helds, key \in Modifiers \ held => Alone(key, held),
         flags = FlagsOf(held) \cup mark, NEW d, d = decoded(Head(left))
  PROVE  Passes(d) \/ Toggles(d) \/ Strikes(d)
  <1>1. FlagsOf(held) \in SUBSET {"shift", "ctrl", "caps"}
    BY FlagsAre
  <1>2. Len(ReleaseCode(key)) = 3 /\ key # "caps"
    BY KeyBytes
  <1>3. CASE key \in Modifiers \ held /\ left = <<"E0", b>> /\ mark = {}
    <2>1. Head(left) = "E0" /\ Len(left) = 2 /\ Len(<<b>>) = 1 /\ Rest(wire) = Sending(key, <<b>>)
      BY <1>3, TwoToGo
    <2>2. d.flags = FlagsOf(held) \cup {"escape"} /\ d.chars = <<>>
      BY <1>1, <1>3, <2>1, Announced
    <2>3. Sent(<<b>>, {"escape"}, key, held)
      BY <1>3, SentTwo DEF TwoLeft
    <2>4. Follows(<<b>>, left) /\ Other(<<b>>, key)
      BY <1>2, <2>1 DEF Follows, Other
    <2> QED
      BY <1>3, <2>1, <2>2, <2>3, <2>4, PassesOn, Zenon
  <1>4. CASE key \in Modifiers \ held /\ left = <<b>> /\ mark = {"escape"}
    BY <1>4, OneToGo, LastOne
  <1>5. CASE key \notin Modifiers /\ left = <<"E0", b, "E0", "F0", b>> /\ mark = {}
    <2>1. /\ Head(left) = "E0" /\ Len(left) = 5 /\ Len(<<b, "E0", "F0", b>>) = 4
          /\ Rest(wire) = Sending(key, <<b, "E0", "F0", b>>)
      BY <1>5, FiveToGo
    <2>2. d.flags = FlagsOf(held) \cup {"escape"} /\ d.chars = <<>>
      BY <1>1, <1>5, <2>1, Announced
    <2>3. Sent(<<b, "E0", "F0", b>>, {"escape"}, key, held)
      BY <1>5, SentTwo DEF TwoLeft
    <2>4. Follows(<<b, "E0", "F0", b>>, left) /\ Other(<<b, "E0", "F0", b>>, key)
      BY <1>2, <2>1 DEF Follows, Other
    <2> QED
      BY <1>5, <2>1, <2>2, <2>3, <2>4, PassesOn, Zenon
  <1>6. CASE key \notin Modifiers /\ left = <<b, "E0", "F0", b>> /\ mark = {"escape"}
    <2>1. /\ Head(left) = b /\ Len(left) = 4 /\ Len(<<"E0", "F0", b>>) = 3
          /\ Rest(wire) = Sending(key, <<"E0", "F0", b>>)
      BY <1>6, FourToGo
    <2>2. /\ d.flags = FlagsOf(held) /\ d.chars = Characters(Meaning(key))
          /\ Meaning(key) \in {"c", "C", "etx", ENDL, "bs", "esc", "left", "right"}
      BY <1>2, <1>6, <2>1, Struck
    <2>3. Sent(<<"E0", "F0", b>>, {}, key, held)
      BY <1>6, SentTwo DEF TwoLeft
    <2>4. Follows(<<"E0", "F0", b>>, left) /\ Release(<<"E0", "F0", b>>, key)
      BY <1>2, <2>1 DEF Follows, Release
    <2> QED
      BY <1>2, <1>6, <2>1, <2>2, <2>3, <2>4, StrikesOf, Zenon
  <1>7. CASE (key \in Modifiers => key \in held) /\ left = <<"E0", "F0", b>> /\ mark = {}
    <2>1. Head(left) = "E0" /\ Len(left) = 3 /\ Len(<<"F0", b>>) = 2 /\ Rest(wire) = Sending(key, <<"F0", b>>)
      BY <1>7, ThreeToGo
    <2>2. d.flags = FlagsOf(held) \cup {"escape"} /\ d.chars = <<>>
      BY <1>1, <1>7, <2>1, Announced
    <2>3. Sent(<<"F0", b>>, {"escape"}, key, held)
      BY <1>7, SentTwo DEF TwoLeft
    <2>4. Follows(<<"F0", b>>, left) /\ Other(<<"F0", b>>, key)
      BY <1>2, <2>1 DEF Follows, Other
    <2> QED
      BY <1>7, <2>1, <2>2, <2>3, <2>4, PassesOn, Zenon
  <1>8. CASE (key \in Modifiers => key \in held) /\ left = <<"F0", b>> /\ mark = {"escape"}
    <2>1. Head(left) = "F0" /\ Len(left) = 2 /\ Len(<<b>>) = 1 /\ Rest(wire) = Sending(key, <<b>>)
      BY <1>8, TwoToGo
    <2>2. d.flags = FlagsOf(held) \cup {"release"} /\ d.chars = <<>>
      BY <1>1, <1>8, <2>1, Announced
    <2>3. Sent(<<b>>, {"release"}, key, held)
      BY <1>8, SentTwo DEF TwoLeft
    <2>4. Follows(<<b>>, left) /\ Other(<<b>>, key)
      BY <1>2, <2>1 DEF Follows, Other
    <2> QED
      BY <1>8, <2>1, <2>2, <2>3, <2>4, PassesOn, Zenon
  <1>9. CASE (key \in Modifiers => key \in held) /\ left = <<b>> /\ mark = {"release"}
    BY <1>9, OneToGo, LastOne
  <1> QED
    BY <1>3, <1>4, <1>5, <1>6, <1>7, <1>8, <1>9 DEF TwoLeft

\* Every byte passes, toggles or strikes.
LEMMA ByteTaken ==
  ASSUME Wired(flags, wire, held), wire # NoKey, NEW d, d = decoded(Head(wire.left))
  PROVE  Passes(d) \/ Toggles(d) \/ Strikes(d)
  <1>1. held \in Helds
    BY WiredFrom
  <1>2. PICK key \in DOMAIN KeyCode, mark \in {{}, {"escape"}, {"release"}} : \E left :
          /\ wire = Sending(key, left) /\ Sent(left, mark, key, held) /\ flags = FlagsOf(held) \cup mark
          /\ key \in Modifiers \ held => Alone(key, held)
    BY WiredFrom
  <1>3. PICK left :
          /\ wire = Sending(key, left) /\ Sent(left, mark, key, held) /\ flags = FlagsOf(held) \cup mark
          /\ key \in Modifiers \ held => Alone(key, held)
    BY <1>2
  <1>4. wire.left = left
    BY <1>3, SendingIs
  <1>5. PICK b : b = LastByte(key)
    OBVIOUS
  <1>6. CASE Len(KeyCode[key]) = 1
    <2>1. OneLeft(key, b, left, mark)
      BY <1>3, <1>5, <1>6, SentOne
    <2> QED
      BY <1>1, <1>3, <1>4, <1>5, <1>6, <2>1, OneTaken
  <1>7. CASE Len(KeyCode[key]) # 1
    <2>1. TwoLeft(key, b, left, mark)
      BY <1>3, <1>5, <1>7, SentTwo
    <2> QED
      BY <1>1, <1>3, <1>4, <1>5, <1>7, <2>1, TwoTaken
  <1> QED
    BY <1>6, <1>7

-----------------------------------------------------------------------------
(* A key that is struck                                                    *)

\* What the rules say of it.
LEMMA Ruled ==
  ASSUME Rules = AllRules, NEW key, Types(key), NEW m, m = Meaning(key)
  PROVE  /\ expected = <<>>
         /\ tty.canonical => m # "esc"
         /\ ~tty.canonical => m \in {"c", "C", "bs", "esc"}
         /\ tty.canonical /\ m \in Letters => RoomInRow(anchor, line) /\ tty.final + 2 < BufSize
         /\ m = ENDL => anchor.at + Len(line.text) # Last
         /\ m = "etx" => line.text = <<>>
  <1>1. /\ Keeps("short lines") /\ Keeps("off the corner") /\ Keeps("no typing ahead")
        /\ Keeps("plain keys") /\ Keeps("empty ^C")
    BY DEF Keeps, AllRules
  <1>2. expected = <<>> /\ (m = "etx" => line.text = <<>>)
    BY <1>1 DEF Types
  <1>3. (tty.canonical => m # "esc") /\ (~tty.canonical => m \in {"c", "C", "bs", "esc"})
    BY <1>1 DEF Types, Letter
  <1>4. ASSUME tty.canonical, m \in Letters
        PROVE  RoomInRow(anchor, line) /\ tty.final + 2 < BufSize
    <2>1. Letter(m)
      BY <1>4 DEF Letter, Letters
    <2>2. PICK end : end = anchor.at + Len(line.text)
      OBVIOUS
    <2>3. (end % BUFFER_WIDTH) + 1 < BUFFER_WIDTH /\ tty.final + 2 < BufSize
      BY <1>1, <1>4, <2>1, <2>2 DEF Types
    <2> QED
      BY <2>2, <2>3 DEF RoomInRow
  <1>5. ASSUME m = ENDL
        PROVE  anchor.at + Len(line.text) # Last
    <2>1. PICK end : end = anchor.at + Len(line.text)
      OBVIOUS
    <2>2. end # Last
      BY <1>1, <1>5, <2>1 DEF Types
    <2> QED
      BY <2>1, <2>2
  <1> QED
    BY <1>2, <1>3, <1>4, <1>5

LineAfter(m) == IF tty.canonical THEN Edited(m) ELSE NoLine
ExpectedAfter(m) ==
  IF ~tty.canonical THEN <<m>> ELSE IF m = ENDL THEN Append(line.text, ENDL) ELSE expected
AnchorAfter(m, s) == IF m \in {ENDL, "etx"} \/ ~tty.canonical THEN Anchor(s) ELSE anchor

\* What the key leads to.
Outcome(m, st, t2, s2, g2) ==
  /\ st = State(t2, s2, g2)
  /\ Leads(tty, screen, line, expected, anchor, t2, s2, LineAfter(m), ExpectedAfter(m), AnchorAfter(m, s2))

\* A key that gives one character.
LEMMA OneCharacter ==
  ASSUME NEW st, NEW m, m \notin {"left", "right"}
  PROVE  AfterAll(st, Characters(m)) = write_to_keyboard_buffer(st, m)
  <1>1. PICK chars : chars = Characters(m)
    OBVIOUS
  <1>2. chars = <<m>>
    BY <1>1 DEF Characters
  <1>3. Len(chars) = 1 /\ chars[1] = m
    BY <1>2
  <1> QED
    BY <1>1, <1>3, AfterOne

\* An arrow that gives three.
LEMMA ArrowCharacters ==
  ASSUME NEW t \in TTYs, t.canonical, NEW s, NEW g, NEW m \in {"left", "right"}
  PROVE  AfterAll(State(t, s, g), Characters(m)) =
           Present(handle_ansi_escape_sequence(State(t, s, g), IF m = "left" THEN "D" ELSE "C"))
  <1>1. PICK chars, a : chars = Characters(m) /\ a = IF m = "left" THEN "D" ELSE "C"
    OBVIOUS
  <1>2. chars = <<"esc", "[", a>> /\ a \in {"C", "D"}
    BY <1>1 DEF Characters
  <1>3. Len(chars) = 3 /\ chars[1] = "esc" /\ chars[2] = "[" /\ chars[3] = a
    BY <1>2
  <1>4. AfterAll(State(t, s, g), chars) = write_to_keyboard_buffer(write_to_keyboard_buffer(
          write_to_keyboard_buffer(State(t, s, g), "esc"), "["), a)
    BY <1>3, AfterThree
  <1> QED
    BY <1>1, <1>2, <1>4, ArrowIs

\* The line editor is at the cursor of the line.
LEMMA SamePlace ==
  ASSUME NEW t, NEW s, NEW l, NEW e, NEW a, Sound(t, s, l, e, a), t.canonical, e = <<>>
  PROVE  /\ t \in TTYs /\ t.pos \in Nat /\ t.final \in Nat /\ l.cursor \in Nat
         /\ t.pos = l.cursor /\ t.final = Len(l.text) /\ t.pos <= t.final /\ t.esc = <<>>
  <1>1. t \in TTYs /\ l \in Lines /\ Holds(t, l, e)
    BY DEF Sound
  <1>2. ~t.newline
    BY <1>1, NotEnded
  <1>3. t.final \in Nat /\ t.final \in 0 .. BufSize - 1 /\ t.pos \in Nat /\ t.esc = <<>>
    BY <1>1, TTYFields, Widths
  <1>4. l.text = Read(t.buffer, t.final) /\ t.pos = l.cursor /\ t.pos <= t.final
    BY <1>1, <1>2 DEF Holds
  <1>5. Len(l.text) = t.final
    BY <1>3, <1>4, ReadIs
  <1> QED
    BY <1>1, <1>3, <1>4, <1>5

\* A backspace does what it means, also at the start of the line.
LEMMA BackspaceDone ==
  ASSUME Sound(tty, screen, line, expected, anchor), tty.canonical, expected = <<>>
  PROVE  \E t2, s2 : Outcome("bs", AfterAll(State(tty, screen, FALSE), Characters("bs")), t2, s2, FALSE)
  <1>1. AfterAll(State(tty, screen, FALSE), Characters("bs")) =
          write_to_keyboard_buffer(State(tty, screen, FALSE), "bs")
    BY OneCharacter
  <1>2. tty.pos = line.cursor /\ line.cursor \in Nat /\ tty.esc = <<>>
    BY SamePlace
  <1>3. ExpectedAfter("bs") = expected /\ (\A s : AnchorAfter("bs", s) = anchor) /\ LineAfter("bs") = Edited("bs")
    BY DEF ExpectedAfter, AnchorAfter, LineAfter, ENDL
  <1>4. CASE line.cursor > 0
    <2>1. PICK l2 : l2 =
           [text |-> SubSeq(line.text, 1, line.cursor - 1) \o SubSeq(line.text, line.cursor + 1, Len(line.text)),
            cursor |-> line.cursor - 1]
      OBVIOUS
    <2>2. Edited("bs") = l2
      BY <1>4, <2>1 DEF Edited, Letter, ENDL
    <2>3. \E t2, s2 : /\ write_to_keyboard_buffer(State(tty, screen, FALSE), "bs") = State(t2, s2, FALSE)
                      /\ Leads(tty, screen, line, expected, anchor, t2, s2, l2, expected, anchor)
      BY <1>4, <2>1, BackspaceTyped
    <2>4. PICK t2, s2 : /\ AfterAll(State(tty, screen, FALSE), Characters("bs")) = State(t2, s2, FALSE)
                        /\ Leads(tty, screen, line, expected, anchor, t2, s2, l2, expected, anchor)
      BY <1>1, <2>3
    <2>5. Outcome("bs", AfterAll(State(tty, screen, FALSE), Characters("bs")), t2, s2, FALSE)
      BY <1>3, <2>2, <2>4 DEF Outcome
    <2> QED
      BY <2>5
  <1>5. CASE ~(line.cursor > 0)
    <2>1. Edited("bs") = line
      BY <1>5 DEF Edited, Letter, ENDL
    <2>2. tty.pos = 0
      BY <1>2, <1>5
    <2>3. write_to_keyboard_buffer(State(tty, screen, FALSE), "bs") = State(MadePresent(tty), screen, FALSE)
      BY <1>2, <2>2, BackspaceIs
    <2>4. Leads(tty, screen, line, expected, anchor, MadePresent(tty), screen, line, expected, anchor)
      BY NothingTyped
    <2>5. Outcome("bs", AfterAll(State(tty, screen, FALSE), Characters("bs")), MadePresent(tty), screen, FALSE)
      BY <1>1, <1>3, <2>1, <2>3, <2>4 DEF Outcome
    <2> QED
      BY <2>5
  <1> QED
    BY <1>4, <1>5

\* So does the left arrow.
LEMMA LeftDone ==
  ASSUME Sound(tty, screen, line, expected, anchor), tty.canonical, expected = <<>>
  PROVE  \E t2, s2 : Outcome("left", AfterAll(State(tty, screen, FALSE), Characters("left")), t2, s2, FALSE)
  <1>1. AfterAll(State(tty, screen, FALSE), Characters("left")) =
          Present(handle_ansi_escape_sequence(State(tty, screen, FALSE), "D"))
    BY SamePlace, ArrowCharacters
  <1>2. tty.pos = line.cursor /\ line.cursor \in Nat
    BY SamePlace
  <1>3. /\ ExpectedAfter("left") = expected /\ (\A s : AnchorAfter("left", s) = anchor)
        /\ LineAfter("left") = Edited("left")
    BY DEF ExpectedAfter, AnchorAfter, LineAfter, ENDL
  <1>4. CASE line.cursor > 0
    <2>1. PICK l2 : l2 = [line EXCEPT !.cursor = line.cursor - 1]
      OBVIOUS
    <2>2. Edited("left") = l2
      BY <1>4, <2>1 DEF Edited, Letter, ENDL
    <2>3. \E t2, s2 : /\ Present(handle_ansi_escape_sequence(State(tty, screen, FALSE), "D")) = State(t2, s2, FALSE)
                      /\ Leads(tty, screen, line, expected, anchor, t2, s2, l2, expected, anchor)
      BY <1>4, <2>1, LeftTyped
    <2>4. PICK t2, s2 : /\ AfterAll(State(tty, screen, FALSE), Characters("left")) = State(t2, s2, FALSE)
                        /\ Leads(tty, screen, line, expected, anchor, t2, s2, l2, expected, anchor)
      BY <1>1, <2>3
    <2>5. Outcome("left", AfterAll(State(tty, screen, FALSE), Characters("left")), t2, s2, FALSE)
      BY <1>3, <2>2, <2>4 DEF Outcome
    <2> QED
      BY <2>5
  <1>5. CASE ~(line.cursor > 0)
    <2>1. Edited("left") = line
      BY <1>5 DEF Edited, Letter, ENDL
    <2>2. ~(tty.pos > 0)
      BY <1>2, <1>5
    <2>3. Present(handle_ansi_escape_sequence(State(tty, screen, FALSE), "D")) =
            State(MadePresent(tty), screen, FALSE)
      BY <2>2, LeftIs
    <2>4. Leads(tty, screen, line, expected, anchor, MadePresent(tty), screen, line, expected, anchor)
      BY NothingTyped
    <2>5. Outcome("left", AfterAll(State(tty, screen, FALSE), Characters("left")), MadePresent(tty), screen, FALSE)
      BY <1>1, <1>3, <2>1, <2>3, <2>4 DEF Outcome
    <2> QED
      BY <2>5
  <1> QED
    BY <1>4, <1>5

\* So does the right arrow, also at the end of the line.
LEMMA RightDone ==
  ASSUME Sound(tty, screen, line, expected, anchor), tty.canonical, expected = <<>>
  PROVE  \E t2, s2 : Outcome("right", AfterAll(State(tty, screen, FALSE), Characters("right")), t2, s2, FALSE)
  <1>1. AfterAll(State(tty, screen, FALSE), Characters("right")) =
          Present(handle_ansi_escape_sequence(State(tty, screen, FALSE), "C"))
    BY SamePlace, ArrowCharacters
  <1>2. tty.pos = line.cursor /\ tty.final = Len(line.text)
    BY SamePlace
  <1>3. /\ ExpectedAfter("right") = expected /\ (\A s : AnchorAfter("right", s) = anchor)
        /\ LineAfter("right") = Edited("right")
    BY DEF ExpectedAfter, AnchorAfter, LineAfter, ENDL
  <1>4. CASE line.cursor < Len(line.text)
    <2>1. PICK l2 : l2 = [line EXCEPT !.cursor = line.cursor + 1]
      OBVIOUS
    <2>2. Edited("right") = l2
      BY <1>4, <2>1 DEF Edited, Letter, ENDL
    <2>3. \E t2, s2 : /\ Present(handle_ansi_escape_sequence(State(tty, screen, FALSE), "C")) = State(t2, s2, FALSE)
                      /\ Leads(tty, screen, line, expected, anchor, t2, s2, l2, expected, anchor)
      BY <1>4, <2>1, RightTyped
    <2>4. PICK t2, s2 : /\ AfterAll(State(tty, screen, FALSE), Characters("right")) = State(t2, s2, FALSE)
                        /\ Leads(tty, screen, line, expected, anchor, t2, s2, l2, expected, anchor)
      BY <1>1, <2>3
    <2>5. Outcome("right", AfterAll(State(tty, screen, FALSE), Characters("right")), t2, s2, FALSE)
      BY <1>3, <2>2, <2>4 DEF Outcome
    <2> QED
      BY <2>5
  <1>5. CASE ~(line.cursor < Len(line.text))
    <2>1. Edited("right") = line
      BY <1>5 DEF Edited, Letter, ENDL
    <2>2. ~(tty.pos < tty.final)
      BY <1>2, <1>5
    <2>3. Present(handle_ansi_escape_sequence(State(tty, screen, FALSE), "C")) =
            State(MadePresent(tty), screen, FALSE)
      BY <2>2, RightIs
    <2>4. Leads(tty, screen, line, expected, anchor, MadePresent(tty), screen, line, expected, anchor)
      BY NothingTyped
    <2>5. Outcome("right", AfterAll(State(tty, screen, FALSE), Characters("right")), MadePresent(tty), screen, FALSE)
      BY <1>1, <1>3, <2>1, <2>3, <2>4 DEF Outcome
    <2> QED
      BY <2>5
  <1> QED
    BY <1>4, <1>5

\* A key ends no read but with a signal, and it finds nobody ready.
LEMMA KeyTyped ==
  ASSUME Rules = AllRules, Sound(tty, screen, line, expected, anchor), NEW key, Types(key),
         NEW m, m = Meaning(key), m \in {"c", "C", "etx", ENDL, "bs", "esc", "left", "right"}
  PROVE  \E t2, s2, g2 : Outcome(m, AfterAll(State(tty, screen, FALSE), Characters(m)), t2, s2, g2)
  <1>1. expected = <<>>
    BY Ruled
  <1>2. m \notin {"left", "right"} =>
          AfterAll(State(tty, screen, FALSE), Characters(m)) =
            write_to_keyboard_buffer(State(tty, screen, FALSE), m)
    BY OneCharacter
  <1>3. CASE ~tty.canonical
    <2>1. m \in Letters \cup {"bs", "esc"}
      BY <1>3, Ruled DEF Letters
    <2>2. PICK e2 : e2 = <<m>>
      OBVIOUS
    <2>3. \E t2, s2 : /\ write_to_keyboard_buffer(State(tty, screen, FALSE), m) = State(t2, s2, FALSE)
                      /\ Leads(tty, screen, line, expected, anchor, t2, s2, NoLine, e2, Anchor(s2))
      BY <1>1, <1>3, <2>1, <2>2, RawTyped
    <2>4. LineAfter(m) = NoLine /\ ExpectedAfter(m) = e2 /\ \A s : AnchorAfter(m, s) = Anchor(s)
      BY <1>3, <2>2 DEF LineAfter, ExpectedAfter, AnchorAfter
    <2>5. m \notin {"left", "right"}
      BY <2>1 DEF Letters
    <2> QED
      BY <1>2, <2>3, <2>4, <2>5 DEF Outcome
  <1>4. CASE tty.canonical /\ m \in Letters
    <2>1. RoomInRow(anchor, line) /\ tty.final + 2 < BufSize
      BY <1>4, Ruled
    <2>2. PICK l2 : l2 =
           [text |-> SubSeq(line.text, 1, line.cursor) \o <<m>> \o SubSeq(line.text, line.cursor + 1, Len(line.text)),
            cursor |-> line.cursor + 1]
      OBVIOUS
    <2>3. \E t2, s2 : /\ write_to_keyboard_buffer(State(tty, screen, FALSE), m) = State(t2, s2, FALSE)
                      /\ Leads(tty, screen, line, expected, anchor, t2, s2, l2, expected, anchor)
      BY <1>1, <1>4, <2>1, <2>2, LetterTyped, Zenon
    <2>4. LineAfter(m) = l2 /\ ExpectedAfter(m) = expected /\ (\A s : AnchorAfter(m, s) = anchor)
      BY <1>4, <2>2 DEF LineAfter, ExpectedAfter, AnchorAfter, Edited, Letter, Letters, ENDL
    <2>5. m \notin {"left", "right"}
      BY <1>4 DEF Letters
    <2> QED
      BY <1>2, <2>3, <2>4, <2>5 DEF Outcome
  <1>5. CASE tty.canonical /\ m = ENDL
    <2>1. anchor.at + Len(line.text) # Last
      BY <1>5, Ruled
    <2>2. PICK e2 : e2 = Append(line.text, ENDL)
      OBVIOUS
    <2>3. \E t2, s2 : /\ write_to_keyboard_buffer(State(tty, screen, FALSE), m) = State(t2, s2, FALSE)
                      /\ Leads(tty, screen, line, expected, anchor, t2, s2, NoLine, e2, Anchor(s2))
      BY <1>1, <1>5, <2>1, <2>2, EnterTyped
    <2>4. LineAfter(m) = NoLine /\ ExpectedAfter(m) = e2 /\ (\A s : AnchorAfter(m, s) = Anchor(s))
      BY <1>5, <2>2 DEF LineAfter, ExpectedAfter, AnchorAfter, Edited, Letter, ENDL
    <2>5. m \notin {"left", "right"}
      BY <1>5 DEF ENDL
    <2> QED
      BY <1>2, <2>3, <2>4, <2>5 DEF Outcome
  <1>6. CASE tty.canonical /\ m = "etx"
    <2>1. line.text = <<>>
      BY <1>6, Ruled
    <2>2. \E t2, s2 : /\ write_to_keyboard_buffer(State(tty, screen, FALSE), m) = State(t2, s2, TRUE)
                      /\ Leads(tty, screen, line, expected, anchor, t2, s2, line, expected, Anchor(s2))
      BY <1>1, <1>6, <2>1, InterruptTyped
    <2>3. LineAfter(m) = line /\ ExpectedAfter(m) = expected /\ (\A s : AnchorAfter(m, s) = Anchor(s))
      BY <1>6 DEF LineAfter, ExpectedAfter, AnchorAfter, Edited, Letter, ENDL
    <2> QED
      BY <1>2, <1>6, <2>2, <2>3 DEF Outcome
  <1>7. CASE tty.canonical /\ m = "bs"
    BY <1>1, <1>7, BackspaceDone
  <1>8. CASE tty.canonical /\ m = "left"
    BY <1>1, <1>8, LeftDone
  <1>9. CASE tty.canonical /\ m = "right"
    BY <1>1, <1>9, RightDone
  <1>10. tty.canonical => m # "esc"
    BY Ruled
  <1> QED
    BY <1>3, <1>4, <1>5, <1>6, <1>7, <1>8, <1>9, <1>10 DEF Letters

-----------------------------------------------------------------------------
(* The steps                                                               *)

\* The parts of the invariant.
LEMMA Parts ==
  IInv <=> /\ Sound(tty, screen, line, expected, anchor)
           /\ Wired(flags, wire, held) /\ (Coming(wire) => Types(wire.key))
           /\ Waiting /\ faithful = TRUE
  BY DEF IInv, Sound

\* The same after a step.
LEMMA PartsNext ==
  ASSUME Sound(tty, screen, line, expected, anchor)', Wired(flags, wire, held)',
         Coming(wire)' => Types(wire.key)', Waiting', faithful' = TRUE
  PROVE  IInv'
  BY DEF IInv, Sound

\* What was not touched.
LEMMA SoundKept ==
  ASSUME Sound(tty, screen, line, expected, anchor),
         UNCHANGED <<tty, screen, line, expected, anchor>>
  PROVE  Sound(tty, screen, line, expected, anchor)'
  BY DEF Sound

\* Flags and wire go on agreeing when nothing touches them.
LEMMA WiredKept ==
  ASSUME Wired(flags, wire, held), UNCHANGED <<flags, wire, held>>
  PROVE  Wired(flags, wire, held)'
  BY DEF Wired

\* A key that may be typed may still be.
LEMMA TypesKept ==
  ASSUME UNCHANGED <<tty, line, expected, anchor, held>>, NEW k, wire'.key = k, Types(k)
  PROVE  Types(wire.key)'
  BY DEF Types, Meaning, Letter, Keeps

\* A reader goes on waiting.
LEMMA WaitingKept ==
  ASSUME Waiting, UNCHANGED <<tty, reader>>
  PROVE  Waiting'
  BY DEF Waiting, tty_is_ready

\* Who is not running waits with room for the line, and after an interrupt too.
LEMMA WaitingFor ==
  ASSUME Waiting, NEW running \in BOOLEAN, tty_is_ready(tty) => tty_is_ready(tty') \/ running,
         reader' = IF running THEN [reader EXCEPT !.state = "running"]
                   ELSE IF reader.state = "asleep" /\ tty_is_ready(tty')
                   THEN [reader EXCEPT !.state = "ready"] ELSE reader
  PROVE  Waiting'
  <1>1. /\ reader = [state |-> reader.state, count |-> reader.count]
        /\ reader.state \in {"running", "asleep", "ready"} /\ reader.count \in Nat
        /\ reader.state # "running" => reader.count = BufSize
        /\ reader.state = "ready" => tty_is_ready(tty)
    BY DEF Waiting
  <1>2. /\ reader' = [state |-> reader'.state, count |-> reader.count]
        /\ reader'.state = IF running THEN "running"
                           ELSE IF reader.state = "asleep" /\ tty_is_ready(tty') THEN "ready" ELSE reader.state
        /\ reader'.count = reader.count
    <2>1. \A x : [reader EXCEPT !.state = x] = [state |-> x, count |-> reader.count]
      BY <1>1
    <2> QED
      BY <1>1, <2>1
  <1>3. reader' \in [state : {"running", "asleep", "ready"}, count : Nat]
    BY <1>1, <1>2
  <1>4. reader'.state # "running" => reader'.count = BufSize
    BY <1>1, <1>2
  <1>5. reader'.state = "ready" => tty_is_ready(tty')
    BY <1>1, <1>2
  <1> QED
    BY <1>3, <1>4, <1>5 DEF Waiting, tty_is_ready

\* The interrupt of a byte, taken apart.
LEMMA Interrupted ==
  ASSUME keyboard_interrupt_handler
  PROVE  \E d, st : /\ wire # NoKey /\ d = decoded(Head(wire.left))
                    /\ st = AfterAll(State(tty, screen, FALSE), d.chars)
                    /\ flags' = d.flags /\ tty' = st.t /\ screen' = st.s /\ wire' = Rest(wire)
                    /\ reader' = IF st.signal THEN [reader EXCEPT !.state = "running"]
                                 ELSE IF reader.state = "asleep" /\ tty_is_ready(st.t)
                                 THEN [reader EXCEPT !.state = "ready"] ELSE reader
                    /\ IF Completed THEN Typed(wire.key, st) ELSE UNCHANGED <<held, line, expected, anchor>>
                    /\ UNCHANGED faithful
  BY DEF keyboard_interrupt_handler, Rest, State

\* A byte without a character does nothing to the line.
LEMMA NothingDone ==
  ASSUME NEW d, d.chars = <<>>, NEW st, st = AfterAll(State(tty, screen, FALSE), d.chars)
  PROVE  st.t = tty /\ st.s = screen /\ st.signal = FALSE
  <1>1. Len(d.chars) = 0
    OBVIOUS
  <1>2. st = State(tty, screen, FALSE)
    BY <1>1, AfterNone
  <1> QED
    BY <1>2 DEF State

\* The keyboard interrupt keeps the invariant.
LEMMA InterruptKeeps ==
  ASSUME IInv, Rules = AllRules, keyboard_interrupt_handler
  PROVE  IInv'
  <1>1. /\ Sound(tty, screen, line, expected, anchor) /\ Wired(flags, wire, held)
        /\ Coming(wire) => Types(wire.key)
        /\ Waiting /\ faithful = TRUE
    BY Parts
  <1>2. PICK d, st :
          /\ wire # NoKey /\ d = decoded(Head(wire.left))
          /\ st = AfterAll(State(tty, screen, FALSE), d.chars)
          /\ flags' = d.flags /\ tty' = st.t /\ screen' = st.s /\ wire' = Rest(wire)
          /\ reader' = IF st.signal THEN [reader EXCEPT !.state = "running"]
                       ELSE IF reader.state = "asleep" /\ tty_is_ready(st.t)
                       THEN [reader EXCEPT !.state = "ready"] ELSE reader
          /\ IF Completed THEN Typed(wire.key, st) ELSE UNCHANGED <<held, line, expected, anchor>>
          /\ UNCHANGED faithful
    BY Interrupted
  <1>3. Passes(d) \/ Toggles(d) \/ Strikes(d)
    BY <1>1, <1>2, ByteTaken
  <1>4. CASE Passes(d)
    <2>1. UNCHANGED <<tty, screen, held, line, expected, anchor>> /\ st.signal = FALSE
      BY <1>2, <1>4, NothingDone DEF Passes
    <2>2. Sound(tty, screen, line, expected, anchor)'
      BY <1>1, <2>1, SoundKept
    <2>3. Wired(flags, wire, held)'
      BY <1>2, <1>4, <2>1 DEF Passes, Wired
    <2>4. Coming(wire)' => Types(wire.key)'
      <3>1. SUFFICES ASSUME Coming(Rest(wire))
                     PROVE  Types(wire.key)'
        BY <1>2 DEF Coming
      <3>2. Types(wire.key) /\ wire'.key = wire.key
        BY <1>1, <1>2, <1>4, <3>1 DEF Passes
      <3> QED
        BY <2>1, <3>2, TypesKept
    <2>5. Waiting'
      BY <1>1, <1>2, <2>1, WaitingFor
    <2> QED
      BY <1>1, <1>2, <2>2, <2>3, <2>4, <2>5, PartsNext
  <1>5. CASE Toggles(d)
    <2>1. /\ UNCHANGED <<tty, screen, line, expected, anchor>> /\ st.signal = FALSE
          /\ held' = Toggled(wire.key)
      BY <1>2, <1>5, NothingDone DEF Toggles, Typed, Toggled
    <2>2. Sound(tty, screen, line, expected, anchor)'
      BY <1>1, <2>1, SoundKept
    <2>3. Wired(flags, wire, held)'
      BY <1>2, <1>5, <2>1 DEF Toggles, Wired
    <2>4. ~Coming(wire)'
      BY <1>2, <1>5 DEF Toggles, Coming
    <2>5. Waiting'
      BY <1>1, <1>2, <2>1, WaitingFor
    <2> QED
      BY <1>1, <1>2, <2>2, <2>3, <2>4, <2>5, PartsNext
  <1>6. CASE Strikes(d)
    <2>1. PICK m : m = Meaning(wire.key)
      OBVIOUS
    <2>2. Types(wire.key) /\ m \in {"c", "C", "etx", ENDL, "bs", "esc", "left", "right"}
      BY <1>1, <1>6, <2>1 DEF Strikes
    <2>3. expected = <<>>
      BY <2>2, Ruled
    <2>4. PICK t2, s2, g2 : Outcome(m, AfterAll(State(tty, screen, FALSE), Characters(m)), t2, s2, g2)
      BY <1>1, <2>1, <2>2, KeyTyped
    <2>5. st = State(t2, s2, g2)
      BY <1>2, <1>6, <2>1, <2>4 DEF Outcome, Strikes
    <2>6. tty' = t2 /\ screen' = s2 /\ st.signal = g2
      BY <1>2, <2>5 DEF State
    <2>7. line' = LineAfter(m) /\ expected' = ExpectedAfter(m) /\ anchor' = AnchorAfter(m, s2) /\ held' = held
      BY <1>2, <1>6, <2>1, <2>6 DEF Strikes, Typed, LineAfter, ExpectedAfter, AnchorAfter
    <2>8. Sound(tty, screen, line, expected, anchor)'
      BY <2>4, <2>6, <2>7 DEF Outcome, Leads, Sound
    <2>9. Wired(flags, wire, held)'
      BY <1>2, <1>6, <2>7 DEF Strikes, Wired
    <2>10. ~Coming(wire)'
      BY <1>2, <1>6 DEF Strikes, Coming
    <2>11. Waiting'
      <3>1. ~tty_is_ready(tty)
        BY <1>1, <2>3, NotEnded DEF Sound, tty_is_ready
      <3>2. reader.state # "ready" /\ reader.state \in {"running", "asleep"}
        BY <1>1, <3>1 DEF Waiting
      <3> QED
        BY <1>1, <1>2, <3>1, WaitingFor
    <2> QED
      BY <1>1, <1>2, <2>8, <2>9, <2>10, <2>11, PartsNext
  <1> QED
    BY <1>3, <1>4, <1>5, <1>6

\* A key is struck, or held: its bytes are on the wire.
LEMMA SentFirst ==
  ASSUME NEW key \in DOMAIN KeyCode, NEW b, b = LastByte(key)
  PROVE  /\ key \notin Modifiers => Sent(KeyCode[key] \o ReleaseCode(key), {}, key, held)
         /\ key \in Modifiers \ held => Sent(KeyCode[key], {}, key, held)
         /\ key \in held => Sent(ReleaseCode(key), {}, key, held)
  <1>1. CASE Len(KeyCode[key]) = 1
    <2>1. KeyCode[key] = <<b>> /\ ReleaseCode(key) = <<"F0", b>>
      BY <1>1, KeyBytes
    <2>2. <<b>> \o <<"F0", b>> = <<b, "F0", b>>
      BY Glued
    <2> QED
      BY <1>1, <2>1, <2>2, SentOne DEF OneLeft
  <1>2. CASE Len(KeyCode[key]) # 1
    <2>1. KeyCode[key] = <<"E0", b>> /\ ReleaseCode(key) = <<"E0", "F0", b>>
      BY <1>2, KeyBytes
    <2>2. <<"E0", b>> \o <<"E0", "F0", b>> = <<"E0", b, "E0", "F0", b>>
      BY GluedToFive
    <2> QED
      BY <1>2, <2>1, <2>2, SentTwo DEF TwoLeft
  <1> QED
    BY <1>1, <1>2

\* The wire is empty.
LEMMA NotSending ==
  ASSUME Wired(flags, wire, held), wire = NoKey
  PROVE  held \in Helds /\ flags = FlagsOf(held) /\ ~Coming(wire)
  <1>1. "none" \notin DOMAIN KeyCode
    BY KeyNames
  <1> QED
    BY <1>1 DEF Wired, NoKey, Coming

\* A key that is struck keeps the invariant.
LEMMA StrikeKeeps ==
  ASSUME IInv, NEW key \in Keys, Strike(key)
  PROVE  IInv'
  <1>1. /\ Sound(tty, screen, line, expected, anchor) /\ Wired(flags, wire, held)
        /\ Coming(wire) => Types(wire.key)
        /\ Waiting /\ faithful = TRUE
    BY Parts
  <1>2. key \in DOMAIN KeyCode /\ key \notin Modifiers /\ wire = NoKey /\ Types(key)
    BY TerminalAssumption DEF Strike
  <1>3. /\ wire' = Sending(key, KeyCode[key] \o ReleaseCode(key))
        /\ UNCHANGED <<flags, tty, screen, reader, held, line, expected, anchor, faithful>>
    BY DEF Strike, Sending
  <1>4. Wired(flags, wire, held)'
    <2>1. held \in Helds /\ flags = FlagsOf(held) \cup {} /\ {} \in {{}, {"escape"}, {"release"}}
      BY <1>1, <1>2, NotSending
    <2>2. Sent(KeyCode[key] \o ReleaseCode(key), {}, key, held)
      BY <1>2, SentFirst
    <2>3. PICK w : w = Sending(key, KeyCode[key] \o ReleaseCode(key))
      OBVIOUS
    <2>4. Wired(flags, w, held)
      BY <1>2, <2>1, <2>2, <2>3, WiredAs
    <2> QED
      BY <1>3, <2>3, <2>4 DEF Wired
  <1>5. Types(wire.key)'
    <2>1. wire'.key = key
      BY <1>3 DEF Sending
    <2> QED
      BY <1>2, <1>3, <2>1, TypesKept
  <1>6. Sound(tty, screen, line, expected, anchor)' /\ Waiting' /\ faithful' = TRUE
    BY <1>1, <1>3, SoundKept, WaitingKept
  <1> QED
    BY <1>4, <1>5, <1>6, PartsNext

\* A key that is held or let go keeps it.
LEMMA HoldKeeps ==
  ASSUME IInv, Rules = AllRules, NEW key \in Keys, Hold(key)
  PROVE  IInv'
  <1>1. /\ Sound(tty, screen, line, expected, anchor) /\ Wired(flags, wire, held)
        /\ Coming(wire) => Types(wire.key)
        /\ Waiting /\ faithful = TRUE
    BY Parts
  <1>2. key \in DOMAIN KeyCode /\ key \in Modifiers \cup {"caps"} /\ wire = NoKey
    BY TerminalAssumption DEF Hold
  <1>3. PICK left : left = IF key = "caps" THEN KeyCode[key] \o ReleaseCode(key)
                           ELSE IF key \in held THEN ReleaseCode(key) ELSE KeyCode[key]
    OBVIOUS
  <1>4. /\ wire' = Sending(key, left)
        /\ UNCHANGED <<flags, tty, screen, reader, held, line, expected, anchor, faithful>>
    BY <1>3 DEF Hold, Sending
  <1>5. key \in Modifiers \ held => Alone(key, held)
    <2>1. \A pair \in Pairs : key \in pair => held \cap pair \subseteq {key}
      BY DEF Hold, Keeps, AllRules
    <2> QED
      BY <2>1 DEF Alone
  <1>6. Sent(left, {}, key, held)
    <2>1. "caps" \notin Modifiers
      BY KeyNames
    <2> QED
      BY <1>2, <1>3, <2>1, SentFirst
  <1>7. Wired(flags, wire, held)'
    <2>1. held \in Helds /\ flags = FlagsOf(held) \cup {} /\ {} \in {{}, {"escape"}, {"release"}}
      BY <1>1, <1>2, NotSending
    <2>2. PICK w : w = Sending(key, left)
      OBVIOUS
    <2>3. Wired(flags, w, held)
      BY <1>2, <1>5, <1>6, <2>1, <2>2, WiredAs
    <2> QED
      BY <1>4, <2>2, <2>3 DEF Wired
  <1>8. ~Coming(wire)'
    BY <1>2, <1>4 DEF Coming, Sending
  <1>9. Sound(tty, screen, line, expected, anchor)' /\ Waiting' /\ faithful' = TRUE
    BY <1>1, <1>4, SoundKept, WaitingKept
  <1> QED
    BY <1>7, <1>8, <1>9, PartsNext

\* The lesser one of two numbers.
LEMMA LesserOfTwo ==
  ASSUME NEW a \in Nat, NEW b \in Nat, b <= a
  PROVE  Min({a, b}) = b
  <1>1. PICK m : m = Min({a, b})
    OBVIOUS
  <1>2. \E n \in {a, b} : \A k \in {a, b} : n <= k
    OBVIOUS
  <1>3. m \in {a, b} /\ \A k \in {a, b} : m <= k
    BY <1>1, <1>2 DEF Min
  <1>4. m = b
    BY <1>3
  <1> QED
    BY <1>1, <1>4

\* What is ready to be read is what was typed.
LEMMA ReadyLine ==
  ASSUME Sound(tty, screen, line, expected, anchor), tty_is_ready(tty), NEW n, n = written_characters_count
  PROVE  n \in Nat /\ n < BufSize /\ n # 0 /\ expected = Read(tty.buffer, n)
  <1>1. tty \in TTYs /\ Holds(tty, line, expected)
    BY DEF Sound
  <1>2. tty.final \in 0 .. BufSize - 1 /\ BufSize \in Nat /\ BufSize >= 3
    BY <1>1, TTYFields, Widths
  <1>3. CASE tty.canonical
    <2>1. tty.newline /\ n = tty.final
      BY <1>3 DEF tty_is_ready, written_characters_count
    <2>2. tty.final # 0 /\ expected = Read(tty.buffer, tty.final)
      BY <1>1, <1>3, <2>1 DEF Holds
    <2> QED
      BY <1>2, <2>1, <2>2
  <1>4. CASE ~tty.canonical
    <2>1. tty.present
      BY <1>4 DEF tty_is_ready
    <2>2. ~tty.newline /\ expected = Read(tty.buffer, 1)
      BY <1>1, <1>4, <2>1 DEF Holds
    <2>3. n = 1
      BY <2>1, <2>2 DEF written_characters_count
    <2> QED
      BY <1>2, <2>2, <2>3
  <1> QED
    BY <1>3, <1>4

\* The empty buffer spells the empty line.
LEMMA EmptyText ==
  ASSUME NEW b
  PROVE  NoLine.text = Read(b, 0)
  BY NoLineIs DEF Read

\* Nothing is in the line editor.
LEMMA NothingHeld ==
  ASSUME NEW t \in TTYs, t.final = 0, t.pos = 0, ~t.newline
  PROVE  ~t.present => Holds(t, NoLine, <<>>)
  <1>1. NoLine.text = Read(t.buffer, t.final) /\ NoLine.cursor = 0
    BY EmptyText, NoLineIs
  <1>2. t.final + 1 < BufSize /\ t.pos <= t.final
    BY Widths
  <1> QED
    BY <1>1, <1>2 DEF Holds

Emptied(t) == [t EXCEPT !.newline = FALSE, !.present = FALSE, !.final = 0, !.pos = 0]
InMode(t, echo, canonical) == [t EXCEPT !.echo = echo, !.canonical = canonical]
\* The terminal after a read.
LEMMA EmptiedIs ==
  ASSUME NEW t \in TTYs, NEW t2, t2 = Emptied(t)
  PROVE  t2 \in TTYs /\ t2.final = 0 /\ t2.pos = 0 /\ ~t2.newline /\ ~t2.present
  <1>1. t2.buffer = t.buffer /\ t2.final = 0 /\ t2.pos = 0 /\ t2.newline = FALSE /\ t2.present = FALSE
        /\ t2.echo = t.echo /\ t2.canonical = t.canonical /\ t2.esc = t.esc
    BY DEF Emptied, TTYs
  <1>2. t2 = [buffer |-> t2.buffer, final |-> t2.final, pos |-> t2.pos, newline |-> t2.newline,
              present |-> t2.present, echo |-> t2.echo, canonical |-> t2.canonical, esc |-> t2.esc]
    BY DEF Emptied, TTYs
  <1>3. 0 \in 0 .. BufSize - 1 /\ 0 \in 0 .. BufSize
    BY Widths
  <1> QED
    BY <1>1, <1>2, <1>3, TTYFields DEF TTYs

\* The terminal in another mode.
LEMMA InModeIs ==
  ASSUME NEW t \in TTYs, NEW echo \in BOOLEAN, NEW canonical \in BOOLEAN, NEW t2, t2 = InMode(t, echo, canonical)
  PROVE  /\ t2 \in TTYs /\ t2.final = t.final /\ t2.pos = t.pos
         /\ t2.newline = t.newline /\ t2.present = t.present
  <1>1. t2.buffer = t.buffer /\ t2.final = t.final /\ t2.pos = t.pos /\ t2.newline = t.newline
        /\ t2.present = t.present /\ t2.echo = echo /\ t2.canonical = canonical /\ t2.esc = t.esc
    BY DEF InMode, TTYs
  <1>2. t2 = [buffer |-> t2.buffer, final |-> t2.final, pos |-> t2.pos, newline |-> t2.newline,
              present |-> t2.present, echo |-> t2.echo, canonical |-> t2.canonical, esc |-> t2.esc]
    BY DEF InMode, TTYs
  <1> QED
    BY <1>1, <1>2, TTYFields DEF TTYs

\* The delivery of a line keeps the invariant.
LEMMA DeliversKeeps ==
  ASSUME IInv, Rules = AllRules, tty_is_ready(tty), Delivers(BufSize)
  PROVE  IInv'
  <1>1. /\ Sound(tty, screen, line, expected, anchor) /\ Wired(flags, wire, held)
        /\ Coming(wire) => Types(wire.key)
        /\ Waiting /\ faithful = TRUE
    BY Parts
  <1>2. PICK n : n = written_characters_count
    OBVIOUS
  <1>3. n \in Nat /\ n < BufSize /\ n # 0 /\ expected = Read(tty.buffer, n)
    BY <1>1, <1>2, ReadyLine
  <1>4. Min({BufSize, n}) = n
    BY <1>3, LesserOfTwo, Widths
  <1>5. /\ faithful' = (faithful /\ Read(tty.buffer, n) = expected /\ n < BufSize)
        /\ tty' = Emptied(tty)
        /\ reader' = [state |-> "running", count |-> 0]
        /\ line' = NoLine /\ expected' = <<>> /\ anchor' = Anchor(screen)
        /\ UNCHANGED <<flags, wire, screen, held>>
    BY <1>2, <1>4 DEF Delivers, Read, Emptied
  <1>6. faithful' = TRUE
    BY <1>1, <1>3, <1>5
  <1>7. Sound(tty, screen, line, expected, anchor)'
    <2>1. tty \in TTYs /\ screen \in Screens
      BY <1>1 DEF Sound
    <2>2. tty' \in TTYs /\ tty'.final = 0 /\ tty'.pos = 0 /\ ~tty'.newline /\ ~tty'.present
      BY <1>5, <2>1, EmptiedIs
    <2>3. Holds(tty', NoLine, <<>>)
      BY <2>2, NothingHeld
    <2>4. Shows(screen, tty', NoLine, Anchor(screen)) /\ Anchor(screen) \in Anchors
      BY <2>1, NothingShown, AnchorIs DEF Shows
    <2> QED
      BY <1>5, <2>1, <2>2, <2>3, <2>4, NoLineIs DEF Sound
  <1>8. ~Coming(wire)'
    <2>1. expected # <<>>
      <3>1. Len(expected) = n
        BY <1>3, ReadIs
      <3> QED
        BY <1>3, <3>1
    <2>2. ~Types(wire.key)
      BY <2>1, Ruled
    <2> QED
      BY <1>1, <1>5, <2>2 DEF Coming
  <1>9. Wired(flags, wire, held)' /\ Waiting'
    <2>1. Wired(flags, wire, held)'
      BY <1>1, <1>5, WiredKept
    <2>2. Waiting'
      BY <1>5 DEF Waiting
    <2> QED
      BY <2>1, <2>2
  <1> QED
    BY <1>6, <1>7, <1>8, <1>9, PartsNext

\* A read keeps it, whether it waits or not.
LEMMA ReadKeeps ==
  ASSUME IInv, Rules = AllRules, NEW count \in {2, BufSize}, tty_read(count)
  PROVE  IInv'
  <1>1. /\ Sound(tty, screen, line, expected, anchor) /\ Wired(flags, wire, held)
        /\ Coming(wire) => Types(wire.key)
        /\ Waiting /\ faithful = TRUE
    BY Parts
  <1>2. count = BufSize
    BY DEF tty_read, Keeps, AllRules
  <1>3. CASE tty_is_ready(tty)
    BY <1>2, <1>3, DeliversKeeps DEF tty_read
  <1>4. CASE ~tty_is_ready(tty)
    <2>1. /\ reader' = [state |-> "asleep", count |-> BufSize]
          /\ UNCHANGED <<flags, wire, tty, screen, held, line, expected, anchor, faithful>>
      BY <1>2, <1>4 DEF tty_read
    <2>2. Sound(tty, screen, line, expected, anchor)' /\ Wired(flags, wire, held)'
      BY <1>1, <2>1, SoundKept, WiredKept
    <2>3. Coming(wire)' => Types(wire.key)'
      BY <1>1, <2>1, TypesKept DEF Coming
    <2>4. Waiting'
      BY <2>1, Widths DEF Waiting
    <2> QED
      BY <1>1, <2>1, <2>2, <2>3, <2>4, PartsNext
  <1> QED
    BY <1>3, <1>4

\* The end of a read that waited keeps it.
LEMMA ResumedKeeps ==
  ASSUME IInv, Rules = AllRules, read_resumed
  PROVE  IInv'
  <1>1. reader.count = BufSize /\ tty_is_ready(tty)
    BY Parts DEF read_resumed, Waiting
  <1> QED
    BY <1>1, DeliversKeeps DEF read_resumed

\* Output between lines keeps it.
LEMMA WriteKeeps ==
  ASSUME IInv, Rules = AllRules, NEW out \in Output, tty_write(out)
  PROVE  IInv'
  <1>1. /\ Sound(tty, screen, line, expected, anchor) /\ Wired(flags, wire, held)
        /\ Waiting /\ faithful = TRUE
    BY Parts
  <1>2. /\ screen \in Screens /\ wire = NoKey /\ line = NoLine /\ Within(out)
        /\ (out.action = "text" /\ out.a = "bs") \/ out.action = "D" => Cursor(screen) # 0
        /\ out.action = "C" => Cursor(screen) # Last
    <2>1. Idle /\ Within(out) /\ (out.action = "C" => Cursor(screen) # Last)
      BY DEF tty_write, Keeps, AllRules
    <2>2. (out.action = "text" /\ out.a = "bs") \/ out.action = "D" => Cursor(screen) # 0
      BY DEF tty_write, Keeps, AllRules
    <2> QED
      BY <1>1, <2>1, <2>2, EmptyLine DEF Idle, Sound
  <1>3. PICK next : next = IF out.action = "text" THEN monitor_tm_write_byte(screen, out.a)
                           ELSE handle_escape_sequence(screen, out)
    OBVIOUS
  <1>4. /\ screen' = next /\ anchor' = Anchor(next)
        /\ UNCHANGED <<flags, wire, tty, reader, held, line, expected, faithful>>
    BY <1>3 DEF tty_write
  <1>5. next \in Screens
    <2>1. out \in Texts \cup Controls
      BY TerminalAssumption
    <2>2. CASE out.action = "text"
      <3>1. out \in Texts
        BY <2>1, <2>2 DEF Controls
      <3>2. out.a \in Glyphs \cup {"bs", "cr"}
        BY <3>1 DEF Texts, Glyphs
      <3> QED
        BY <1>2, <1>3, <2>2, <3>2, ByteStays
    <2>3. CASE out.action # "text"
      <3>1. out \in Controls
        BY <2>1, <2>3 DEF Texts
      <3> QED
        BY <1>2, <1>3, <2>3, <3>1, SequenceStays
    <2> QED
      BY <2>2, <2>3
  <1>6. Sound(tty, screen, line, expected, anchor)'
    <2>1. Anchor(next) \in Anchors /\ Shown(next, NoLine, Anchor(next))
      BY <1>5, AnchorIs, NothingShown
    <2>2. tty \in TTYs /\ Holds(tty, line, expected)
      BY <1>1 DEF Sound
    <2> QED
      BY <1>2, <1>4, <1>5, <2>1, <2>2, NoLineIs DEF Sound, Shows
  <1>7. Wired(flags, wire, held)' /\ Waiting' /\ ~Coming(wire)'
    BY <1>1, <1>2, <1>4, WiredKept, WaitingKept DEF Coming
  <1> QED
    BY <1>1, <1>4, <1>6, <1>7, PartsNext

\* A change of mode between lines keeps it.
LEMMA IoctlKeeps ==
  ASSUME IInv, Rules = AllRules, NEW echo \in BOOLEAN, NEW canonical \in BOOLEAN, tty_ioctl(echo, canonical)
  PROVE  IInv'
  <1>1. /\ Sound(tty, screen, line, expected, anchor) /\ Wired(flags, wire, held)
        /\ Waiting /\ faithful = TRUE
    BY Parts
  <1>2. wire = NoKey /\ line = NoLine /\ ~tty.present /\ reader.state = "running"
    <2>1. Idle /\ ~tty.present /\ reader.state = "running"
      BY DEF tty_ioctl, Keeps, AllRules
    <2> QED
      BY <1>1, <2>1, EmptyLine DEF Idle
  <1>3. /\ tty' = InMode(tty, echo, canonical)
        /\ UNCHANGED <<flags, wire, screen, reader, held, line, expected, anchor, faithful>>
    BY DEF tty_ioctl, InMode
  <1>4. Sound(tty, screen, line, expected, anchor)'
    <2>1. /\ tty \in TTYs /\ screen \in Screens /\ anchor \in Anchors
          /\ tty.final = 0 /\ tty.pos = 0 /\ ~tty.newline /\ expected = <<>> /\ anchor = Anchor(screen)
      BY <1>1, <1>2 DEF Sound, Holds, Shows
    <2>2. tty' \in TTYs /\ tty'.final = 0 /\ tty'.pos = 0 /\ ~tty'.newline /\ ~tty'.present
      BY <1>2, <1>3, <2>1, InModeIs
    <2>3. Holds(tty', NoLine, <<>>)
      BY <2>2, NothingHeld
    <2>4. Shown(screen, NoLine, anchor)
      BY <2>1, NothingShown
    <2> QED
      BY <1>2, <1>3, <2>1, <2>2, <2>3, <2>4, NoLineIs DEF Sound, Shows
  <1>5. Wired(flags, wire, held)' /\ ~Coming(wire)'
    BY <1>1, <1>2, <1>3, WiredKept DEF Coming
  <1>6. Waiting'
    BY <1>1, <1>2, <1>3 DEF Waiting
  <1> QED
    BY <1>1, <1>3, <1>4, <1>5, <1>6, PartsNext

-----------------------------------------------------------------------------
(* The theorems                                                            *)

\* The first screen is one.
LEMMA FirstScreen ==
  ASSUME NEW s, s = ScreenWriter
  PROVE  s \in Screens
  <1>1. 0 \in Rows /\ 0 \in Cols /\ BUFFER_HEIGHT - 1 \in Rows
    BY Widths DEF Rows, Cols
  <1>2. [n \in Cells |-> Empty] \in [Cells -> Glyphs]
    BY DEF Glyphs
  <1> QED
    BY <1>1, <1>2 DEF ScreenWriter, Screens

\* The terminal is empty at first.
LEMMA FirstTerminal ==
  ASSUME Init
  PROVE  tty \in TTYs /\ tty.final = 0 /\ tty.pos = 0 /\ ~tty.newline /\ ~tty.present
  <1>1. [n \in 0 .. BufSize - 1 |-> Empty] \in Buffers
    BY DEF Buffers, Marks
  <1>2. 0 \in 0 .. BufSize - 1 /\ 0 \in 0 .. BufSize
    BY Widths
  <1> QED
    BY <1>1, <1>2 DEF Init, TTYs

\* The invariant holds at first.
LEMMA FirstState ==
  ASSUME Init
  PROVE  IInv
  <1>1. Sound(tty, screen, line, expected, anchor)
    <2>1. tty \in TTYs /\ tty.final = 0 /\ tty.pos = 0 /\ ~tty.newline /\ ~tty.present
      BY FirstTerminal
    <2>2. screen \in Screens /\ line = NoLine /\ expected = <<>> /\ anchor = Anchor(screen)
      BY FirstScreen DEF Init
    <2>3. Holds(tty, NoLine, <<>>)
      BY <2>1, NothingHeld
    <2>4. Shown(screen, NoLine, anchor) /\ anchor \in Anchors
      BY <2>2, NothingShown, AnchorIs
    <2> QED
      BY <2>1, <2>2, <2>3, <2>4, NoLineIs DEF Sound, Shows
  <1>2. Wired(flags, wire, held) /\ ~Coming(wire)
    <2>1. {} \in Helds /\ FlagsOf({}) = {}
      BY HeldPairs DEF FlagsOf
    <2>2. flags = FlagsOf({}) /\ wire = NoKey /\ held = {}
      BY <2>1 DEF Init
    <2> QED
      BY <2>1, <2>2, Unwired, NothingComing
  <1>3. Waiting /\ faithful = TRUE
    BY DEF Init, Waiting
  <1> QED
    BY <1>1, <1>2, <1>3, Parts

\* Every step keeps the invariant.
LEMMA StepKeeps ==
  ASSUME IInv, Rules = AllRules, [Next]_vars
  PROVE  IInv'
  <1>1. CASE UNCHANGED vars
    <2>1. /\ Sound(tty, screen, line, expected, anchor) /\ Wired(flags, wire, held)
          /\ Coming(wire) => Types(wire.key)
          /\ Waiting /\ faithful = TRUE
      BY Parts
    <2>2. UNCHANGED <<flags, wire, tty, screen, reader, held, line, expected, anchor, faithful>>
      BY <1>1 DEF vars
    <2>3. Coming(wire)' => Types(wire.key)'
      BY <2>1, <2>2, TypesKept DEF Coming
    <2>4. Sound(tty, screen, line, expected, anchor)' /\ Wired(flags, wire, held)' /\ Waiting'
      BY <2>1, <2>2, SoundKept, WiredKept, WaitingKept
    <2> QED
      BY <2>1, <2>2, <2>3, <2>4, PartsNext
  <1>2. CASE keyboard_interrupt_handler
    BY <1>2, InterruptKeeps
  <1>3. CASE \E key \in Keys : Strike(key) \/ Hold(key)
    BY <1>3, StrikeKeeps, HoldKeeps
  <1>4. CASE \E count \in {2, BufSize} : tty_read(count)
    BY <1>4, ReadKeeps
  <1>5. CASE read_resumed
    BY <1>5, ResumedKeeps
  <1>6. CASE \E out \in Output : tty_write(out)
    BY <1>6, WriteKeeps
  <1>7. CASE \E echo \in BOOLEAN, canonical \in BOOLEAN : tty_ioctl(echo, canonical)
    BY <1>7, IoctlKeeps
  <1> QED
    BY <1>1, <1>2, <1>3, <1>4, <1>5, <1>6, <1>7 DEF Next

\* With all the rules, the buffer and the screen hold the line that is typed, the
\* flags say which modifiers are held, and a waiting read has room for the line.
THEOREM TerminalInvariance ==
  ASSUME Rules = AllRules
  PROVE  Spec => []IInv
  <1>1. Init => IInv
    BY FirstState
  <1>2. IInv /\ [Next]_vars => IInv'
    BY StepKeeps
  <1> QED
    BY <1>1, <1>2, PTL DEF Spec

\* Neither the cursor nor a position in the buffer (src/kernel/tty.c:88-197,
\* src/drivers/monitor_text_mode.c) ever leaves its array.
THEOREM TypeCorrect ==
  ASSUME Rules = AllRules
  PROVE  Spec => []TypeOK
  <1>1. IInv => TypeOK
    <2> SUFFICES ASSUME IInv
                 PROVE  TypeOK
      OBVIOUS
    <2>1. /\ Sound(tty, screen, line, expected, anchor) /\ Wired(flags, wire, held)
          /\ Waiting /\ faithful = TRUE
      BY Parts
    <2>2. flags \subseteq {"release", "shift", "ctrl", "escape", "caps"}
      <3>1. FlagsOf(held) \subseteq {"shift", "ctrl", "caps"}
        BY FlagsAre
      <3> QED
        BY <2>1, <3>1 DEF Wired
    <2>3. /\ tty \in TTYs /\ screen \in Screens /\ line \in Lines /\ Holds(tty, line, expected)
      BY <2>1 DEF Sound
    <2>4. /\ OnScreen(screen) /\ screen.top \in Rows /\ screen.bottom \in Rows
          /\ screen.chars \in [Cells -> Glyphs]
      BY <2>3, Fields, Widths DEF OnScreen, Rows
    <2>5. /\ tty.final \in 0 .. BufSize - 1 /\ tty.pos \in 0 .. BufSize
          /\ {tty.newline, tty.present, tty.echo, tty.canonical} \subseteq BOOLEAN
      BY <2>3, TTYFields
    <2>6. line.cursor \in 0 .. Len(line.text)
      <3>1. line.cursor \in Nat /\ Len(line.text) \in Nat
        BY <2>3, LineFields
      <3>2. CASE tty.canonical /\ ~tty.newline
        <4>1. line.text = Read(tty.buffer, tty.final) /\ tty.pos = line.cursor /\ tty.pos <= tty.final
          BY <2>3, <3>2 DEF Holds
        <4>2. tty.final \in Nat
          BY <2>5, Widths
        <4>3. Len(line.text) = tty.final
          BY <4>1, <4>2, ReadIs
        <4> QED
          BY <3>1, <4>1, <4>3
      <3>3. CASE ~(tty.canonical /\ ~tty.newline)
        <4>1. line = NoLine
          BY <2>3, <3>3 DEF Holds
        <4> QED
          BY <4>1, NoLineIs
      <3> QED
        BY <3>2, <3>3
    <2>7. reader.state \in {"running", "asleep", "ready"} /\ faithful \in BOOLEAN
      BY <2>1 DEF Waiting
    <2> QED
      BY <2>2, <2>4, <2>5, <2>6, <2>7 DEF TypeOK, Glyphs
  <1> QED
    BY <1>1, TerminalInvariance, PTL

\* Every read returns the line as it was typed and edited, and once.
THEOREM LineCorrect ==
  ASSUME Rules = AllRules
  PROVE  Spec => []LineDelivered
  <1>1. IInv => LineDelivered
    BY DEF IInv, LineDelivered
  <1> QED
    BY <1>1, TerminalInvariance, PTL

\* The screen shows the line, the cursor, and nothing else behind it.
THEOREM ScreenCorrect ==
  ASSUME Rules = AllRules
  PROVE  Spec => []ScreenShowsLine
  <1>1. IInv => ScreenShowsLine
    BY DEF IInv, Shows, Shown, ScreenShowsLine
  <1> QED
    BY <1>1, TerminalInvariance, PTL
=============================================================================
