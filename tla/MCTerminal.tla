----------------------------- MODULE MCTerminal -----------------------------
(* A small screen, and one program that writes all there is to write.      *)
EXTENDS Terminal

Text(c) == Sequence("text", c, None)
MCOutput ==
  {Text(c) : c \in {"c", ENDL, "bs", "cr"}}
  \cup {Sequence(action, None, None) : action \in {"A", "B", "C", "D", "E", "@", "P"}}
  \cup {Sequence(action, n, None) : action \in {"S", "T"}, n \in {None, 2}}
  \cup {Sequence("J", 2, None), Sequence("G", BUFFER_WIDTH - 2, None),
        Sequence("H", None, None), Sequence("H", BUFFER_HEIGHT, 2), Sequence("H", BUFFER_HEIGHT + 1, None),
        Sequence("r", 2, BUFFER_HEIGHT), Sequence("r", 1, 1), Sequence("m", 0, None)}
=============================================================================
