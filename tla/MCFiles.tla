------------------------------ MODULE MCFiles ------------------------------
(* A directory in the root, a file in it, and the way back.                *)
EXTENDS Files

P(absolute, dirs, name) == [absolute |-> absolute, dirs |-> dirs, name |-> name]
MCPaths == {P(FALSE, <<"d">>, "f"), P(TRUE, <<>>, "d"), P(FALSE, <<>>, "..")}
MCNames == {"f", "d", ".."}
=============================================================================
