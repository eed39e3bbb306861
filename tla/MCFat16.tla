------------------------------ MODULE MCFat16 ------------------------------
(* A name that fits, one whose stem is too long and is stored as the       *)
(* first, and one without a dot.  Open files are interchangeable.          *)
EXTENDS Fat16, TLC

MCNames == {<<"a", ".", "t">>, <<"a", "b", ".", "t">>, <<"b">>}
MCSymmetry == Permutations(Handles)
=============================================================================
