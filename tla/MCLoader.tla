------------------------------ MODULE MCLoader ------------------------------
(* The library has two functions and an object, in one bucket of two, so   *)
(* that a look-up goes along a chain; an image starts with four cells.     *)
EXTENDS Loader, TLC

Symbol(name, value) == [name |-> name, value |-> value]
Segment(paddr, filesz, memsz) == [paddr |-> paddr, filesz |-> filesz, memsz |-> memsz]
Import(offset, name) == [offset |-> offset, name |-> name]
Strtab == [tag |-> "STRTAB", name |-> ""]
Lib(name) == [tag |-> "NEEDED", name |-> name]

MCHash == [write |-> 4, optind |-> 2, spawn |-> 6, fork |-> 8]
MCLibrary ==
  [name |-> "libc.so",
   dynsym |-> <<Symbol("write", 10), Symbol("optind", 1), Symbol("spawn", 12)>>,
   hash |-> [nbucket |-> 2, bucket |-> (0 :> 3 @@ 1 :> 0), chain |-> <<0, 1, 2>>]]

\* Text behind data and bss: the image is extended.
Shell ==
  [valid |-> TRUE, text |-> TRUE, dynamic |-> <<Lib("libc.so"), Strtab>>,
   segments |-> <<Segment(3, 3, 3), Segment(0, 2, 3)>>,
   rel_plt |-> {Import(0, "write"), Import(1, "spawn")}, rel_dyn |-> {},
   symtab |-> <<Symbol("main", 4), Symbol("_start", 3)>>]
\* An image that ends with the first four cells, and uses an object.
Small == [Shell EXCEPT !.segments = <<Segment(0, 4, 4)>>,
                       !.rel_plt = {Import(0, "spawn")},
                       !.rel_dyn = {Import(1, "optind")}]
Static == [Shell EXCEPT !.dynamic = <<Strtab>>, !.rel_plt = {}]
NoEntry == [Shell EXCEPT !.symtab = <<Symbol("main", 4)>>]
Text == [Shell EXCEPT !.valid = FALSE]
\* Those that the rules exclude.
Bare == [Shell EXCEPT !.dynamic = <<>>]
TwoLibraries == [Shell EXCEPT !.dynamic = <<Lib("libc.so"), Lib("libm.so"), Strtab>>]
OtherLibrary == [Shell EXCEPT !.dynamic = <<Lib("libm.so"), Strtab>>]
Unknown == [Shell EXCEPT !.rel_plt = {Import(0, "fork")}]
LargeBss == [Shell EXCEPT !.segments = <<Segment(5, 2, 2), Segment(0, 2, 5)>>]

MCPrograms == {Shell, Small, Static, NoEntry, Text, Bare, TwoLibraries,
               OtherLibrary, Unknown, LargeBss}
MCRules == AllRules
=============================================================================
