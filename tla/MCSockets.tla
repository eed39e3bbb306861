----------------------------- MODULE MCSockets -----------------------------
(* Bytes on the first socket only.                                         *)
EXTENDS Sockets, TLC

MCMaxIn == <<4, 0>>
MCMaxOut == <<3, 0>>
MCSymmetry == Permutations(Procs)
=============================================================================
