---------------------------- MODULE ProcessLife ----------------------------
(***************************************************************************)
(* What a parent may assume of the processes it spawns, with no table, no  *)
(* scheduler and no signals: a pid is given to one process only, that      *)
(* process lives until it is killed or exits, stays a zombie until it is   *)
(* waited for, and then never comes back.                                  *)
(***************************************************************************)
EXTENDS Naturals

CONSTANT Pids

VARIABLE life     \* [Pids -> {"unborn", "live", "zombie", "gone"}]

Init == \E first \in Pids :
          life = [p \in Pids |-> IF p = first THEN "live" ELSE "unborn"]

Becomes(p, from, to) == life[p] = from /\ life' = [life EXCEPT ![p] = to]

Spawned(p)   == Becomes(p, "unborn", "live")
\* A spawn that found no room for the process: its pid is not used again.
Refused(p)   == Becomes(p, "unborn", "gone")
Died(p)      == Becomes(p, "live", "zombie")
WaitedFor(p) == Becomes(p, "zombie", "gone")

Next == \E p \in Pids : Spawned(p) \/ Refused(p) \/ Died(p) \/ WaitedFor(p)

Spec == Init /\ [][Next]_life
=============================================================================
