----------------------------- MODULE BlockStore -----------------------------
(***************************************************************************)
(* What the callers of kmalloc, krealloc and kfree (and of the malloc,     *)
(* realloc and free system calls built on them) rely on, with no list, no  *)
(* headers and no placement policy: a store of blocks that never overlap,  *)
(* each of which keeps its place, its size and its owner until the owner   *)
(* resizes or releases it.                                                 *)
(***************************************************************************)
EXTENDS Integers

VARIABLE blocks    \* [addresses of blocks -> [size, owner]]

\* The bytes of a block of n bytes at p and of a block of m bytes at q.
Apart(p, n, q, m) == p + n <= q \/ q + m <= p

\* A block of n bytes at p overlaps no block but those at the addresses in X.
Fits(p, n, X) ==
  \A q \in DOMAIN blocks \ X : Apart(p, n, q, blocks[q].size)

Init == blocks = <<>>

Obtain(p, n, o) ==
  /\ p \notin DOMAIN blocks
  /\ Fits(p, n, {})
  /\ blocks' = [q \in DOMAIN blocks \cup {p} |->
                  IF q = p THEN [size |-> n, owner |-> o] ELSE blocks[q]]

Release(p) == blocks' = [q \in DOMAIN blocks \ {p} |-> blocks[q]]

\* The block at p becomes a block of n bytes at r, which may be p itself; its
\* owner stays.
Resize(p, r, n) ==
  /\ r \notin DOMAIN blocks \ {p}
  /\ Fits(r, n, {p})
  /\ blocks' = [q \in (DOMAIN blocks \ {p}) \cup {r} |->
                  IF q = r THEN [size |-> n, owner |-> blocks[p].owner]
                           ELSE blocks[q]]

\* Any address, size and owner will do; they are read off the next state, so
\* that no set of addresses has to be enumerated.
Next ==
  \/ \E p \in DOMAIN blocks' \ DOMAIN blocks :
       Obtain(p, blocks'[p].size, blocks'[p].owner)
  \/ \E p \in DOMAIN blocks : Release(p)
  \/ \E p \in DOMAIN blocks : \E r \in DOMAIN blocks' :
       Resize(p, r, blocks'[r].size)

Spec == Init /\ [][Next]_blocks
=============================================================================
