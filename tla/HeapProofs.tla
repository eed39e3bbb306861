----------------------------- MODULE HeapProofs -----------------------------
(***************************************************************************)
(* For every heap, every set of request sizes and every set of processes:  *)
(* the heap's list stays in address order and holds every block, no two    *)
(* blocks overlap, and the totals are the sums of their sizes.             *)
(*                                                                         *)
(* ListSorted and BlocksDisjoint need each other (the place of a new chunk *)
(* is free because the list is sorted, and the list stays sorted because   *)
(* the place is between two neighbours), and both need alignment and the   *)
(* two facts that make the walk of find_free_chunk_predecessor end at a    *)
(* last chunk: some chunk is last, and all but the first have a            *)
(* predecessor.  The totals need the blocks to be apart and below a bound  *)
(* too: a word-sized account of them then never wraps.                     *)
(***************************************************************************)
EXTENDS Heap, TLAPS, FiniteSetTheorems, WellFoundedInduction

\* The headers c are well formed and their blocks apart.
WellFormed(c) ==
  /\ DOMAIN c \subseteq Nat \ {Null}
  /\ IsFiniteSet(DOMAIN c)
  /\ c \in [DOMAIN c -> [size : Nat \ {0}, next : Nat, owner : Owners]]
  /\ \A a \in DOMAIN c : a % 4 = 0 /\ c[a].size % 4 = 0
  /\ \A a, b \in DOMAIN c : a < b => a + Header + c[a].size <= b

\* From h, the headers c form one list in address order.
Ordered(c, h) ==
  /\ h \in DOMAIN c \cup {Null}
  /\ h = Null <=> DOMAIN c = {}
  /\ \A b \in DOMAIN c : h <= b
  /\ \A a \in DOMAIN c :
       /\ c[a].next \in DOMAIN c \cup {Null}
       /\ c[a].next = Null => \A b \in DOMAIN c : b <= a
       /\ c[a].next # Null => /\ a < c[a].next
                              /\ \A b \in DOMAIN c : b <= a \/ c[a].next <= b
       /\ a = h \/ \E b \in DOMAIN c : c[b].next = a
  /\ h # Null => \E a \in DOMAIN c : c[a].next = Null

\* The inductive invariant.
IInv ==
  /\ TypeOK
  /\ WellFormed(chunk)
  /\ Intact => Ordered(chunk, head)
  /\ allocated_chunks = Cardinality(Live)

-----------------------------------------------------------------------------
(* Sizes and places                                                        *)

\* align_size returns a positive multiple of the word size.
LEMMA AlignSize ==
  ASSUME NEW r \in Nat, r + 4 < WordModulus
  PROVE  /\ align_size(r) \in Nat \ {0}
         /\ align_size(r) % 4 = 0
         /\ align_size(r) <= r + 8
  <1>1. WordModulus \in Nat \ {0}
    BY HeapAssumption
  <1> DEFINE m == r - (r % 4) + 4
  <1>2. m \in Nat /\ m % 4 = 0 /\ m <= r + 4 /\ m > 0
    OBVIOUS
  <1>3. m % WordModulus = m
    BY <1>1, <1>2
  <1>4. align_size(r) = IF m <= 8 THEN 8 ELSE m
    BY <1>3 DEF align_size
  <1> QED
    BY <1>2, <1>4

\* Every size the actions pass on, aligned once or twice, is one.
LEMMA AlignRequest ==
  ASSUME NEW r \in Requests
  PROVE  /\ align_size(r) \in Nat \ {0}
         /\ align_size(r) % 4 = 0
         /\ align_size(align_size(r)) \in Nat \ {0}
         /\ align_size(align_size(r)) % 4 = 0
  <1>1. r \in Nat /\ WordModulus \in Nat /\ r + 12 < WordModulus
    BY HeapAssumption DEF Header
  <1>2. align_size(r) \in Nat \ {0} /\ align_size(r) % 4 = 0
        /\ align_size(r) <= r + 8
    BY <1>1, AlignSize
  <1>3. align_size(r) + 4 < WordModulus
    BY <1>1, <1>2
  <1> QED
    BY <1>2, <1>3, AlignSize

\* On a nonempty sound list there is a chunk with room after it, so the walk
\* of find_free_chunk_predecessor ends at one.
LEMMA Predecessor ==
  ASSUME WellFormed(chunk), Ordered(chunk, head), head # Null, NEW n \in Nat
  PROVE  /\ find_free_chunk_predecessor(n) \in Live
         /\ RoomAfter(find_free_chunk_predecessor(n), n)
  <1> DEFINE T == {a \in Live : RoomAfter(a, n)}
  <1>1. T # {} /\ T \subseteq Nat
    BY DEF Ordered, WellFormed, RoomAfter, Live
  <1>2. \E x \in T : \A y \in T : ~ (<<y, x>> \in OpToRel(<, Nat))
    BY <1>1, NatLessThanWellFounded, WFMin
  <1>3. PICK x \in T : \A y \in T : ~ (y < x)
    BY <1>1, <1>2 DEF OpToRel
  <1>4. \A y \in T : x <= y
    BY <1>1, <1>3
  <1>5. \E a \in Live : /\ RoomAfter(a, n)
                        /\ \A b \in Live : RoomAfter(b, n) => a <= b
    BY <1>4
  <1> QED
    BY <1>5 DEF find_free_chunk_predecessor

\* The gap a new chunk is put in: below every chunk above its predecessor.
LEMMA PlaceIsFree ==
  ASSUME WellFormed(chunk), Ordered(chunk, head), head # Null,
         NEW n \in Nat \ {0}, n % 4 = 0,
         NEW p, p = find_free_chunk_predecessor(n)
  PROVE  /\ p \in Live
         /\ Place(n) = BlockEnd(p)
         /\ Place(n) \in Nat \ {Null} /\ Place(n) % 4 = 0
         /\ \A b \in Live : b <= p => BlockEnd(b) <= Place(n)
         /\ \A b \in Live : p < b => /\ chunk[p].next # Null
                                     /\ Place(n) + Header + n <= b
  <1>1. p \in Live /\ RoomAfter(p, n)
    BY Predecessor
  <1>2. p \in Nat /\ p % 4 = 0 /\ chunk[p].size \in Nat /\ chunk[p].size % 4 = 0
    BY <1>1 DEF WellFormed, Live
  <1>3. BlockEnd(p) \in Nat \ {Null} /\ BlockEnd(p) % 4 = 0
    BY <1>2 DEF BlockEnd, Block, Header, Null
  <1>4. align_ptr(BlockEnd(p)) = BlockEnd(p)
    BY <1>3 DEF align_ptr
  <1>5. Place(n) = BlockEnd(p)
    BY <1>4 DEF Place
  <1>6. ASSUME NEW b \in Live, b <= p PROVE BlockEnd(b) <= Place(n)
    <2>1. b \in Nat /\ chunk[b].size \in Nat
      BY DEF WellFormed, Live
    <2>2. b < p => b + Header + chunk[b].size <= p
      BY <1>1 DEF WellFormed, Live
    <2> QED
      BY <1>2, <1>5, <1>6, <2>1, <2>2 DEF BlockEnd, Block, Header
  <1>7. ASSUME NEW b \in Live, p < b
        PROVE  chunk[p].next # Null /\ Place(n) + Header + n <= b
    <2>1. b \in Nat
      BY DEF WellFormed, Live
    <2>2. chunk[p].next # Null
      BY <1>1, <1>2, <1>7, <2>1 DEF Ordered, Live
    <2>3. chunk[p].next \in Nat /\ chunk[p].next <= b
      <3>1. chunk[p].next \in Live
        BY <1>1, <2>2 DEF Ordered, Live
      <3>2. chunk[p].next \in Nat
        BY <3>1 DEF WellFormed, Live
      <3>3. b <= p \/ chunk[p].next <= b
        BY <1>1, <2>2 DEF Ordered, Live
      <3> QED
        BY <1>2, <1>7, <2>1, <3>2, <3>3
    <2>4. chunk[p].next - BlockEnd(p) >= n + Header
      BY <1>1, <1>4, <2>2 DEF RoomAfter
    <2> QED
      BY <1>3, <1>5, <2>1, <2>2, <2>3, <2>4 DEF Header
  <1> QED
    BY <1>1, <1>3, <1>5, <1>6, <1>7

-----------------------------------------------------------------------------
(* The list operations preserve what the list is                           *)

\* Linking a new chunk in keeps the headers well formed and the list ordered.
LEMMA InsertSound ==
  ASSUME WellFormed(chunk), Ordered(chunk, head), allocated_chunks = Cardinality(Live),
         NEW n \in Nat \ {0}, n % 4 = 0, NEW o \in Owners,
         NEW h, h = IF head = Null THEN HeapStart ELSE head
  PROVE  /\ Place(n) \notin Live
         /\ DOMAIN Inserted(n, o) = Live \cup {Place(n)}
         /\ Inserted(n, o)[Place(n)].size = n
         /\ \A a \in Live : /\ Inserted(n, o)[a].size = chunk[a].size
                            /\ Inserted(n, o)[a].owner = chunk[a].owner
         /\ WellFormed(Inserted(n, o))
         /\ Ordered(Inserted(n, o), h)
         /\ Cardinality(Live \cup {Place(n)}) = Cardinality(Live) + 1
  <1> DEFINE q == Place(n)
             c == Inserted(n, o)
  <1>1. CASE head = Null
    <2>1. Live = {} /\ q = HeapStart /\ q \in Nat \ {Null} /\ q % 4 = 0
      BY <1>1, HeapAssumption DEF Ordered, Live, Place, Null
    <2>2. /\ DOMAIN c = {q}
          /\ c[q] = [size |-> n, next |-> Null, owner |-> o]
          /\ c \in [{q} -> [size : Nat \ {0}, next : Nat, owner : Owners]]
      BY <1>1, <2>1 DEF Inserted, Successor, Null
    <2>3. IsFiniteSet({q}) /\ Cardinality({q}) = 1 /\ Cardinality(Live) = 0
      BY <2>1, FS_EmptySet, FS_Singleton
    <2>4. WellFormed(c)
      BY <2>1, <2>2, <2>3 DEF WellFormed
    <2>5. Ordered(c, h)
      BY <1>1, <2>1, <2>2 DEF Ordered
    <2> QED
      BY <2>1, <2>2, <2>3, <2>4, <2>5
  <1>2. CASE head # Null
    <2> DEFINE p == find_free_chunk_predecessor(n)
               s == chunk[p].next
    <2>1. /\ p \in Live
          /\ q = BlockEnd(p)
          /\ q \in Nat \ {Null} /\ q % 4 = 0
          /\ \A b \in Live : b <= p => BlockEnd(b) <= q
          /\ \A b \in Live : p < b => s # Null /\ q + Header + n <= b
      BY <1>2, PlaceIsFree
    <2>2. \A a \in Live : /\ a \in Nat \ {Null}
                          /\ a % 4 = 0
                          /\ chunk[a] \in [size : Nat \ {0}, next : Nat, owner : Owners]
                          /\ chunk[a].size % 4 = 0
                          /\ BlockEnd(a) = a + 12 + chunk[a].size
      BY DEF WellFormed, Live, BlockEnd, Block, Header
    <2>3. \A b \in Live : \/ b <= p /\ b + 12 + chunk[b].size <= q
                          \/ p < b /\ s # Null /\ q + 12 + n <= b
      BY <2>1, <2>2 DEF Header
    <2> HIDE DEF p, q, s
    <2>4. q \notin Live
      <3>1. ASSUME q \in Live PROVE FALSE
        <4>1. q \in Nat /\ chunk[q].size \in Nat /\ n \in Nat
          BY <2>2, <3>1
        <4>2. q + 12 + chunk[q].size <= q \/ q + 12 + n <= q
          BY <2>3, <3>1
        <4> QED
          BY <4>1, <4>2
      <3> QED
        BY <3>1
    <2>5. p < q
      BY <2>1, <2>2
    <2>6. /\ c = [a \in Live \cup {q} |->
                   IF a = q THEN [size |-> n, next |-> s, owner |-> o]
                   ELSE [chunk EXCEPT ![p].next = q][a]]
      BY <1>2 DEF Inserted, Successor, Linked, p, q, s
    <2>7. DOMAIN c = Live \cup {q}
      BY <2>6
    <2>8. c[q] = [size |-> n, next |-> s, owner |-> o]
      BY <2>6
    <2>9. \A a \in Live : c[a] = IF a = p THEN [chunk[a] EXCEPT !.next = q] ELSE chunk[a]
      BY <2>4, <2>6, <2>2 DEF WellFormed, Live
    <2> HIDE DEF c
    <2>10. s \in Nat
      BY <2>1, <2>2 DEF s
    <2>11. \A a \in DOMAIN c : c[a] \in [size : Nat \ {0}, next : Nat, owner : Owners]
      BY <2>1, <2>2, <2>7, <2>8, <2>9, <2>10
    <2>12. \A a \in Live : /\ c[a].size = chunk[a].size
                           /\ c[a].owner = chunk[a].owner
                           /\ c[a].next = IF a = p THEN q ELSE chunk[a].next
      BY <2>2, <2>9
    <2>13. IsFiniteSet(DOMAIN c) /\ Cardinality(Live \cup {q}) = Cardinality(Live) + 1
      BY <2>4, <2>7, FS_AddElement DEF WellFormed, Live
    <2>14. c \in [DOMAIN c -> [size : Nat \ {0}, next : Nat, owner : Owners]]
      BY <2>6, <2>11 DEF c
    <2>15. \A a, b \in DOMAIN c : a < b => a + 12 + c[a].size <= b
      <3>1. \A a, b \in Live : a < b => a + 12 + c[a].size <= b
        BY <2>12 DEF WellFormed, Live, Header
      <3>2. \A a \in Live : a < q => a + 12 + c[a].size <= q
        BY <2>1, <2>2, <2>3, <2>12
      <3>3. \A b \in Live : q < b => q + 12 + c[q].size <= b
        BY <2>1, <2>2, <2>3, <2>8
      <3> QED
        BY <2>1, <2>7, <3>1, <3>2, <3>3
    <2>16. WellFormed(c)
      BY <2>1, <2>2, <2>7, <2>8, <2>12, <2>13, <2>14, <2>15 DEF WellFormed, Header
    <2>17. Ordered(c, h)
      <3>1. h = head /\ h \in Live /\ h # Null
        BY <1>2 DEF Ordered, Live
      <3>2. \A b \in DOMAIN c : h <= b
        BY <2>1, <2>2, <2>3, <2>5, <2>7, <3>1 DEF Ordered, Live
      <3>3. \A a \in DOMAIN c : c[a].next \in DOMAIN c \cup {Null}
        BY <2>1, <2>7, <2>8, <2>12 DEF Ordered, Live, s
      <3>4. ASSUME NEW a \in DOMAIN c, c[a].next = Null, NEW b \in DOMAIN c
            PROVE  b <= a
        <4>1. CASE a = q
          BY <3>4, <4>1, <2>1, <2>2, <2>3, <2>7, <2>8
        <4>2. CASE a # q
          <5>1. a \in Live /\ a # p /\ chunk[a].next = Null
            BY <3>4, <4>2, <2>1, <2>7, <2>12
          <5>2. \A x \in Live : x <= a
            BY <5>1 DEF Ordered, Live
          <5>3. q <= a
            BY <5>1, <5>2, <2>1, <2>2, <2>3
          <5> QED
            BY <5>2, <5>3, <2>7
        <4> QED
          BY <4>1, <4>2
      <3>5. ASSUME NEW a \in DOMAIN c, c[a].next # Null
            PROVE  a < c[a].next /\ \A b \in DOMAIN c : b <= a \/ c[a].next <= b
        <4>1. CASE a = q
          <5>1. c[a].next = s /\ s # Null
            BY <3>5, <4>1, <2>8
          <5>2. s \in Live /\ p < s /\ \A b \in Live : b <= p \/ s <= b
            BY <5>1, <2>1 DEF Ordered, Live, s
          <5>3. q < s
            BY <5>2, <2>1, <2>2, <2>3
          <5>4. \A b \in Live : b <= q \/ s <= b
            BY <5>2, <2>1, <2>2, <2>5
          <5> QED
            BY <4>1, <5>1, <5>3, <5>4, <2>1, <2>7
        <4>2. CASE a = p
          BY <3>5, <4>2, <2>1, <2>2, <2>3, <2>5, <2>7, <2>12
        <4>3. CASE a # q /\ a # p
          <5>1. a \in Live /\ c[a].next = chunk[a].next
            BY <4>3, <2>7, <2>12
          <5>2. /\ a < chunk[a].next
                /\ \A b \in Live : b <= a \/ chunk[a].next <= b
            BY <3>5, <5>1 DEF Ordered, Live
          <5>3. chunk[a].next \in Live
            BY <3>5, <5>1 DEF Ordered, Live
          <5>4. q <= a \/ chunk[a].next <= q
            BY <5>1, <5>2, <5>3, <4>3, <2>1, <2>2, <2>3, <2>5
          <5> QED
            BY <5>1, <5>2, <5>4, <2>7
        <4> QED
          BY <4>1, <4>2, <4>3
      <3>6. ASSUME NEW a \in DOMAIN c PROVE a = h \/ \E b \in DOMAIN c : c[b].next = a
        <4>1. CASE a = q
          BY <4>1, <2>1, <2>7, <2>12
        <4>2. CASE a # q /\ a # h
          <5>1. PICK b \in Live : chunk[b].next = a
            BY <4>2, <3>1, <2>7 DEF Ordered, Live
          <5>2. CASE b = p
            BY <5>1, <5>2, <2>7, <2>8 DEF s
          <5>3. CASE b # p
            BY <5>1, <5>3, <2>7, <2>12
          <5> QED
            BY <5>2, <5>3
        <4> QED
          BY <4>1, <4>2
      <3>7. \E a \in DOMAIN c : c[a].next = Null
        <4>1. PICK a \in Live : chunk[a].next = Null
          BY <1>2 DEF Ordered, Live
        <4>2. CASE a = p
          BY <4>1, <4>2, <2>7, <2>8 DEF s
        <4>3. CASE a # p
          BY <4>1, <4>3, <2>7, <2>12
        <4> QED
          BY <4>2, <4>3
      <3> QED
        BY <3>1, <3>2, <3>3, <3>4, <3>5, <3>6, <3>7, <2>7 DEF Ordered
    <2> QED
      BY <2>4, <2>7, <2>8, <2>12, <2>13, <2>16, <2>17 DEF q, c
  <1> QED
    BY <1>1, <1>2

\* Unlinking a chunk keeps the headers well formed and the list ordered.
LEMMA RemoveSound ==
  ASSUME NEW c, NEW h, WellFormed(c), Ordered(c, h), NEW a \in DOMAIN c,
         NEW g, g = IF a = h THEN c[a].next ELSE h
  PROVE  /\ DOMAIN Removed(c, a) = DOMAIN c \ {a}
         /\ \A b \in DOMAIN c \ {a} : /\ Removed(c, a)[b].size = c[b].size
                                      /\ Removed(c, a)[b].owner = c[b].owner
         /\ WellFormed(Removed(c, a))
         /\ Ordered(Removed(c, a), g)
         /\ Cardinality(DOMAIN c \ {a}) = Cardinality(DOMAIN c) - 1
  <1> DEFINE d == Removed(c, a)
             L == DOMAIN c \ {a}
             s == c[a].next
             Headers == [size : Nat \ {0}, next : Nat, owner : Owners]
  <1>1. \A b \in DOMAIN c : b \in Nat \ {Null} /\ c[b] \in Headers
    BY DEF WellFormed
  <1>2. /\ DOMAIN d = L
        /\ \A b \in L : d[b] = IF c[b].next = a THEN [c[b] EXCEPT !.next = s] ELSE c[b]
        /\ d \in [L -> Headers]
    <2>1. \A b \in L : (IF c[b].next = a THEN [c[b] EXCEPT !.next = s] ELSE c[b]) \in Headers
      BY <1>1
    <2> QED
      BY <2>1 DEF Removed
  <1>3. \A b \in L : /\ d[b].size = c[b].size
                     /\ d[b].owner = c[b].owner
                     /\ d[b].next = IF c[b].next = a THEN s ELSE c[b].next
    BY <1>1, <1>2
  <1>4. IsFiniteSet(L) /\ Cardinality(L) = Cardinality(DOMAIN c) - 1
    BY FS_RemoveElement DEF WellFormed
  <1> HIDE DEF d, Headers
  <1>5. WellFormed(d)
    BY <1>1, <1>2, <1>3, <1>4 DEF WellFormed, Headers
  <1>6. s \in L \cup {Null} /\ (s # Null => a < s)
    BY <1>1 DEF Ordered
  <1>7. \A b \in L : c[b].next # a => c[b].next \in L \cup {Null}
    BY DEF Ordered
  <1>8. Ordered(d, g)
    <2>1. g \in L \cup {Null}
      BY <1>6 DEF Ordered
    <2>2. \A b \in L : g <= b
      BY <1>1, <1>6 DEF Ordered
    <2>3. g = Null <=> L = {}
      <3>1. CASE a = h
        <4>1. s = Null => L = {}
          BY <1>1, <3>1 DEF Ordered
        <4>2. s # Null => s \in L
          BY <1>6
        <4> QED
          BY <3>1, <4>1, <4>2
      <3>2. CASE a # h
        BY <1>1, <3>2 DEF Ordered
      <3> QED
        BY <3>1, <3>2
    <2>4. \A b \in L : d[b].next \in L \cup {Null}
      BY <1>3, <1>6, <1>7
    <2>5. ASSUME NEW b \in L, d[b].next = Null PROVE \A x \in L : x <= b
      <3>1. CASE c[b].next = a
        <4>1. s = Null
          BY <1>3, <2>5, <3>1
        <4>2. \A x \in DOMAIN c : x <= b \/ a <= x
          BY <1>1, <3>1 DEF Ordered
        <4>3. \A x \in DOMAIN c : x <= a
          BY <4>1 DEF Ordered
        <4> QED
          BY <1>1, <4>2, <4>3
      <3>2. CASE c[b].next # a
        BY <1>3, <2>5, <3>2 DEF Ordered
      <3> QED
        BY <3>1, <3>2
    <2>6. ASSUME NEW b \in L, d[b].next # Null
          PROVE  b < d[b].next /\ \A x \in L : x <= b \/ d[b].next <= x
      <3>1. CASE c[b].next = a
        <4>1. /\ b < a
              /\ \A x \in DOMAIN c : x <= b \/ a <= x
          BY <1>1, <3>1 DEF Ordered
        <4>2. /\ a < s
              /\ \A x \in DOMAIN c : x <= a \/ s <= x
          BY <1>3, <2>6, <3>1 DEF Ordered
        <4> QED
          BY <1>1, <1>3, <1>6, <2>6, <3>1, <4>1, <4>2
      <3>2. CASE c[b].next # a
        BY <1>3, <2>6, <3>2 DEF Ordered
      <3> QED
        BY <3>1, <3>2
    <2>7. ASSUME NEW b \in L PROVE b = g \/ \E x \in L : d[x].next = b
      <3>1. CASE b = s
        BY <1>3, <3>1, <2>7 DEF Ordered
      <3>2. CASE b # s /\ b # g
        <4>1. b # h
          BY <3>2, <2>7
        <4>2. PICK x \in DOMAIN c : c[x].next = b
          BY <4>1 DEF Ordered
        <4>3. x # a /\ b # a
          BY <3>2, <4>2
        <4> QED
          BY <1>3, <4>2, <4>3
      <3> QED
        BY <3>1, <3>2
    <2>8. ASSUME g # Null PROVE \E x \in L : d[x].next = Null
      <3>1. PICK x \in DOMAIN c : c[x].next = Null
        BY DEF Ordered
      <3>2. CASE x # a
        BY <1>1, <1>3, <3>1, <3>2
      <3>3. CASE x = a
        <4>1. a # h
          BY <2>8, <3>1, <3>3
        <4>2. PICK y \in DOMAIN c : c[y].next = a
          BY <4>1 DEF Ordered
        <4>3. y # a
          BY <1>1, <4>2 DEF Ordered
        <4> QED
          BY <1>3, <3>1, <3>3, <4>2, <4>3
      <3> QED
        BY <3>2, <3>3
    <2> QED
      BY <1>2, <2>1, <2>2, <2>3, <2>4, <2>5, <2>6, <2>7, <2>8 DEF Ordered
  <1> QED
    BY <1>2, <1>3, <1>4, <1>5, <1>8 DEF d

-----------------------------------------------------------------------------
(* The invariant                                                           *)

\* The totals stay numbers, whatever a call adds to them.
LEMMA AccountedType ==
  ASSUME allocated_memory \in [Processes -> 0 .. WordModulus - 1],
         allocated_size \in Int, NEW t \in Int, NEW o
  PROVE  Accounted(o, t) \in [Processes -> 0 .. WordModulus - 1]
  <1>1. WordModulus \in Nat \ {0}
    BY HeapAssumption
  <1>2. CASE o \in Processes
    <2>1. allocated_memory[o] \in Int
      BY <1>1, <1>2
    <2>2. (allocated_memory[o] + t - allocated_size) % WordModulus
            \in 0 .. WordModulus - 1
      BY <1>1, <2>1
    <2> QED
      BY <1>2, <2>2 DEF Accounted
  <1>3. CASE o \notin Processes
    BY <1>3 DEF Accounted
  <1> QED
    BY <1>2, <1>3

\* What a well-formed heap says of the types.
LEMMA TypesOfHeap ==
  ASSUME WellFormed(chunk), head \in Nat, smashed \subseteq Live,
         allocated_size \in Int, allocated_chunks = Cardinality(Live),
         allocated_memory \in [Processes -> 0 .. WordModulus - 1]
  PROVE  TypeOK
  <1>1. allocated_chunks \in Nat
    BY FS_CardinalityType DEF WellFormed, Live
  <1> QED
    BY <1>1 DEF TypeOK, WellFormed, Live

\* The empty heap satisfies the invariant.
LEMMA InitInvariant == Init => IInv
  <1> SUFFICES ASSUME Init PROVE IInv
    OBVIOUS
  <1>1. Live = {} /\ DOMAIN chunk = {}
    BY DEF Init, Live
  <1>2. chunk \in [{} -> [size : Nat \ {0}, next : Nat, owner : Owners]]
    BY DEF Init
  <1>3. IsFiniteSet(Live) /\ Cardinality(Live) = 0
    BY <1>1, FS_EmptySet
  <1>4. WellFormed(chunk)
    BY <1>1, <1>2, <1>3 DEF WellFormed, Live
  <1>5. Ordered(chunk, head)
    BY <1>1 DEF Ordered, Init, Null
  <1>6. allocated_memory \in [Processes -> 0 .. WordModulus - 1]
    BY HeapAssumption DEF Init
  <1>7. TypeOK
    BY <1>3, <1>4, <1>6, TypesOfHeap DEF Init, Null
  <1> QED
    BY <1>3, <1>4, <1>5, <1>7 DEF IInv, Init

\* Before every step the list is intact, and so in order.
LEMMA OrderedBefore == IInv /\ Intact => Ordered(chunk, head) /\ smashed = {}
  BY DEF IInv, Intact

\* The primed copies of the facts the step lemma ends with.
LEMMA Conclude ==
  ASSUME WellFormed(chunk'), Ordered(chunk', head') \/ ~Intact',
         smashed' \subseteq Live', head' \in Nat, allocated_size' \in Int,
         allocated_chunks' = Cardinality(Live'),
         allocated_memory' \in [Processes -> 0 .. WordModulus - 1]
  PROVE  IInv'
  <1>1. allocated_chunks' \in Nat
    BY FS_CardinalityType DEF WellFormed, Live
  <1>2. TypeOK'
    BY <1>1 DEF TypeOK, WellFormed, Live
  <1> QED
    BY <1>2 DEF IInv

\* Every call of the allocator, failed ones included, preserves the invariant.
LEMMA StepInvariant == IInv /\ [Next]_vars => IInv'
  <1> SUFFICES ASSUME IInv, [Next]_vars PROVE IInv'
    OBVIOUS
  <1>0. CASE UNCHANGED vars
    BY <1>0 DEF vars, IInv, TypeOK, WellFormed, Ordered, Intact, Live
  <1> SUFFICES ASSUME Next PROVE IInv'
    BY <1>0
  <1>1. /\ Intact /\ WellFormed(chunk) /\ Ordered(chunk, head) /\ smashed = {}
        /\ allocated_size \in Int /\ head \in Nat
        /\ allocated_chunks = Cardinality(Live) /\ allocated_chunks \in Nat
        /\ allocated_memory \in [Processes -> 0 .. WordModulus - 1]
    BY OrderedBefore DEF Next, IInv, TypeOK
  <1>2. \A a \in Live : /\ a \in Nat \ {Null}
                        /\ chunk[a].size \in Nat \ {0}
                        /\ chunk[a].next \in Nat
                        /\ chunk[a].owner \in Owners
    BY <1>1 DEF WellFormed, Live
  <1>3. ASSUME NEW o \in Owners, NEW r \in Requests, kmalloc(o, r)
        PROVE  IInv'
    <2> DEFINE n == align_size(r)
    <2>1. n \in Nat \ {0} /\ n % 4 = 0
      BY AlignRequest
    <2>2. /\ chunk' = Inserted(n, o)
          /\ head' = IF head = Null THEN HeapStart ELSE head
          /\ allocated_size' = allocated_size + n
          /\ allocated_chunks' = allocated_chunks + 1
          /\ allocated_memory' = Accounted(o, allocated_size + n)
          /\ smashed' = smashed
      BY <1>3 DEF kmalloc
    <2>3. /\ DOMAIN Inserted(n, o) = Live \cup {Place(n)}
          /\ WellFormed(Inserted(n, o))
          /\ Ordered(Inserted(n, o), head')
          /\ Cardinality(Live \cup {Place(n)}) = Cardinality(Live) + 1
      BY <1>1, <2>1, <2>2, InsertSound
    <2>4. allocated_memory' \in [Processes -> 0 .. WordModulus - 1]
      BY <1>1, <2>1, <2>2, AccountedType
    <2>5. head' \in Nat
      BY <1>1, <2>2, HeapAssumption
    <2> QED
      BY <1>1, <2>1, <2>2, <2>3, <2>4, <2>5, Conclude DEF Live
  <1>4. ASSUME NEW n \in Nat \ {0}, n % 4 = 0, LinkedOnly(n)
        PROVE  IInv'
    <2>1. CASE head = Null
      <3>1. chunk' = chunk /\ Live = {} /\ head' = HeapStart
            /\ UNCHANGED <<smashed, allocated_size, allocated_chunks, allocated_memory>>
        BY <1>1, <1>4, <2>1 DEF LinkedOnly, Linked, Ordered, Live
      <3>2. head' \in Nat \ {Null} /\ head' \notin Live'
        BY <3>1, HeapAssumption DEF Live, Null
      <3>3. ~Intact'
        BY <3>2 DEF Intact
      <3> QED
        BY <1>1, <3>1, <3>2, <3>3, Conclude DEF Live
    <2>2. CASE head # Null
      <3> DEFINE p == find_free_chunk_predecessor(n)
                 q == Place(n)
      <3>1. /\ p \in Live /\ q \in Nat \ {Null}
            /\ q \notin Live
        BY <1>1, <1>4, <2>2, PlaceIsFree, InsertSound, <1>2
      <3> HIDE DEF p, q
      <3>2. /\ chunk' = [chunk EXCEPT ![p].next = q]
            /\ head' = head
            /\ UNCHANGED <<smashed, allocated_size, allocated_chunks, allocated_memory>>
        BY <1>4, <2>2 DEF LinkedOnly, Linked, p, q
      <3>3. /\ Live' = Live /\ DOMAIN chunk' = DOMAIN chunk
            /\ \A a \in Live : chunk'[a].size = chunk[a].size
            /\ chunk'[p].next = q
            /\ chunk' \in [DOMAIN chunk -> [size : Nat \ {0}, next : Nat, owner : Owners]]
        BY <1>1, <3>1, <3>2 DEF Live, WellFormed
      <3>4. WellFormed(chunk')
        BY <1>1, <3>3 DEF WellFormed, Live
      <3>5. ~Intact'
        BY <3>1, <3>3 DEF Intact
      <3> QED
        BY <1>1, <3>2, <3>3, <3>4, <3>5, Conclude
    <2> QED
      BY <2>1, <2>2
  <1>5. ASSUME NEW r \in Requests, kmalloc_refused(r)
        PROVE  IInv'
    BY <1>4, <1>5, AlignRequest DEF kmalloc_refused
  <1>6. ASSUME NEW a \in Live, NEW r \in Requests, krealloc_last(chunk[a].owner, a, r)
        PROVE  IInv'
    <2> DEFINE n == align_size(r)
               t == allocated_size + n - chunk[a].size
    <2>1. n \in Nat \ {0} /\ n % 4 = 0
      BY AlignRequest
    <2>2. /\ chunk[a].next = Null
          /\ chunk' = [chunk EXCEPT ![a].size = n]
          /\ allocated_size' = t
          /\ allocated_memory' = Accounted(chunk[a].owner, t)
          /\ UNCHANGED <<head, smashed, allocated_chunks>>
      BY <1>6 DEF krealloc_last
    <2> HIDE DEF n
    <2>3. /\ Live' = Live /\ DOMAIN chunk' = DOMAIN chunk
          /\ \A b \in Live : /\ chunk'[b].next = chunk[b].next
                             /\ chunk'[b].size = IF b = a THEN n ELSE chunk[b].size
          /\ chunk' \in [DOMAIN chunk -> [size : Nat \ {0}, next : Nat, owner : Owners]]
      BY <1>1, <2>1, <2>2 DEF Live, WellFormed
    <2>4. \A b \in Live : b <= a
      BY <1>1, <2>2 DEF Ordered, Live
    <2>5. WellFormed(chunk')
      <3>1. \A x, y \in Live : x < y => x + Header + chunk'[x].size <= y
        BY <1>1, <1>2, <2>3, <2>4 DEF WellFormed, Live
      <3> QED
        BY <1>1, <2>1, <2>3, <3>1 DEF WellFormed, Live
    <2>6. Ordered(chunk', head')
      BY <1>1, <2>2, <2>3 DEF Ordered, Live
    <2>7. t \in Int
      BY <1>1, <1>2, <2>1
    <2>8. allocated_memory' \in [Processes -> 0 .. WordModulus - 1]
      BY <1>1, <2>2, <2>7, AccountedType
    <2> QED
      BY <1>1, <2>2, <2>3, <2>5, <2>6, <2>7, <2>8, Conclude
  <1>7. ASSUME NEW a \in Live, NEW r \in Requests, krealloc_moved(chunk[a].owner, a, r)
        PROVE  IInv'
    <2> DEFINE n == align_size(align_size(r))
               o == chunk[a].owner
               t == allocated_size + n - chunk[a].size
               after == Inserted(n, o)
    <2>1. n \in Nat \ {0} /\ n % 4 = 0
      BY AlignRequest
    <2>2. /\ chunk' = Removed(after, a)
          /\ head' = IF a = head THEN after[a].next ELSE head
          /\ allocated_size' = t
          /\ allocated_memory' = Accounted(o, t)
          /\ UNCHANGED <<smashed, allocated_chunks>>
      BY <1>7 DEF krealloc_moved
    <2> HIDE DEF n
    <2>3. o \in Owners /\ head # Null
      BY <1>1, <1>2 DEF Ordered, Live
    <2>4. /\ DOMAIN after = Live \cup {Place(n)}
          /\ Place(n) \notin Live
          /\ WellFormed(after)
          /\ Ordered(after, head)
          /\ Cardinality(Live \cup {Place(n)}) = Cardinality(Live) + 1
      BY <1>1, <2>1, <2>3, InsertSound
    <2>5. /\ DOMAIN chunk' = DOMAIN after \ {a}
          /\ WellFormed(chunk')
          /\ Ordered(chunk', head')
          /\ Cardinality(DOMAIN chunk') = Cardinality(DOMAIN after) - 1
      BY <2>2, <2>4, RemoveSound
    <2>6. t \in Int
      BY <1>1, <1>2, <2>1
    <2>7. allocated_memory' \in [Processes -> 0 .. WordModulus - 1]
      BY <1>1, <2>2, <2>6, AccountedType
    <2>8. head' \in Nat
      BY <2>5 DEF Ordered, WellFormed, Null
    <2>9. allocated_chunks' = Cardinality(Live')
      BY <1>1, <2>2, <2>4, <2>5 DEF Live
    <2> QED
      BY <1>1, <2>2, <2>5, <2>6, <2>7, <2>8, <2>9, Conclude
  <1>8. ASSUME NEW a \in Live, NEW r \in Requests, krealloc_smashes(chunk[a].owner, a, r)
        PROVE  IInv'
    <2> DEFINE n == align_size(align_size(r))
               o == chunk[a].owner
               after == Inserted(n, o)
    <2>1. n \in Nat \ {0} /\ n % 4 = 0
      BY AlignRequest
    <2>2. /\ chunk' = after
          /\ smashed' = Overwritten(a, n)
          /\ Overwritten(a, n) # {}
          /\ allocated_size' = allocated_size + n
          /\ allocated_chunks' = allocated_chunks + 1
          /\ UNCHANGED <<head, allocated_memory>>
      BY <1>8 DEF krealloc_smashes
    <2> HIDE DEF n
    <2>3. o \in Owners /\ head # Null
      BY <1>1, <1>2 DEF Ordered, Live
    <2>4. /\ DOMAIN after = Live \cup {Place(n)}
          /\ WellFormed(after)
          /\ Ordered(after, head)
          /\ Cardinality(Live \cup {Place(n)}) = Cardinality(Live) + 1
      BY <1>1, <2>1, <2>3, InsertSound
    <2>5. smashed' \subseteq Live'
      BY <2>2, <2>4 DEF Overwritten, Live
    <2> QED
      BY <1>1, <2>1, <2>2, <2>4, <2>5, Conclude DEF Live
  <1>9. ASSUME NEW a \in Live, NEW r \in Requests, krealloc_refused(a, r)
        PROVE  IInv'
    BY <1>4, <1>9, AlignRequest DEF krealloc_refused
  <1>10. ASSUME NEW a \in Live, kfree(chunk[a].owner, a)
         PROVE  IInv'
    <2> DEFINE t == allocated_size - chunk[a].size
    <2>1. /\ chunk' = Removed(chunk, a)
          /\ head' = IF a = head THEN chunk[a].next ELSE head
          /\ allocated_size' = t
          /\ allocated_chunks' = allocated_chunks - 1
          /\ allocated_memory' = Accounted(chunk[a].owner, t)
          /\ UNCHANGED smashed
      BY <1>10 DEF kfree
    <2>2. /\ WellFormed(chunk')
          /\ Ordered(chunk', head')
          /\ DOMAIN chunk' = DOMAIN chunk \ {a}
          /\ Cardinality(DOMAIN chunk') = Cardinality(DOMAIN chunk) - 1
      BY <1>1, <2>1, RemoveSound DEF Live
    <2>3. t \in Int
      BY <1>1, <1>2
    <2>4. allocated_memory' \in [Processes -> 0 .. WordModulus - 1]
      BY <1>1, <2>1, <2>3, AccountedType
    <2>5. head' \in Nat
      BY <2>2 DEF Ordered, WellFormed, Null
    <2> QED
      BY <1>1, <2>1, <2>2, <2>3, <2>4, <2>5, Conclude DEF Live
  <1> QED
    BY <1>3, <1>5, <1>6, <1>7, <1>8, <1>9, <1>10 DEF Next

-----------------------------------------------------------------------------
(* The theorems                                                            *)

\* The strengthened invariant holds in every reachable state: it is what the
\* next theorems are read off.
THEOREM Invariance == Spec => []IInv
  BY InitInvariant, StepInvariant, PTL DEF Spec

\* Every header is word-aligned, every size is a positive multiple of the
\* word, and the totals are numbers, after any calls.
THEOREM TypeCorrect == Spec => []TypeOK
  <1>1. IInv => TypeOK
    BY DEF IInv
  <1> QED
    BY <1>1, Invariance, PTL

\* kmalloc, krealloc and kfree never let two blocks share a byte, nor a block
\* and a header, for heaps of any extent and requests of any sizes.
THEOREM NoOverlap == Spec => []BlocksDisjoint
  <1>1. IInv => BlocksDisjoint
    BY DEF IInv, WellFormed, BlocksDisjoint, BlockEnd, Block, Live, Header
  <1> QED
    BY <1>1, Invariance, PTL

\* As long as no call failed or shrank a block over a header, the walk from
\* head passes every allocated chunk once, from the lowest address up.
THEOREM ListOrder == Spec => []ListSorted
  <1>1. IInv => ListSorted
    BY DEF IInv, TypeOK, Ordered, ListSorted, Neighbours, Live, Null
  <1> QED
    BY <1>1, Invariance, PTL

-----------------------------------------------------------------------------
(* Sums over finite sets                                                   *)

\* Induction over the subsets of a finite set, with the set of those that are
\* known.
LEMMA SubsetInduction ==
  ASSUME NEW S, IsFiniteSet(S), NEW Known,
         \A T \in SUBSET S : (\A x \in T : T \ {x} \in Known) => T \in Known
  PROVE  S \in Known
  <1> DEFINE Unknown == {T \in SUBSET S : T \notin Known}
             Rest == {n \in Nat : \E T \in Unknown : Cardinality(T) = n}
  <1>1. ASSUME NEW T \in SUBSET S
        PROVE  IsFiniteSet(T) /\ Cardinality(T) \in Nat
    BY FS_Subset, FS_CardinalityType
  <1>2. ASSUME Rest # {}
        PROVE  FALSE
    <2>1. PICK n \in Rest : \A m \in Rest : <<m, n>> \notin OpToRel(<, Nat)
      BY <1>2, NatLessThanWellFounded, WFMin
    <2>2. PICK T \in SUBSET S : T \notin Known /\ Cardinality(T) = n
      OBVIOUS
    <2>3. PICK x \in T : T \ {x} \notin Known
      BY <2>2
    <2>4. Cardinality(T \ {x}) = n - 1 /\ n - 1 \in Nat
      <3>1. Cardinality(T \ {x}) = Cardinality(T) - 1
        BY <1>1, FS_RemoveElement
      <3>2. Cardinality(T \ {x}) \in Nat
        BY <1>1
      <3> QED
        BY <2>2, <3>1, <3>2
    <2>5. n - 1 \in Rest
      BY <2>3, <2>4
    <2>6. <<n - 1, n>> \in OpToRel(<, Nat)
      BY <2>4 DEF OpToRel
    <2> QED
      BY <2>1, <2>5, <2>6
  <1> QED
    BY <1>1, <1>2

\* f adds up w over the subsets of S of a kind U, an element at a time.
Pick(T) == CHOOSE x \in T : TRUE
Adds(f, w, U) ==
  f = [T \in U |-> IF T = {} THEN 0 ELSE w[Pick(T)] + f[T \ {Pick(T)}]]
Below(S, n) == {T \in SUBSET S : Cardinality(T) <= n}

\* The library adds up with a function chosen among those that do.
LEMMA SumIs ==
  ASSUME NEW w, NEW S
  PROVE  SumFunctionOnSet(w, S) = (CHOOSE f : Adds(f, w, SUBSET S))[S]
  BY DEF SumFunctionOnSet, FoldFunctionOnSet, MapThenFoldSet, Adds, Pick

\* A nonempty set without the element that is picked.
LEMMA Picked ==
  ASSUME NEW S, IsFiniteSet(S), NEW T \in SUBSET S, T # {}
  PROVE  /\ Pick(T) \in T /\ T \ {Pick(T)} \in SUBSET S
         /\ Cardinality(T) \in Nat /\ Cardinality(T \ {Pick(T)}) = Cardinality(T) - 1
  BY FS_Subset, FS_RemoveElement, FS_CardinalityType DEF Pick

\* There is such a function for every finite set.
LEMMA SumExists ==
  ASSUME NEW S, IsFiniteSet(S), NEW w
  PROVE  \E f : Adds(f, w, SUBSET S)
  <1> DEFINE K == {n \in Nat : \E f : Adds(f, w, Below(S, n))}
  <1>1. 0 \in K
    <2> DEFINE f == [T \in Below(S, 0) |-> 0]
    <2>1. \A T \in Below(S, 0) : T = {}
      <3> SUFFICES ASSUME NEW T \in Below(S, 0), T # {}
                   PROVE  FALSE
        OBVIOUS
      <3>1. Cardinality(T) <= 0 /\ T \in SUBSET S
        BY DEF Below
      <3>2. Cardinality(T \ {Pick(T)}) = Cardinality(T) - 1 /\ Cardinality(T) \in Nat
        BY <3>1, Picked
      <3>3. Cardinality(T \ {Pick(T)}) \in Nat
        BY <3>1, FS_Subset, FS_CardinalityType
      <3> QED
        BY <3>1, <3>2, <3>3
    <2>2. Adds(f, w, Below(S, 0))
      BY <2>1 DEF Adds
    <2> QED
      BY <2>2
  <1>2. ASSUME NEW n \in Nat, n \in K
        PROVE  n + 1 \in K
    <2>1. PICK g : Adds(g, w, Below(S, n))
      BY <1>2
    <2> DEFINE f == [T \in Below(S, n + 1) |->
                       IF T = {} THEN 0 ELSE w[Pick(T)] + g[T \ {Pick(T)}]]
    <2>2. ASSUME NEW T \in Below(S, n)
          PROVE  f[T] = g[T]
      <3>1. T \in Below(S, n + 1)
        BY FS_Subset, FS_CardinalityType DEF Below
      <3> QED
        BY <2>1, <3>1 DEF Adds
    <2>3. ASSUME NEW T \in Below(S, n + 1), T # {}
          PROVE  f[T \ {Pick(T)}] = g[T \ {Pick(T)}]
      <3>1. T \ {Pick(T)} \in Below(S, n)
        BY <2>3, Picked DEF Below
      <3> QED
        BY <2>2, <3>1
    <2>4. ASSUME NEW T \in Below(S, n + 1)
          PROVE  f[T] = IF T = {} THEN 0 ELSE w[Pick(T)] + f[T \ {Pick(T)}]
      BY <2>3
    <2>5. f = [T \in Below(S, n + 1) |-> f[T]]
      OBVIOUS
    <2> HIDE DEF f
    <2>6. Adds(f, w, Below(S, n + 1))
      BY <2>4, <2>5 DEF Adds
    <2> QED
      BY <2>6
  <1>3. Cardinality(S) \in K
    <2> DEFINE Rest == {n \in Nat : n \notin K}
    <2>1. ASSUME Rest # {}
          PROVE  FALSE
      <3>1. PICK n \in Rest : \A m \in Rest : <<m, n>> \notin OpToRel(<, Nat)
        BY <2>1, NatLessThanWellFounded, WFMin
      <3> HIDE DEF K
      <3>2. n # 0 /\ n \in Nat
        BY <1>1
      <3>3. n - 1 \in Nat /\ <<n - 1, n>> \in OpToRel(<, Nat)
        BY <3>2 DEF OpToRel
      <3>4. n - 1 \in K
        BY <3>1, <3>3
      <3>5. n - 1 + 1 = n
        BY <3>2
      <3>6. n \in K
        BY <1>2, <3>3, <3>4, <3>5
      <3> QED
        BY <3>6
    <2> HIDE DEF K
    <2> QED
      BY <2>1, FS_CardinalityType
  <1>4. Below(S, Cardinality(S)) = SUBSET S
    BY FS_Subset DEF Below
  <1> QED
    BY <1>3, <1>4

\* Two such functions agree where both are defined.
LEMMA SumUnique ==
  ASSUME NEW S, IsFiniteSet(S), NEW R \in SUBSET S, NEW w, NEW f, NEW g,
         Adds(f, w, SUBSET S), Adds(g, w, SUBSET R)
  PROVE  f[R] = g[R]
  <1> DEFINE Known == {T \in SUBSET R : f[T] = g[T]}
  <1>1. ASSUME NEW T \in SUBSET R, \A x \in T : T \ {x} \in Known
        PROVE  T \in Known
    <2>1. IsFiniteSet(R)
      BY FS_Subset
    <2>2. T # {} => Pick(T) \in T
      BY DEF Pick
    <2>3. T # {} => f[T \ {Pick(T)}] = g[T \ {Pick(T)}]
      BY <1>1, <2>2
    <2>4. /\ f[T] = IF T = {} THEN 0 ELSE w[Pick(T)] + f[T \ {Pick(T)}]
          /\ g[T] = IF T = {} THEN 0 ELSE w[Pick(T)] + g[T \ {Pick(T)}]
      BY DEF Adds
    <2> QED
      BY <2>3, <2>4
  <1> HIDE DEF Known
  <1>2. R \in Known
    BY <1>1, FS_Subset, SubsetInduction
  <1> QED
    BY <1>2 DEF Known

\* The sum of nothing, and the sum with the element picked first.
LEMMA SumPicks ==
  ASSUME NEW S, IsFiniteSet(S), NEW w
  PROVE  SumFunctionOnSet(w, S) =
           IF S = {} THEN 0 ELSE w[Pick(S)] + SumFunctionOnSet(w, S \ {Pick(S)})
  <1>1. PICK R : R = S \ {Pick(S)}
    OBVIOUS
  <1>2. R \in SUBSET S /\ IsFiniteSet(R)
    BY <1>1, FS_Subset
  <1>3. PICK f : Adds(f, w, SUBSET S) /\ SumFunctionOnSet(w, S) = f[S]
    BY SumExists, SumIs
  <1>4. PICK g : Adds(g, w, SUBSET R) /\ SumFunctionOnSet(w, R) = g[R]
    BY <1>2, SumExists, SumIs
  <1>5. f[R] = g[R]
    BY <1>2, <1>3, <1>4, SumUnique
  <1>6. f[S] = IF S = {} THEN 0 ELSE w[Pick(S)] + f[S \ {Pick(S)}]
    BY <1>3 DEF Adds
  <1> QED
    BY <1>1, <1>3, <1>4, <1>5, <1>6

\* A sum of numbers is a number.
LEMMA SumType ==
  ASSUME NEW S, IsFiniteSet(S), NEW w, \A x \in S : w[x] \in Nat
  PROVE  SumFunctionOnSet(w, S) \in Nat
  <1> DEFINE Known == {T \in SUBSET S : SumFunctionOnSet(w, T) \in Nat}
  <1>1. ASSUME NEW T \in SUBSET S, \A x \in T : T \ {x} \in Known
        PROVE  T \in Known
    <2>1. SumFunctionOnSet(w, T) =
            IF T = {} THEN 0 ELSE w[Pick(T)] + SumFunctionOnSet(w, T \ {Pick(T)})
      BY FS_Subset, SumPicks
    <2>2. T # {} => w[Pick(T)] \in Nat /\ SumFunctionOnSet(w, T \ {Pick(T)}) \in Nat
      BY <1>1, Picked
    <2> QED
      BY <2>1, <2>2
  <1> HIDE DEF Known
  <1>2. S \in Known
    BY <1>1, SubsetInduction
  <1> QED
    BY <1>2 DEF Known

\* A sum depends on the summands only.
LEMMA SumSame ==
  ASSUME NEW S, IsFiniteSet(S), NEW w, NEW v, \A x \in S : w[x] = v[x]
  PROVE  SumFunctionOnSet(w, S) = SumFunctionOnSet(v, S)
  <1> DEFINE Known == {T \in SUBSET S : SumFunctionOnSet(w, T) = SumFunctionOnSet(v, T)}
  <1>1. ASSUME NEW T \in SUBSET S, \A x \in T : T \ {x} \in Known
        PROVE  T \in Known
    <2>1. /\ SumFunctionOnSet(w, T) =
               IF T = {} THEN 0 ELSE w[Pick(T)] + SumFunctionOnSet(w, T \ {Pick(T)})
          /\ SumFunctionOnSet(v, T) =
               IF T = {} THEN 0 ELSE v[Pick(T)] + SumFunctionOnSet(v, T \ {Pick(T)})
      BY FS_Subset, SumPicks
    <2>2. T # {} => /\ w[Pick(T)] = v[Pick(T)]
                    /\ SumFunctionOnSet(w, T \ {Pick(T)}) = SumFunctionOnSet(v, T \ {Pick(T)})
      BY <1>1, Picked
    <2> QED
      BY <2>1, <2>2
  <1> HIDE DEF Known
  <1>2. S \in Known
    BY <1>1, SubsetInduction
  <1> QED
    BY <1>2 DEF Known

\* Any element may be added last.
LEMMA SumWithout ==
  ASSUME NEW S, IsFiniteSet(S), NEW w, \A x \in S : w[x] \in Nat
  PROVE  \A x \in S : SumFunctionOnSet(w, S) = w[x] + SumFunctionOnSet(w, S \ {x})
  <1> DEFINE Known == {T \in SUBSET S : \A x \in T :
               SumFunctionOnSet(w, T) = w[x] + SumFunctionOnSet(w, T \ {x})}
  <1>1. ASSUME NEW T \in SUBSET S, \A x \in T : T \ {x} \in Known
        PROVE  T \in Known
    <2> SUFFICES ASSUME NEW x \in T
                 PROVE  SumFunctionOnSet(w, T) = w[x] + SumFunctionOnSet(w, T \ {x})
      OBVIOUS
    <2>1. PICK a \in T : a = Pick(T)
      BY DEF Pick
    <2>2. SumFunctionOnSet(w, T) = w[a] + SumFunctionOnSet(w, T \ {a})
      BY <2>1, FS_Subset, SumPicks
    <2>3. CASE a # x
      <3>1. SumFunctionOnSet(w, T \ {a}) = w[x] + SumFunctionOnSet(w, (T \ {a}) \ {x})
        BY <1>1, <2>3
      <3>2. SumFunctionOnSet(w, T \ {x}) = w[a] + SumFunctionOnSet(w, (T \ {x}) \ {a})
        BY <1>1, <2>3
      <3>3. (T \ {a}) \ {x} = (T \ {x}) \ {a}
        OBVIOUS
      <3>4. PICK m : m = SumFunctionOnSet(w, (T \ {a}) \ {x})
        OBVIOUS
      <3>5. m \in Nat /\ w[a] \in Nat /\ w[x] \in Nat
        BY <3>4, FS_Subset, SumType
      <3>6. w[a] + (w[x] + m) = w[x] + (w[a] + m)
        BY <3>5
      <3> QED
        BY <2>2, <3>1, <3>2, <3>3, <3>4, <3>6
    <2> QED
      BY <2>2, <2>3
  <1> HIDE DEF Known
  <1>2. S \in Known
    BY <1>1, SubsetInduction
  <1> QED
    BY <1>2 DEF Known
\* Numbers of bytes that lie apart between `low' and `high' fit in there.
LEMMA SumFits ==
  ASSUME NEW S \in SUBSET Nat, IsFiniteSet(S), NEW w, \A x \in S : w[x] \in Nat,
         \A x, y \in S : x < y => x + w[x] <= y,
         NEW high \in Nat, \A x \in S : x + w[x] <= high
  PROVE  SumFunctionOnSet(w, S) <= high
  <1> DEFINE Known == {T \in SUBSET S : \A low \in 0 .. high :
               (\A x \in T : low <= x) => SumFunctionOnSet(w, T) <= high - low}
  <1>1. ASSUME NEW T \in SUBSET S, \A x \in T : T \ {x} \in Known
        PROVE  T \in Known
    <2> SUFFICES ASSUME NEW low \in 0 .. high, \A x \in T : low <= x
                 PROVE  SumFunctionOnSet(w, T) <= high - low
      OBVIOUS
    <2>1. CASE T = {}
      <3>1. SumFunctionOnSet(w, T) = 0
        BY <2>1, FS_EmptySet, SumPicks
      <3> QED
        BY <3>1
    <2>2. CASE T # {}
      <3>1. PICK a \in T : \A y \in T : <<y, a>> \notin OpToRel(<, Nat)
        BY <2>2, NatLessThanWellFounded, WFMin
      <3>2. \A y \in T : ~(y < a)
        BY <3>1 DEF OpToRel
      <3>3. a \in Nat /\ w[a] \in Nat /\ low <= a /\ a + w[a] \in 0 .. high
        OBVIOUS
      <3>4. \A y \in T \ {a} : a + w[a] <= y
        <4> SUFFICES ASSUME NEW y \in T \ {a}
                     PROVE  a + w[a] <= y
          OBVIOUS
        <4>1. y \in Nat /\ a < y
          BY <3>2, <3>3
        <4> QED
          BY <4>1
      <3>5. SumFunctionOnSet(w, T \ {a}) <= high - (a + w[a])
        BY <1>1, <3>3, <3>4
      <3>6. SumFunctionOnSet(w, T) = w[a] + SumFunctionOnSet(w, T \ {a})
        BY FS_Subset, SumWithout
      <3>7. SumFunctionOnSet(w, T \ {a}) \in Nat
        BY FS_Subset, SumType
      <3> QED
        BY <3>3, <3>5, <3>6, <3>7
    <2> QED
      BY <2>1, <2>2
  <1> HIDE DEF Known
  <1>2. S \in Known
    BY <1>1, SubsetInduction
  <1>3. SumFunctionOnSet(w, S) <= high - 0
    BY <1>2 DEF Known
  <1>4. SumFunctionOnSet(w, S) \in Nat
    BY SumType
  <1> QED
    BY <1>3, <1>4

-----------------------------------------------------------------------------
(* The accounts                                                            *)

\* The bytes of the blocks S among the chunks c, and the blocks of o.
Bytes(c, S) == SumFunctionOnSet([a \in DOMAIN c |-> c[a].size], S)
Owned(c, o) == {a \in DOMAIN c : c[a].owner = o}

\* Every chunk ends below the bound, and the totals are those of the blocks.
Ends(c) == \A a \in DOMAIN c : a + Header + c[a].size <= AddressBound
Accounts(c, size, memory) ==
  /\ Ends(c)
  /\ size = Bytes(c, DOMAIN c)
  /\ \A p \in Processes : memory[p] = Bytes(c, Owned(c, p))

AccountInv == Intact => Accounts(chunk, allocated_size, allocated_memory)

\* A number of bytes is a natural number.
LEMMA BytesType ==
  ASSUME NEW c, WellFormed(c), NEW S \in SUBSET DOMAIN c
  PROVE  Bytes(c, S) \in Nat
  <1> DEFINE w == [a \in DOMAIN c |-> c[a].size]
  <1>1. IsFiniteSet(S) /\ \A a \in S : w[a] \in Nat
    BY FS_Subset DEF WellFormed
  <1> HIDE DEF w
  <1>2. SumFunctionOnSet(w, S) \in Nat
    BY <1>1, SumType
  <1> QED
    BY <1>2 DEF Bytes, w

\* Blocks that are apart and end below the bound are no more than it.
LEMMA BytesFit ==
  ASSUME NEW c, WellFormed(c), Ends(c), NEW S \in SUBSET DOMAIN c
  PROVE  Bytes(c, S) <= AddressBound
  <1> DEFINE w == [a \in DOMAIN c |-> c[a].size]
  <1>1. /\ IsFiniteSet(S) /\ S \in SUBSET Nat /\ AddressBound \in Nat
        /\ \A a \in S : w[a] \in Nat /\ w[a] = c[a].size
    BY FS_Subset, HeapAssumption DEF WellFormed
  <1>2. \A a, b \in S : a < b => a + Header + c[a].size <= b
    BY DEF WellFormed
  <1>3. \A a \in S : a + Header + c[a].size <= AddressBound
    BY DEF Ends
  <1> HIDE DEF w
  <1>4. \A a, b \in S : a < b => a + w[a] <= b
    BY <1>1, <1>2 DEF Header
  <1>5. \A a \in S : a + w[a] <= AddressBound
    BY <1>1, <1>3 DEF Header
  <1>6. SumFunctionOnSet(w, S) <= AddressBound
    BY <1>1, <1>4, <1>5, SumFits
  <1> QED
    BY <1>6 DEF Bytes, w

\* The bytes of blocks of c, when d has all of them but perhaps a.
LEMMA BytesBut ==
  ASSUME NEW c, NEW d, WellFormed(c), WellFormed(d), NEW a \in DOMAIN c,
         DOMAIN c \ {a} \subseteq DOMAIN d,
         \A b \in DOMAIN c \ {a} : d[b].size = c[b].size,
         NEW S \in SUBSET DOMAIN c
  PROVE  Bytes(c, S) = Bytes(d, S \ {a}) + (IF a \in S THEN c[a].size ELSE 0)
  <1> DEFINE w == [b \in DOMAIN c |-> c[b].size]
             v == [b \in DOMAIN d |-> d[b].size]
  <1>1. /\ IsFiniteSet(S) /\ IsFiniteSet(S \ {a})
        /\ \A b \in S : w[b] \in Nat
        /\ \A b \in S \ {a} : w[b] = v[b]
        /\ w[a] = c[a].size
    BY FS_Subset DEF WellFormed
  <1> HIDE DEF w, v
  <1>2. SumFunctionOnSet(w, S \ {a}) = SumFunctionOnSet(v, S \ {a})
    BY <1>1, SumSame
  <1>3. CASE a \in S
    <2>1. SumFunctionOnSet(w, S) = w[a] + SumFunctionOnSet(w, S \ {a})
      BY <1>1, <1>3, SumWithout
    <2>2. SumFunctionOnSet(w, S \ {a}) \in Nat /\ w[a] \in Nat
      BY <1>1, <1>3, SumType
    <2>3. SumFunctionOnSet(w, S) = SumFunctionOnSet(v, S \ {a}) + w[a]
      BY <1>2, <2>1, <2>2
    <2> QED
      BY <1>1, <1>3, <2>3 DEF Bytes, w, v
  <1>4. CASE a \notin S
    <2>1. S \ {a} = S
      BY <1>4
    <2>2. Bytes(c, S) = Bytes(d, S \ {a})
      BY <1>2, <2>1 DEF Bytes, w, v
    <2>3. Bytes(d, S \ {a}) \in Nat
      BY BytesType
    <2> QED
      BY <1>4, <2>2, <2>3
  <1> QED
    BY <1>3, <1>4

\* A header that is new in d adds its size to the bytes, and to those of its
\* owner.
LEMMA BytesGrow ==
  ASSUME NEW c, NEW d, WellFormed(c), WellFormed(d), NEW q, q \notin DOMAIN c,
         DOMAIN d = DOMAIN c \cup {q},
         \A b \in DOMAIN c : d[b].size = c[b].size /\ d[b].owner = c[b].owner
  PROVE  /\ Bytes(d, DOMAIN d) = Bytes(c, DOMAIN c) + d[q].size
         /\ \A p : Bytes(d, Owned(d, p)) =
                     Bytes(c, Owned(c, p)) + (IF p = d[q].owner THEN d[q].size ELSE 0)
  <1>1. \A S \in SUBSET DOMAIN d :
          Bytes(d, S) = Bytes(c, S \ {q}) + (IF q \in S THEN d[q].size ELSE 0)
    BY BytesBut
  <1>2. DOMAIN d \ {q} = DOMAIN c /\ q \in DOMAIN d
    OBVIOUS
  <1>3. ASSUME NEW p
        PROVE  /\ Owned(d, p) \in SUBSET DOMAIN d /\ Owned(d, p) \ {q} = Owned(c, p)
               /\ q \in Owned(d, p) <=> p = d[q].owner
    BY DEF Owned
  <1>4. Bytes(d, DOMAIN d) = Bytes(c, DOMAIN c) + d[q].size
    BY <1>1, <1>2
  <1>5. ASSUME NEW p
        PROVE  Bytes(d, Owned(d, p)) =
                 Bytes(c, Owned(c, p)) + (IF p = d[q].owner THEN d[q].size ELSE 0)
    BY <1>1, <1>3
  <1> QED
    BY <1>4, <1>5

\* So with the size of a header that changes.
LEMMA BytesResized ==
  ASSUME NEW c, NEW d, WellFormed(c), WellFormed(d), NEW q \in DOMAIN c,
         DOMAIN d = DOMAIN c, \A b \in DOMAIN c \ {q} : d[b].size = c[b].size,
         \A b \in DOMAIN c : d[b].owner = c[b].owner
  PROVE  /\ Bytes(d, DOMAIN d) = Bytes(c, DOMAIN c) + d[q].size - c[q].size
         /\ \A p : Bytes(d, Owned(d, p)) =
                     Bytes(c, Owned(c, p))
                       + (IF p = c[q].owner THEN d[q].size - c[q].size ELSE 0)
  <1>1. ASSUME NEW S \in SUBSET DOMAIN c
        PROVE  Bytes(d, S) =
                 Bytes(c, S) + (IF q \in S THEN d[q].size - c[q].size ELSE 0)
    <2>1. Bytes(d, S) = Bytes(c, S \ {q}) + (IF q \in S THEN d[q].size ELSE 0)
      BY BytesBut
    <2>2. Bytes(c, S) = Bytes(c, S \ {q}) + (IF q \in S THEN c[q].size ELSE 0)
      BY BytesBut
    <2>3. Bytes(c, S \ {q}) \in Nat /\ d[q].size \in Nat /\ c[q].size \in Nat
      BY BytesType DEF WellFormed
    <2> QED
      BY <2>1, <2>2, <2>3
  <1>2. Bytes(c, DOMAIN c) \in Nat /\ d[q].size \in Nat /\ c[q].size \in Nat
    BY BytesType DEF WellFormed
  <1>3. Bytes(d, DOMAIN d) = Bytes(c, DOMAIN c) + d[q].size - c[q].size
    BY <1>1, <1>2
  <1>4. ASSUME NEW p
        PROVE  /\ Owned(d, p) \in SUBSET DOMAIN c /\ Owned(d, p) = Owned(c, p)
               /\ q \in Owned(c, p) <=> p = c[q].owner
    BY DEF Owned
  <1> QED
    BY <1>1, <1>3, <1>4

\* What putting a chunk in and taking one out do to the bytes.
LEMMA BytesInserted ==
  ASSUME WellFormed(chunk), Ordered(chunk, head), allocated_chunks = Cardinality(Live),
         Ends(chunk), NEW n \in Nat \ {0}, n % 4 = 0, NEW o \in Owners,
         Place(n) + Header + n <= AddressBound
  PROVE  \E d :
         /\ d = Inserted(n, o)
         /\ WellFormed(d) /\ Ends(d) /\ \E h : Ordered(d, h)
         /\ DOMAIN chunk \subseteq DOMAIN d
         /\ \A a \in DOMAIN chunk : d[a].size = chunk[a].size /\ d[a].owner = chunk[a].owner
         /\ Bytes(d, DOMAIN d) = Bytes(chunk, DOMAIN chunk) + n
         /\ \A p : Bytes(d, Owned(d, p)) =
                     Bytes(chunk, Owned(chunk, p)) + (IF p = o THEN n ELSE 0)
  <1>1. PICK h : h = IF head = Null THEN HeapStart ELSE head
    OBVIOUS
  <1>2. PICK q : q = Place(n)
    OBVIOUS
  <1>3. /\ Place(n) \notin Live
        /\ DOMAIN Inserted(n, o) = Live \cup {Place(n)}
        /\ Inserted(n, o)[Place(n)].size = n
        /\ \A a \in Live : /\ Inserted(n, o)[a].size = chunk[a].size
                           /\ Inserted(n, o)[a].owner = chunk[a].owner
        /\ WellFormed(Inserted(n, o)) /\ Ordered(Inserted(n, o), h)
    BY <1>1, InsertSound
  <1>4. Inserted(n, o)[Place(n)].owner = o
    BY DEF Inserted
  <1>5. PICK d : d = Inserted(n, o)
    OBVIOUS
  <1>6. /\ q \notin DOMAIN chunk /\ DOMAIN d = DOMAIN chunk \cup {q}
        /\ d[q].size = n /\ d[q].owner = o
        /\ \A a \in DOMAIN chunk : d[a].size = chunk[a].size /\ d[a].owner = chunk[a].owner
        /\ WellFormed(d) /\ Ordered(d, h)
    BY <1>2, <1>3, <1>4, <1>5 DEF Live
  <1>7. Ends(d)
    BY <1>2, <1>6 DEF Ends
  <1>8. /\ Bytes(d, DOMAIN d) = Bytes(chunk, DOMAIN chunk) + d[q].size
        /\ \A p : Bytes(d, Owned(d, p)) =
                    Bytes(chunk, Owned(chunk, p)) + (IF p = d[q].owner THEN d[q].size ELSE 0)
    BY <1>6, BytesGrow
  <1> QED
    BY <1>5, <1>6, <1>7, <1>8

\* A block that is released leaves its size less, in all and for its owner.
LEMMA BytesRemoved ==
  ASSUME NEW c, NEW a \in DOMAIN c, WellFormed(c), WellFormed(Removed(c, a)), Ends(c)
  PROVE  /\ Ends(Removed(c, a))
         /\ Bytes(c, DOMAIN c) = Bytes(Removed(c, a), DOMAIN Removed(c, a)) + c[a].size
         /\ \A p : Bytes(c, Owned(c, p)) =
                     Bytes(Removed(c, a), Owned(Removed(c, a), p))
                       + (IF p = c[a].owner THEN c[a].size ELSE 0)
  <1>1. PICK d : d = Removed(c, a)
    OBVIOUS
  <1>2. DOMAIN d = DOMAIN c \ {a}
    BY <1>1 DEF Removed
  <1>3. \A b \in DOMAIN d : d[b].size = c[b].size /\ d[b].owner = c[b].owner
    BY <1>1 DEF Removed, WellFormed
  <1>4. a \notin DOMAIN d /\ DOMAIN c = DOMAIN d \cup {a}
    BY <1>2
  <1>5. Ends(d)
    BY <1>2, <1>3 DEF Ends
  <1>6. /\ Bytes(c, DOMAIN c) = Bytes(d, DOMAIN d) + c[a].size
        /\ \A p : Bytes(c, Owned(c, p)) =
                    Bytes(d, Owned(d, p)) + (IF p = c[a].owner THEN c[a].size ELSE 0)
    <2>1. WellFormed(d)
      BY <1>1
    <2>2. \A b \in DOMAIN d : c[b].size = d[b].size /\ c[b].owner = d[b].owner
      BY <1>3
    <2> QED
      BY <1>4, <2>1, <2>2, BytesGrow
  <1> QED
    BY <1>1, <1>5, <1>6

\* A call's change of the total is the change of its caller's account: neither
\* wraps, since the blocks are no more than the memory.
LEMMA AccountsChanged ==
  ASSUME WellFormed(chunk), Accounts(chunk, allocated_size, allocated_memory),
         allocated_memory \in [Processes -> 0 .. WordModulus - 1],
         NEW d, WellFormed(d), Ends(d), NEW o, NEW t, t = Bytes(d, DOMAIN d),
         \A p \in Processes :
           Bytes(d, Owned(d, p)) =
             Bytes(chunk, Owned(chunk, p)) + (IF p = o THEN t - allocated_size ELSE 0),
         AddressBound < WordModulus \/ t <= allocated_size
  PROVE  Accounts(d, t, Accounted(o, t))
  <1>1. /\ WordModulus \in Nat \ {0} /\ AddressBound \in Nat
        /\ t \in Nat /\ allocated_size \in Nat
    BY BytesType, HeapAssumption DEF Accounts
  <1>2. ASSUME NEW p \in Processes
        PROVE  Accounted(o, t)[p] = Bytes(d, Owned(d, p))
    <2>1. /\ Owned(d, p) \in SUBSET DOMAIN d
          /\ allocated_memory[p] = Bytes(chunk, Owned(chunk, p))
          /\ allocated_memory[p] \in 0 .. WordModulus - 1
      BY DEF Owned, Accounts
    <2>2. PICK m : m = Bytes(d, Owned(d, p))
      OBVIOUS
    <2>3. m \in Nat /\ m <= AddressBound
      BY <2>1, <2>2, BytesType, BytesFit
    <2>4. m = allocated_memory[p] + (IF p = o THEN t - allocated_size ELSE 0)
      BY <2>1, <2>2
    <2>5. m < WordModulus
      BY <1>1, <2>1, <2>3, <2>4
    <2>6. CASE p = o
      <3>1. m = allocated_memory[p] + t - allocated_size
        BY <1>1, <2>1, <2>4, <2>6
      <3>2. Accounted(o, t)[p] = (allocated_memory[p] + t - allocated_size) % WordModulus
        BY <2>6 DEF Accounted
      <3>3. m % WordModulus = m
        BY <1>1, <2>3, <2>5
      <3> QED
        BY <2>2, <3>1, <3>2, <3>3
    <2>7. CASE p # o
      <3>1. Accounted(o, t)[p] = allocated_memory[p]
        BY <2>7 DEF Accounted
      <3> QED
        BY <2>1, <2>2, <2>4, <2>7, <3>1
    <2> QED
      BY <2>6, <2>7
  <1> QED
    BY <1>2 DEF Accounts

\* The empty heap's accounts are right.
LEMMA AccountInit == Init => AccountInv
  <1> SUFFICES ASSUME Init
               PROVE  Accounts(chunk, allocated_size, allocated_memory)
    BY DEF AccountInv
  <1>1. DOMAIN chunk = {}
    BY DEF Init
  <1>2. Bytes(chunk, {}) = 0
    BY FS_EmptySet, SumPicks DEF Bytes
  <1>3. \A p : Owned(chunk, p) = {}
    BY <1>1 DEF Owned
  <1> QED
    BY <1>1, <1>2, <1>3 DEF Init, Accounts, Ends

\* Every call that leaves the list intact keeps the accounts.
LEMMA AccountStep == IInv /\ IInv' /\ AccountInv /\ [Next]_vars => AccountInv'
  <1> SUFFICES ASSUME IInv, IInv', AccountInv, [Next]_vars, Intact'
               PROVE  Accounts(chunk', allocated_size', allocated_memory')
    BY DEF AccountInv
  <1>1. CASE UNCHANGED vars
    <2>1. Intact
      BY <1>1 DEF vars, Intact, Live
    <2>2. /\ chunk' = chunk /\ allocated_size' = allocated_size
          /\ allocated_memory' = allocated_memory
      BY <1>1 DEF vars
    <2> QED
      BY <2>1, <2>2 DEF AccountInv
  <1> SUFFICES ASSUME Next
               PROVE  Accounts(chunk', allocated_size', allocated_memory')
    BY <1>1
  <1>2. /\ Intact /\ WellFormed(chunk) /\ WellFormed(chunk') /\ Ordered(chunk, head)
        /\ allocated_chunks = Cardinality(Live)
        /\ Accounts(chunk, allocated_size, allocated_memory)
        /\ allocated_memory \in [Processes -> 0 .. WordModulus - 1]
    BY OrderedBefore DEF Next, IInv, TypeOK, AccountInv
  <1>3. \A a \in Live : chunk[a].owner \in Owners
    BY <1>2 DEF WellFormed, Live
  <1>4. /\ allocated_size \in Nat /\ allocated_size = Bytes(chunk, DOMAIN chunk)
        /\ \A p : Bytes(chunk, Owned(chunk, p)) \in Nat
        /\ AddressBound \in Nat /\ WordModulus \in Nat
    BY <1>2, BytesType, HeapAssumption DEF Accounts, Owned
  <1>5. ASSUME NEW r \in Requests
        PROVE  AddressBound < WordModulus
    BY HeapAssumption DEF Header
  <1>6. \A n \in Nat \ {0} : n % 4 = 0 => ~LinkedOnly(n)
    <2> SUFFICES ASSUME NEW n \in Nat \ {0}, n % 4 = 0, LinkedOnly(n)
                 PROVE  FALSE
      OBVIOUS
    <2>1. PICK o \in Owners : TRUE
      BY DEF Owners
    <2>2. Place(n) \notin Live
      BY <1>2, <2>1, InsertSound
    <2>3. CASE head = Null
      <3>1. Live' = {} /\ head' = HeapStart
        BY <1>2, <2>3 DEF LinkedOnly, Linked, Ordered, Live
      <3> QED
        BY <3>1, HeapAssumption DEF Intact, Null
    <2>4. CASE head # Null
      <3>1. /\ find_free_chunk_predecessor(n) \in Live
            /\ Place(n) # Null
        BY <1>2, <2>4, PlaceIsFree
      <3>2. Live' = Live /\ chunk'[find_free_chunk_predecessor(n)].next = Place(n)
        BY <1>2, <2>4, <3>1 DEF LinkedOnly, Linked, Live, WellFormed
      <3> QED
        BY <2>2, <3>1, <3>2 DEF Intact
    <2> QED
      BY <2>3, <2>4
  <1>7. Ends(chunk)
    BY <1>2 DEF Accounts
  <1>8. ASSUME NEW o \in Owners, NEW r \in Requests, kmalloc(o, r)
        PROVE  Accounts(chunk', allocated_size', allocated_memory')
    <2>1. PICK n \in Nat \ {0} : n = align_size(r) /\ n % 4 = 0
      BY AlignRequest
    <2>2. PICK d, t : d = chunk' /\ t = allocated_size + n
      OBVIOUS
    <2>3. /\ Place(n) + Header + n <= AddressBound /\ d = Inserted(n, o)
          /\ allocated_size' = t /\ allocated_memory' = Accounted(o, t)
      BY <1>8, <2>1, <2>2 DEF kmalloc
    <2>4. /\ WellFormed(d) /\ Ends(d) /\ Bytes(d, DOMAIN d) = Bytes(chunk, DOMAIN chunk) + n
          /\ \A p : Bytes(d, Owned(d, p)) =
                      Bytes(chunk, Owned(chunk, p)) + (IF p = o THEN n ELSE 0)
      BY <1>2, <1>7, <2>1, <2>3, BytesInserted
    <2>5. t - allocated_size = n /\ t = Bytes(d, DOMAIN d)
      BY <1>4, <2>2, <2>4
    <2>6. \A p \in Processes :
            Bytes(d, Owned(d, p)) =
              Bytes(chunk, Owned(chunk, p)) + (IF p = o THEN t - allocated_size ELSE 0)
      BY <2>4, <2>5
    <2>7. AddressBound < WordModulus
      BY <1>5
    <2>8. Accounts(d, t, Accounted(o, t))
      BY <1>2, <2>4, <2>5, <2>6, <2>7, AccountsChanged
    <2> QED
      BY <2>2, <2>3, <2>8
  <1>9. ASSUME NEW r \in Requests
         PROVE  ~kmalloc_refused(r) /\ \A a : ~krealloc_refused(a, r)
    BY <1>6, AlignRequest DEF kmalloc_refused, krealloc_refused
  <1>10. ASSUME NEW a \in Live, NEW r \in Requests, krealloc_last(chunk[a].owner, a, r)
         PROVE  Accounts(chunk', allocated_size', allocated_memory')
    <2>1. PICK n \in Nat \ {0} : n = align_size(r)
      BY AlignRequest
    <2>2. PICK t : t = allocated_size + n - chunk[a].size
      OBVIOUS
    <2>3. /\ Block(a) + n <= AddressBound
          /\ chunk' = [chunk EXCEPT ![a].size = n]
          /\ allocated_size' = t /\ allocated_memory' = Accounted(chunk[a].owner, t)
      BY <1>10, <2>1, <2>2 DEF krealloc_last
    <2>4. /\ a \in DOMAIN chunk /\ DOMAIN chunk' = DOMAIN chunk /\ chunk'[a].size = n
          /\ \A b \in DOMAIN chunk \ {a} : chunk'[b].size = chunk[b].size
          /\ \A b \in DOMAIN chunk : chunk'[b].owner = chunk[b].owner
      BY <1>2, <2>3 DEF Live, WellFormed
    <2>5. Ends(chunk')
      BY <1>2, <2>3, <2>4 DEF Ends, Accounts, Block
    <2>6. chunk[a].size \in Nat
      BY <1>2 DEF WellFormed, Live
    <2>7. /\ Bytes(chunk', DOMAIN chunk') = Bytes(chunk, DOMAIN chunk) + n - chunk[a].size
          /\ \A p : Bytes(chunk', Owned(chunk', p)) =
                      Bytes(chunk, Owned(chunk, p))
                        + (IF p = chunk[a].owner THEN n - chunk[a].size ELSE 0)
      BY <1>2, <2>4, BytesResized
    <2>8. t - allocated_size = n - chunk[a].size /\ t = Bytes(chunk', DOMAIN chunk')
      BY <1>4, <2>2, <2>6, <2>7
    <2>9. Accounts(chunk', t, Accounted(chunk[a].owner, t))
      BY <1>2, <1>5, <2>5, <2>7, <2>8, AccountsChanged
    <2> QED
      BY <2>3, <2>9
  <1>11. ASSUME NEW a \in Live, NEW r \in Requests, krealloc_moved(chunk[a].owner, a, r)
         PROVE  Accounts(chunk', allocated_size', allocated_memory')
    <2>1. PICK n \in Nat \ {0}, o \in Owners :
            n = align_size(align_size(r)) /\ n % 4 = 0 /\ o = chunk[a].owner
      BY <1>3, AlignRequest
    <2>2. PICK t, c, d : t = allocated_size + n - chunk[a].size /\ c = Inserted(n, o) /\ d = chunk'
      OBVIOUS
    <2>3. /\ Place(n) + Header + n <= AddressBound /\ d = Removed(c, a)
          /\ allocated_size' = t /\ allocated_memory' = Accounted(o, t)
      BY <1>11, <2>1, <2>2 DEF krealloc_moved
    <2>4. /\ WellFormed(c) /\ Ends(c) /\ DOMAIN chunk \subseteq DOMAIN c
          /\ \A b \in DOMAIN chunk : c[b].size = chunk[b].size /\ c[b].owner = chunk[b].owner
          /\ Bytes(c, DOMAIN c) = Bytes(chunk, DOMAIN chunk) + n
          /\ \A p : Bytes(c, Owned(c, p)) =
                      Bytes(chunk, Owned(chunk, p)) + (IF p = o THEN n ELSE 0)
      BY <1>2, <1>7, <2>1, <2>2, <2>3, BytesInserted
    <2>5. /\ a \in DOMAIN c /\ c[a].size = chunk[a].size /\ c[a].owner = o
          /\ chunk[a].size \in Nat
      BY <1>2, <2>1, <2>4 DEF Live, WellFormed
    <2>6. WellFormed(d)
      BY <1>2, <2>2
    <2>7. /\ Ends(d)
          /\ Bytes(c, DOMAIN c) = Bytes(d, DOMAIN d) + chunk[a].size
          /\ \A p : Bytes(c, Owned(c, p)) =
                      Bytes(d, Owned(d, p)) + (IF p = o THEN chunk[a].size ELSE 0)
      BY <2>3, <2>4, <2>5, <2>6, BytesRemoved
    <2>8. Bytes(d, DOMAIN d) \in Nat /\ \A p : Bytes(d, Owned(d, p)) \in Nat
      BY <2>6, BytesType DEF Owned
    <2>9. t = Bytes(d, DOMAIN d) /\ t - allocated_size = n - chunk[a].size
      BY <1>4, <2>2, <2>4, <2>5, <2>7, <2>8
    <2>10. ASSUME NEW p \in Processes
           PROVE  Bytes(d, Owned(d, p)) =
                    Bytes(chunk, Owned(chunk, p)) + (IF p = o THEN t - allocated_size ELSE 0)
      <3>1. PICK x, y : x = Bytes(chunk, Owned(chunk, p)) /\ y = Bytes(d, Owned(d, p))
        OBVIOUS
      <3>2. x \in Nat /\ y \in Nat
        BY <1>4, <2>8, <3>1
      <3>3. x + (IF p = o THEN n ELSE 0) = y + (IF p = o THEN chunk[a].size ELSE 0)
        BY <2>4, <2>7, <3>1
      <3>4. y = x + (IF p = o THEN n - chunk[a].size ELSE 0)
        BY <2>5, <3>2, <3>3
      <3> QED
        BY <2>9, <3>1, <3>4
    <2>11. AddressBound < WordModulus
      BY <1>5
    <2>12. Accounts(d, t, Accounted(o, t))
      BY <1>2, <2>6, <2>7, <2>9, <2>10, <2>11, AccountsChanged
    <2> QED
      BY <2>2, <2>3, <2>12
  <1>12. ASSUME NEW a \in Live, NEW r \in Requests
         PROVE  ~krealloc_smashes(chunk[a].owner, a, r)
    BY DEF krealloc_smashes, Intact
  <1>13. ASSUME NEW a \in Live, kfree(chunk[a].owner, a)
         PROVE  Accounts(chunk', allocated_size', allocated_memory')
    <2>1. PICK o, t, d : o = chunk[a].owner /\ t = allocated_size - chunk[a].size /\ d = chunk'
      OBVIOUS
    <2>2. /\ d = Removed(chunk, a)
          /\ allocated_size' = t /\ allocated_memory' = Accounted(o, t)
      BY <1>13, <2>1 DEF kfree
    <2>3. a \in DOMAIN chunk /\ chunk[a].size \in Nat /\ WellFormed(d)
      BY <1>2, <2>1 DEF Live, WellFormed
    <2>4. /\ Ends(d)
          /\ Bytes(chunk, DOMAIN chunk) = Bytes(d, DOMAIN d) + chunk[a].size
          /\ \A p : Bytes(chunk, Owned(chunk, p)) =
                      Bytes(d, Owned(d, p)) + (IF p = o THEN chunk[a].size ELSE 0)
      BY <1>2, <1>7, <2>1, <2>2, <2>3, BytesRemoved
    <2>5. Bytes(d, DOMAIN d) \in Nat /\ \A p : Bytes(d, Owned(d, p)) \in Nat
      BY <2>3, BytesType DEF Owned
    <2>6. /\ t = Bytes(d, DOMAIN d) /\ t - allocated_size = 0 - chunk[a].size
          /\ t <= allocated_size
      BY <1>4, <2>1, <2>3, <2>4, <2>5
    <2>7. ASSUME NEW p \in Processes
          PROVE  Bytes(d, Owned(d, p)) =
                   Bytes(chunk, Owned(chunk, p)) + (IF p = o THEN t - allocated_size ELSE 0)
      <3>1. PICK x, y : x = Bytes(chunk, Owned(chunk, p)) /\ y = Bytes(d, Owned(d, p))
        OBVIOUS
      <3>2. x \in Nat /\ y \in Nat /\ x = y + (IF p = o THEN chunk[a].size ELSE 0)
        BY <1>4, <2>4, <2>5, <3>1
      <3>3. y = x + (IF p = o THEN 0 - chunk[a].size ELSE 0)
        BY <2>3, <3>2
      <3> QED
        BY <2>6, <3>1, <3>3
    <2>8. Accounts(d, t, Accounted(o, t))
      BY <1>2, <2>3, <2>4, <2>6, <2>7, AccountsChanged
    <2> QED
      BY <2>1, <2>2, <2>8
  <1> QED
    BY <1>8, <1>9, <1>10, <1>11, <1>12, <1>13 DEF Next

\* The accounts hold in every reachable state: the totals are read off next.
THEOREM AccountInvariance == Spec => []AccountInv
  BY AccountInit, AccountStep, Invariance, PTL DEF Spec

\* What kmalloc compares with its limit are the bytes and the headers of the
\* live blocks, however they were allocated, resized in place, moved and freed.
THEOREM AccountingCorrect == Spec => []AccountingExact
  <1>1. IInv /\ AccountInv => AccountingExact
    BY DEF IInv, AccountInv, Accounts, Bytes, AccountingExact, Sizes, Live
  <1> QED
    BY <1>1, Invariance, AccountInvariance, PTL

\* allocated_memory of each process is the size of the blocks it has: it never
\* wraps, and no other process's calls change it.
THEOREM ProcessAccountingCorrect == Spec => []ProcessAccounting
  <1>1. AccountInv => ProcessAccounting
    BY DEF AccountInv, Accounts, Bytes, Owned, ProcessAccounting, BlocksOf, Sizes, Live
  <1> QED
    BY <1>1, AccountInvariance, PTL

-----------------------------------------------------------------------------
(* The refinement                                                          *)

\* What the abstract store keeps of chunk a.
Entry(c, a) == [size |-> c[a].size, owner |-> c[a].owner]

\* The fields of an entry, and an entry from its fields.
LEMMA EntryFields ==
  ASSUME NEW c, NEW a
  PROVE  /\ Entry(c, a).size = c[a].size
         /\ Entry(c, a).owner = c[a].owner
         /\ Entry(c, a) = [size |-> Entry(c, a).size, owner |-> Entry(c, a).owner]
  BY DEF Entry

\* An entry depends on the size and the owner of its chunk only.
LEMMA EntryKept ==
  ASSUME NEW c, NEW d, NEW a, c[a].size = d[a].size, c[a].owner = d[a].owner
  PROVE  Entry(c, a) = Entry(d, a)
  BY DEF Entry

\* Headers and blocks correspond one to one.
LEMMA BlockMapFacts ==
  ASSUME Live \subseteq Nat
  PROVE  /\ DOMAIN BlockMap = {Block(a) : a \in Live}
         /\ \A a \in Live : BlockMap[Block(a)] = Entry(chunk, a)
  BY DEF BlockMap, Block, Header, Entry

\* The same after a step.
LEMMA BlockMapFactsNext ==
  ASSUME Live' \subseteq Nat
  PROVE  /\ DOMAIN BlockMap' = {Block(a) : a \in Live'}
         /\ \A a \in Live' : BlockMap'[Block(a)] = Entry(chunk', a)
  BY DEF BlockMap, Block, Header, Entry

\* The empty heap is the empty store.
LEMMA RefineInit == Init => Blocks!Init
  BY DEF Init, Blocks!Init, BlockMap, Live

\* Two chunks of a well-formed heap give two blocks that are apart.
LEMMA BlocksApart ==
  ASSUME NEW c, WellFormed(c), NEW x \in DOMAIN c, NEW y \in DOMAIN c, x # y
  PROVE  Blocks!Apart(Block(x), c[x].size, Block(y), c[y].size)
  <1>1. /\ x \in Nat /\ y \in Nat /\ c[x].size \in Nat /\ c[y].size \in Nat
        /\ x < y => x + Header + c[x].size <= y
        /\ y < x => y + Header + c[y].size <= x
    BY DEF WellFormed
  <1> QED
    BY <1>1 DEF Blocks!Apart, Block, Header

\* A step that adds one header and leaves the other blocks alone obtains a
\* block.
LEMMA ObtainStep ==
  ASSUME WellFormed(chunk), WellFormed(chunk'), NEW q, q \notin Live,
         Live' = Live \cup {q},
         \A a \in Live : /\ chunk'[a].size = chunk[a].size
                         /\ chunk'[a].owner = chunk[a].owner
  PROVE  Blocks!Next
  <1> DEFINE p == Block(q)
  <1>1. Live \subseteq Nat /\ Live' \subseteq Nat /\ q \in Nat
    BY DEF WellFormed, Live
  <1>2. /\ DOMAIN BlockMap = {Block(a) : a \in Live}
        /\ \A a \in Live : BlockMap[Block(a)] = Entry(chunk, a)
    BY <1>1, BlockMapFacts
  <1>3. /\ DOMAIN BlockMap' = {Block(a) : a \in Live'}
        /\ \A a \in Live' : BlockMap'[Block(a)] = Entry(chunk', a)
    BY <1>1, BlockMapFactsNext
  <1>4. p \in DOMAIN BlockMap' \ DOMAIN BlockMap
    BY <1>1, <1>2, <1>3 DEF Block, Header
  <1>5. \A r \in DOMAIN BlockMap : Blocks!Apart(p, BlockMap'[p].size, r, BlockMap[r].size)
    <2> SUFFICES ASSUME NEW a \in Live
                 PROVE  Blocks!Apart(p, BlockMap'[p].size, Block(a), BlockMap[Block(a)].size)
      BY <1>2
    <2>1. Blocks!Apart(p, chunk'[q].size, Block(a), chunk'[a].size)
      BY BlocksApart DEF Live
    <2>2. BlockMap'[p] = Entry(chunk', q)
      BY <1>3
    <2>3. BlockMap[Block(a)] = Entry(chunk, a)
      BY <1>2
    <2>4. BlockMap'[p].size = chunk'[q].size
      BY <2>2, EntryFields
    <2>5. BlockMap[Block(a)].size = chunk'[a].size
      BY <2>3, EntryFields
    <2> QED
      BY <2>1, <2>4, <2>5
  <1>6. BlockMap' = [r \in DOMAIN BlockMap \cup {p} |->
                       IF r = p THEN [size |-> BlockMap'[p].size, owner |-> BlockMap'[p].owner]
                       ELSE BlockMap[r]]
    <2>1. DOMAIN BlockMap' = DOMAIN BlockMap \cup {p}
      BY <1>2, <1>3
    <2>2. BlockMap'[p] = [size |-> BlockMap'[p].size, owner |-> BlockMap'[p].owner]
      <3>1. BlockMap'[p] = Entry(chunk', q)
        BY <1>3
      <3> QED
        BY <3>1, EntryFields
    <2>3. \A r \in DOMAIN BlockMap : BlockMap'[r] = BlockMap[r]
      <3>1. SUFFICES ASSUME NEW a \in Live
                     PROVE  BlockMap'[Block(a)] = BlockMap[Block(a)]
        BY <1>2
      <3>2. BlockMap'[Block(a)] = Entry(chunk', a) /\ BlockMap[Block(a)] = Entry(chunk, a)
        BY <1>2, <1>3
      <3> QED
        BY <3>2, EntryKept
    <2>4. BlockMap' = [r \in DOMAIN BlockMap' |-> BlockMap'[r]]
      BY DEF BlockMap
    <2> QED
      BY <1>4, <2>1, <2>2, <2>3, <2>4
  <1>7. Blocks!Obtain(p, BlockMap'[p].size, BlockMap'[p].owner)
    BY <1>4, <1>5, <1>6 DEF Blocks!Obtain, Blocks!Fits
  <1> QED
    BY <1>4, <1>7 DEF Blocks!Next

\* A step that drops one header and leaves the other blocks alone releases a
\* block.
LEMMA ReleaseStep ==
  ASSUME WellFormed(chunk), WellFormed(chunk'), NEW q \in Live,
         Live' = Live \ {q},
         \A a \in Live' : /\ chunk'[a].size = chunk[a].size
                          /\ chunk'[a].owner = chunk[a].owner
  PROVE  Blocks!Next
  <1> DEFINE p == Block(q)
  <1>1. Live \subseteq Nat /\ Live' \subseteq Nat
    BY DEF WellFormed, Live
  <1>2. /\ DOMAIN BlockMap = {Block(a) : a \in Live}
        /\ \A a \in Live : BlockMap[Block(a)] = Entry(chunk, a)
    BY <1>1, BlockMapFacts
  <1>3. /\ DOMAIN BlockMap' = {Block(a) : a \in Live'}
        /\ \A a \in Live' : BlockMap'[Block(a)] = Entry(chunk', a)
    BY <1>1, BlockMapFactsNext
  <1>4. DOMAIN BlockMap' = DOMAIN BlockMap \ {p}
    BY <1>1, <1>2, <1>3 DEF Block, Header
  <1>5. \A r \in DOMAIN BlockMap' : BlockMap'[r] = BlockMap[r]
    BY <1>2, <1>3, EntryKept
  <1>6. BlockMap' = [r \in DOMAIN BlockMap' |-> BlockMap'[r]]
    BY DEF BlockMap
  <1>7. Blocks!Release(p)
    BY <1>4, <1>5, <1>6 DEF Blocks!Release
  <1> QED
    BY <1>2, <1>7 DEF Blocks!Next

\* A step after which the header x stands where z stood, and all other blocks
\* are as they were, resizes a block.
LEMMA ResizeStep ==
  ASSUME WellFormed(chunk), WellFormed(chunk'), NEW z \in Live, NEW x,
         x \notin Live \ {z}, Live' = (Live \ {z}) \cup {x},
         chunk'[x].owner = chunk[z].owner,
         \A a \in Live \ {z} : /\ chunk'[a].size = chunk[a].size
                               /\ chunk'[a].owner = chunk[a].owner
  PROVE  Blocks!Next
  <1> DEFINE p == Block(z)
             r == Block(x)
  <1>1. Live \subseteq Nat /\ Live' \subseteq Nat /\ x \in Nat
    BY DEF WellFormed, Live
  <1>2. /\ DOMAIN BlockMap = {Block(a) : a \in Live}
        /\ \A a \in Live : BlockMap[Block(a)] = Entry(chunk, a)
    BY <1>1, BlockMapFacts
  <1>3. /\ DOMAIN BlockMap' = {Block(a) : a \in Live'}
        /\ \A a \in Live' : BlockMap'[Block(a)] = Entry(chunk', a)
    BY <1>1, BlockMapFactsNext
  <1>4. /\ p \in DOMAIN BlockMap /\ r \in DOMAIN BlockMap'
        /\ DOMAIN BlockMap \ {p} = {Block(a) : a \in Live \ {z}}
        /\ DOMAIN BlockMap' = (DOMAIN BlockMap \ {p}) \cup {r}
        /\ r \notin DOMAIN BlockMap \ {p}
    BY <1>1, <1>2, <1>3 DEF Block, Header
  <1>5. \A q \in DOMAIN BlockMap \ {p} :
          Blocks!Apart(r, BlockMap'[r].size, q, BlockMap[q].size)
    <2> SUFFICES ASSUME NEW a \in Live \ {z}
                 PROVE  Blocks!Apart(r, BlockMap'[r].size, Block(a), BlockMap[Block(a)].size)
      BY <1>4
    <2>1. a # x /\ a \in Live' /\ x \in Live'
      OBVIOUS
    <2>2. Blocks!Apart(r, chunk'[x].size, Block(a), chunk'[a].size)
      BY <2>1, BlocksApart DEF Live
    <2>3. BlockMap'[r] = Entry(chunk', x)
      BY <1>3, <2>1
    <2>4. BlockMap[Block(a)] = Entry(chunk, a)
      BY <1>2
    <2>5. BlockMap'[r].size = chunk'[x].size
      BY <2>3, EntryFields
    <2>6. BlockMap[Block(a)].size = chunk'[a].size
      BY <2>4, EntryFields
    <2> QED
      BY <2>2, <2>5, <2>6
  <1>6. BlockMap' = [q \in (DOMAIN BlockMap \ {p}) \cup {r} |->
                       IF q = r THEN [size |-> BlockMap'[r].size, owner |-> BlockMap[p].owner]
                       ELSE BlockMap[q]]
    <2>1. BlockMap'[r] = [size |-> BlockMap'[r].size, owner |-> BlockMap[p].owner]
      <3>1. BlockMap'[r] = Entry(chunk', x) /\ BlockMap[p] = Entry(chunk, z)
        BY <1>2, <1>3
      <3>2. BlockMap'[r].owner = BlockMap[p].owner
        BY <3>1, EntryFields
      <3>3. Entry(chunk', x) = [size |-> Entry(chunk', x).size,
                                owner |-> Entry(chunk', x).owner]
        BY EntryFields
      <3>4. BlockMap'[r] = [size |-> BlockMap'[r].size, owner |-> BlockMap'[r].owner]
        BY <3>1, <3>3, Zenon
      <3> QED
        BY <3>2, <3>4
    <2>2. \A q \in DOMAIN BlockMap \ {p} : BlockMap'[q] = BlockMap[q]
      <3>1. SUFFICES ASSUME NEW a \in Live \ {z}
                     PROVE  BlockMap'[Block(a)] = BlockMap[Block(a)]
        BY <1>4
      <3>2. BlockMap'[Block(a)] = Entry(chunk', a) /\ BlockMap[Block(a)] = Entry(chunk, a)
        BY <1>2, <1>3
      <3> QED
        BY <3>2, EntryKept
    <2>3. BlockMap' = [q \in DOMAIN BlockMap' |-> BlockMap'[q]]
      BY DEF BlockMap
    <2> QED
      BY <1>4, <2>1, <2>2, <2>3
  <1>7. Blocks!Resize(p, r, BlockMap'[r].size)
    BY <1>4, <1>5, <1>6 DEF Blocks!Resize, Blocks!Fits
  <1> QED
    BY <1>4, <1>7 DEF Blocks!Next

\* A step that keeps every header's size and owner is a stutter.
LEMMA StutterStep ==
  ASSUME Live' = Live,
         \A a \in Live : /\ chunk'[a].size = chunk[a].size
                         /\ chunk'[a].owner = chunk[a].owner,
         Live \subseteq Nat
  PROVE  UNCHANGED BlockMap
  <1>1. \A p \in {Block(a) : a \in Live} : p - Header \in Live
    BY DEF Block, Header
  <1> QED
    BY <1>1 DEF BlockMap

\* A kmalloc that links a chunk it then does not hand out changes no block.
LEMMA LinkedOnlyStutters ==
  ASSUME IInv, Intact, NEW n \in Nat \ {0}, n % 4 = 0, LinkedOnly(n)
  PROVE  UNCHANGED BlockMap
  <1>1. WellFormed(chunk) /\ Ordered(chunk, head)
    BY OrderedBefore DEF IInv
  <1>2. CASE head = Null
    BY <1>1, <1>2, StutterStep DEF LinkedOnly, Linked, Live, WellFormed
  <1>3. CASE head # Null
    <2>1. find_free_chunk_predecessor(n) \in Live
      BY <1>1, <1>3, Predecessor
    <2>2. /\ Live' = Live
          /\ \A a \in Live : /\ chunk'[a].size = chunk[a].size
                             /\ chunk'[a].owner = chunk[a].owner
      BY <1>1, <1>3, <2>1 DEF LinkedOnly, Linked, Live, WellFormed
    <2> QED
      BY <1>1, <2>2, StutterStep DEF Live, WellFormed
  <1> QED
    BY <1>2, <1>3

\* Every step of the heap is a step of the store, or changes no block.
LEMMA RefineStep == IInv /\ IInv' /\ [Next]_vars => [Blocks!Next]_BlockMap
  <1> SUFFICES ASSUME IInv, IInv', [Next]_vars PROVE [Blocks!Next]_BlockMap
    OBVIOUS
  <1>0. CASE UNCHANGED vars
    BY <1>0 DEF vars, BlockMap, Live
  <1> SUFFICES ASSUME Next PROVE [Blocks!Next]_BlockMap
    BY <1>0
  <1>1. /\ Intact /\ WellFormed(chunk) /\ WellFormed(chunk') /\ Ordered(chunk, head)
        /\ allocated_chunks = Cardinality(Live)
    BY OrderedBefore DEF Next, IInv
  <1>2. \A a \in Live : chunk[a].owner \in Owners
    BY <1>1 DEF WellFormed, Live
  <1>3. ASSUME NEW n \in Nat \ {0}, n % 4 = 0, NEW o \in Owners, chunk' = Inserted(n, o)
        PROVE  Blocks!Next
    <2>1. /\ Place(n) \notin Live
          /\ DOMAIN Inserted(n, o) = Live \cup {Place(n)}
          /\ \A a \in Live : /\ Inserted(n, o)[a].size = chunk[a].size
                             /\ Inserted(n, o)[a].owner = chunk[a].owner
      BY <1>1, <1>3, InsertSound
    <2> QED
      BY <1>1, <1>3, <2>1, ObtainStep DEF Live
  <1>4. ASSUME NEW o \in Owners, NEW r \in Requests, kmalloc(o, r)
        PROVE  Blocks!Next
    BY <1>3, <1>4, AlignRequest DEF kmalloc
  <1>5. ASSUME NEW r \in Requests, kmalloc_refused(r)
        PROVE  UNCHANGED BlockMap
    BY <1>1, <1>5, AlignRequest, LinkedOnlyStutters DEF kmalloc_refused
  <1>6. ASSUME NEW a \in Live, NEW r \in Requests, krealloc_last(chunk[a].owner, a, r)
        PROVE  Blocks!Next
    <2>1. chunk' = [chunk EXCEPT ![a].size = align_size(r)]
      BY <1>6 DEF krealloc_last
    <2>2. /\ Live' = Live /\ chunk'[a].owner = chunk[a].owner
          /\ \A b \in Live \ {a} : /\ chunk'[b].size = chunk[b].size
                                   /\ chunk'[b].owner = chunk[b].owner
      BY <1>1, <2>1 DEF Live, WellFormed
    <2> QED
      BY <1>1, <2>2, ResizeStep
  <1>7. ASSUME NEW a \in Live, NEW r \in Requests, krealloc_moved(chunk[a].owner, a, r)
        PROVE  Blocks!Next
    <2> DEFINE n == align_size(align_size(r))
               o == chunk[a].owner
               after == Inserted(n, o)
    <2>1. /\ chunk' = Removed(after, a)
          /\ head' = IF a = head THEN after[a].next ELSE head
          /\ n \in Nat \ {0} /\ n % 4 = 0
      BY <1>7, AlignRequest DEF krealloc_moved
    <2> HIDE DEF n
    <2>2. head # Null /\ o \in Owners
      BY <1>1, <1>2 DEF Ordered, Live
    <2>3. /\ DOMAIN after = Live \cup {Place(n)}
          /\ Place(n) \notin Live
          /\ \A b \in Live : /\ after[b].size = chunk[b].size
                             /\ after[b].owner = chunk[b].owner
          /\ WellFormed(after) /\ Ordered(after, head)
      BY <1>1, <2>1, <2>2, InsertSound
    <2>4. after[Place(n)].owner = o
      BY <2>1, <2>3 DEF Inserted
    <2>5. /\ DOMAIN chunk' = DOMAIN after \ {a}
          /\ \A b \in DOMAIN after \ {a} : /\ chunk'[b].size = after[b].size
                                           /\ chunk'[b].owner = after[b].owner
      <3> HIDE DEF after
      <3>1. /\ DOMAIN Removed(after, a) = DOMAIN after \ {a}
            /\ \A b \in DOMAIN after \ {a} :
                 /\ Removed(after, a)[b].size = after[b].size
                 /\ Removed(after, a)[b].owner = after[b].owner
        BY <2>1, <2>3, RemoveSound
      <3> QED
        BY <2>1, <3>1, Zenon
    <2>6. Live' = (Live \ {a}) \cup {Place(n)} /\ chunk'[Place(n)].owner = chunk[a].owner
      BY <2>3, <2>4, <2>5 DEF Live
    <2>7. \A b \in Live \ {a} : /\ chunk'[b].size = chunk[b].size
                                /\ chunk'[b].owner = chunk[b].owner
      BY <2>3, <2>5
    <2> QED
      BY <1>1, <2>3, <2>6, <2>7, ResizeStep
  <1>8. ASSUME NEW a \in Live, NEW r \in Requests, krealloc_smashes(chunk[a].owner, a, r)
        PROVE  Blocks!Next
    BY <1>2, <1>3, <1>8, AlignRequest DEF krealloc_smashes
  <1>9. ASSUME NEW a \in Live, NEW r \in Requests, krealloc_refused(a, r)
        PROVE  UNCHANGED BlockMap
    BY <1>1, <1>9, AlignRequest, LinkedOnlyStutters DEF krealloc_refused
  <1>10. ASSUME NEW a \in Live, kfree(chunk[a].owner, a)
         PROVE  Blocks!Next
    <2>1. /\ chunk' = Removed(chunk, a)
          /\ head' = IF a = head THEN chunk[a].next ELSE head
      BY <1>10 DEF kfree
    <2>2. /\ DOMAIN Removed(chunk, a) = DOMAIN chunk \ {a}
          /\ \A b \in DOMAIN chunk \ {a} :
               /\ Removed(chunk, a)[b].size = chunk[b].size
               /\ Removed(chunk, a)[b].owner = chunk[b].owner
      BY <1>1, <2>1, RemoveSound DEF Live
    <2>3. /\ Live' = Live \ {a}
          /\ \A b \in Live' : /\ chunk'[b].size = chunk[b].size
                              /\ chunk'[b].owner = chunk[b].owner
      BY <2>1, <2>2, Zenon DEF Live
    <2> QED
      BY <1>1, <2>3, ReleaseStep
  <1> QED
    BY <1>4, <1>5, <1>6, <1>7, <1>8, <1>9, <1>10 DEF Next

\* The allocator implements the store of disjoint blocks: whatever the list
\* does, a call obtains, resizes or releases the one block it names, or changes
\* no block at all.
THEOREM Refinement == Spec => ImplementsBlockStore
  <1>1. IInv /\ IInv' /\ [Next]_vars => [Blocks!Next]_BlockMap
    BY RefineStep
  <1> QED
    BY <1>1, RefineInit, Invariance, PTL DEF Spec, ImplementsBlockStore, Blocks!Spec
=============================================================================
