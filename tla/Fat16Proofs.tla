----------------------------- MODULE Fat16Proofs -----------------------------
(***************************************************************************)
(* What is proved about the volumes of module Fat16.                       *)
(***************************************************************************)
EXTENDS Fat16, TLAPS, FiniteSetTheorems, WellFoundedInduction

-----------------------------------------------------------------------------
(* Numbers                                                                 *)

\* What the assumption says of each constant.
LEMMA ConstantTypes ==
  /\ FAT_SECTOR_CACHE_SIZE \in Nat /\ FAT_SECTOR_CACHE_SIZE >= 3
  /\ SectorsPerFat \in Nat \ {0} /\ bytes_per_cluster \in Nat \ {0}
  /\ max_root_dentries \in Nat \ {0} /\ MaxSize \in Nat \ {0} /\ MaxWrite \in Nat
  /\ RootSector \in Nat /\ ClusterCount \in Nat /\ ClusterCount >= FAT_SECTOR_CACHE_SIZE
  /\ ClusterCount <= SectorsPerFat * FAT_SECTOR_CACHE_SIZE
  BY Fat16Assumption

\* A set of natural numbers has a least one.
LEMMA Least ==
  ASSUME NEW S \in SUBSET Nat, S # {}
  PROVE  Min(S) \in S /\ \A m \in S : Min(S) <= m
  <1>1. PICK n \in S : \A m \in S : <<m, n>> \notin OpToRel(<, Nat)
    BY NatLessThanWellFounded, WFMin
  <1>2. \A m \in S : ~(m < n)
    BY <1>1 DEF OpToRel
  <1>3. \A m \in S : n <= m
    BY <1>2
  <1> QED
    BY <1>3 DEF Min

\* Induction up to n, with the set of the numbers that are known.
LEMMA Climb ==
  ASSUME NEW n \in Nat, NEW S, 0 \in S, \A k \in 1 .. n : k - 1 \in S => k \in S
  PROVE  0 .. n \subseteq S
  <1> DEFINE Rest == (0 .. n) \ S
  <1>1. ASSUME Rest # {}
        PROVE  FALSE
    <2>1. Rest \in SUBSET Nat
      OBVIOUS
    <2> HIDE DEF Rest
    <2>2. Min(Rest) \in Rest /\ \A m \in Rest : Min(Rest) <= m
      BY <1>1, <2>1, Least
    <2>3. PICK m \in Rest : \A i \in Rest : m <= i
      BY <2>2
    <2>4. m \in 1 .. n /\ m \notin S /\ m - 1 \in 0 .. n
      BY <2>3 DEF Rest
    <2>5. m - 1 \notin Rest
      BY <2>3, <2>4
    <2> QED
      BY <2>4, <2>5 DEF Rest
  <1> QED
    BY <1>1

\* Division with remainder, and that it is the only one.
LEMMA Division ==
  ASSUME NEW x \in Nat, NEW b \in Nat \ {0}
  PROVE  /\ x \div b \in Nat /\ x % b \in 0 .. b - 1
         /\ x = (x \div b) * b + (x % b)
  <1>1. x \div b \in Int /\ x % b \in 0 .. b - 1
    OBVIOUS
  <1>2. x = b * (x \div b) + (x % b)
    OBVIOUS
  <1>3. PICK q \in Int, r \in 0 .. b - 1 : q = x \div b /\ r = x % b
    BY <1>1
  <1>4. x = b * q + r
    BY <1>2, <1>3
  <1>5. q * b = b * q
    OBVIOUS
  <1>6. q >= 0
    <2> SUFFICES ASSUME q < 0
                 PROVE  FALSE
      OBVIOUS
    <2>1. q + 1 <= 0
      OBVIOUS
    <2>2. b * (q + 1) <= 0
      BY <2>1
    <2> QED
      BY <1>4, <2>2
  <1> QED
    BY <1>3, <1>4, <1>5, <1>6

\* Quotient and remainder are the only ones.
LEMMA DivisionUnique ==
  ASSUME NEW q \in Nat, NEW b \in Nat \ {0}, NEW r \in 0 .. b - 1
  PROVE  (q * b + r) \div b = q /\ (q * b + r) % b = r
  OBVIOUS

-----------------------------------------------------------------------------
(* Loops: what holds after every turn                                      *)

\* The states x and what the turns F[1] to F[n] make of it.
Turns(g, F, x, n) == g = [k \in 0 .. n |-> IF k = 0 THEN x ELSE F[k][g[k - 1]]]

\* There are such states, when D[k] is known to hold the one after k turns.
LEMMA TurnsExist ==
  ASSUME NEW n \in Nat, NEW D, NEW F, NEW x \in D[0],
         \A k \in 1 .. n : \A h \in D[k - 1] : F[k][h] \in D[k]
  PROVE  \E g : Turns(g, F, x, n) /\ \A k \in 0 .. n : g[k] \in D[k]
  <1> DEFINE Is(g, m) == /\ Turns(g, F, x, m)
                         /\ \A k \in 0 .. m : g[k] \in D[k]
             S == {m \in 0 .. n : \E g : Is(g, m)}
  <1>1. 0 \in S
    <2> DEFINE h == [k \in 0 .. 0 |-> x]
    <2>1. h = [k \in 0 .. 0 |-> IF k = 0 THEN x ELSE F[k][h[k - 1]]]
      OBVIOUS
    <2>2. \A k \in 0 .. 0 : h[k] \in D[k]
      OBVIOUS
    <2> HIDE DEF h
    <2>3. Is(h, 0)
      BY <2>1, <2>2 DEF Turns
    <2> QED
      BY <2>3
  <1>2. ASSUME NEW m \in 1 .. n, m - 1 \in S
        PROVE  m \in S
    <2>1. PICK g : Is(g, m - 1)
      BY <1>2
    <2>2. /\ g = [k \in 0 .. m - 1 |-> IF k = 0 THEN x ELSE F[k][g[k - 1]]]
          /\ \A k \in 0 .. m - 1 : g[k] \in D[k]
      BY <2>1 DEF Turns
    <2> DEFINE h == [k \in 0 .. m |-> IF k = m THEN F[m][g[m - 1]] ELSE g[k]]
    <2>3. ASSUME NEW k \in 0 .. m
          PROVE  h[k] = (IF k = 0 THEN x ELSE F[k][h[k - 1]]) /\ h[k] \in D[k]
      <3>1. CASE k = m
        <4>1. h[m] = F[m][g[m - 1]] /\ h[m - 1] = g[m - 1] /\ g[m - 1] \in D[m - 1]
          BY <2>2
        <4> HIDE DEF h
        <4> QED
          BY <3>1, <4>1
      <3>2. CASE k # m
        <4>1. k \in 0 .. m - 1 /\ h[k] = g[k] /\ (k # 0 => h[k - 1] = g[k - 1])
          BY <3>2
        <4>2. g[k] = (IF k = 0 THEN x ELSE F[k][g[k - 1]]) /\ g[k] \in D[k]
          BY <2>2, <4>1
        <4> HIDE DEF h
        <4> QED
          BY <4>1, <4>2
      <3> QED
        BY <3>1, <3>2
    <2>4. h = [k \in 0 .. m |-> h[k]]
      OBVIOUS
    <2> HIDE DEF h
    <2>5. h = [k \in 0 .. m |-> IF k = 0 THEN x ELSE F[k][h[k - 1]]]
      BY <2>3, <2>4
    <2>6. Is(h, m)
      BY <2>3, <2>5 DEF Turns
    <2> QED
      BY <2>6
  <1> HIDE DEF S, Is
  <1>3. 0 .. n \subseteq S
    BY <1>1, <1>2, Climb
  <1>4. \E g : Is(g, n)
    BY <1>3 DEF S
  <1> QED
    BY <1>4 DEF Is

\* Every sequence of turns stays where they lead.
LEMMA TurnsStay ==
  ASSUME NEW n \in Nat, NEW D, NEW f, f[0] \in D[0],
         \A k \in 1 .. n : f[k - 1] \in D[k - 1] => f[k] \in D[k]
  PROVE  f[n] \in D[n]
  <1> DEFINE S == {k \in 0 .. n : f[k] \in D[k]}
  <1>1. 0 \in S /\ \A k \in 1 .. n : k - 1 \in S => k \in S
    OBVIOUS
  <1>2. 0 .. n \subseteq S
    <2> HIDE DEF S
    <2> QED
      BY <1>1, Climb
  <1> QED
    BY <1>2

\* So with the loops of the module, one by one.
LEMMA FollowLoop ==
  ASSUME NEW n \in Nat, NEW D, NEW x \in D[0],
         \A k \in 1 .. n : \A h \in D[k - 1] : Follow(h) \in D[k]
  PROVE  Looped(Follow, x, n) \in D[n]
  <1> DEFINE U == UNION {D[k] : k \in 0 .. n}
             F == [k \in 1 .. n |-> [h \in U |-> Follow(h)]]
             Equals(f) == f = [k \in 0 .. n |-> IF k = 0 THEN x ELSE Follow(f[k - 1])]
  <1>1. ASSUME NEW k \in 1 .. n, NEW h \in D[k - 1]
        PROVE  F[k][h] = Follow(h)
    <2>1. k - 1 \in 0 .. n
      OBVIOUS
    <2> QED
      BY <2>1
  <1> HIDE DEF F, U, Equals
  <1>2. \A k \in 1 .. n : \A h \in D[k - 1] : F[k][h] \in D[k]
    BY <1>1
  <1>3. PICK g : Turns(g, F, x, n) /\ \A k \in 0 .. n : g[k] \in D[k]
    BY <1>2, TurnsExist
  <1>4. \A k \in 1 .. n : F[k][g[k - 1]] = Follow(g[k - 1])
    BY <1>1, <1>3
  <1>5. Equals(g)
    BY <1>3, <1>4 DEF Equals, Turns
  <1> DEFINE f == CHOOSE f : Equals(f)
  <1>6. Equals(f) /\ Looped(Follow, x, n) = f[n]
    BY <1>5 DEF Looped, Equals
  <1> HIDE DEF f
  <1>7. f[0] = x /\ \A k \in 1 .. n : f[k] = Follow(f[k - 1])
    BY <1>6 DEF Equals
  <1>8. f[n] \in D[n]
    BY <1>7, TurnsStay
  <1> QED
    BY <1>6, <1>8

\* What each turn of the loop that counts clusters keeps, the loop keeps.
LEMMA DeeperLoop ==
  ASSUME NEW n \in Nat, NEW D, NEW x \in D[0],
         \A k \in 1 .. n : \A h \in D[k - 1] : Deeper(h) \in D[k]
  PROVE  Looped(Deeper, x, n) \in D[n]
  <1> DEFINE U == UNION {D[k] : k \in 0 .. n}
             F == [k \in 1 .. n |-> [h \in U |-> Deeper(h)]]
             Equals(f) == f = [k \in 0 .. n |-> IF k = 0 THEN x ELSE Deeper(f[k - 1])]
  <1>1. ASSUME NEW k \in 1 .. n, NEW h \in D[k - 1]
        PROVE  F[k][h] = Deeper(h)
    <2>1. k - 1 \in 0 .. n
      OBVIOUS
    <2> QED
      BY <2>1
  <1> HIDE DEF F, U, Equals
  <1>2. \A k \in 1 .. n : \A h \in D[k - 1] : F[k][h] \in D[k]
    BY <1>1
  <1>3. PICK g : Turns(g, F, x, n) /\ \A k \in 0 .. n : g[k] \in D[k]
    BY <1>2, TurnsExist
  <1>4. \A k \in 1 .. n : F[k][g[k - 1]] = Deeper(g[k - 1])
    BY <1>1, <1>3
  <1>5. Equals(g)
    BY <1>3, <1>4 DEF Equals, Turns
  <1> DEFINE f == CHOOSE f : Equals(f)
  <1>6. Equals(f) /\ Looped(Deeper, x, n) = f[n]
    BY <1>5 DEF Looped, Equals
  <1> HIDE DEF f
  <1>7. f[0] = x /\ \A k \in 1 .. n : f[k] = Deeper(f[k - 1])
    BY <1>6 DEF Equals
  <1>8. f[n] \in D[n]
    BY <1>7, TurnsStay
  <1> QED
    BY <1>6, <1>8

\* The same for the loop that appends clusters.
LEMMA LongerLoop ==
  ASSUME NEW n \in Nat, NEW D, NEW x \in D[0],
         \A k \in 1 .. n : \A h \in D[k - 1] : Longer(h) \in D[k]
  PROVE  Looped(Longer, x, n) \in D[n]
  <1> DEFINE U == UNION {D[k] : k \in 0 .. n}
             F == [k \in 1 .. n |-> [h \in U |-> Longer(h)]]
             Equals(f) == f = [k \in 0 .. n |-> IF k = 0 THEN x ELSE Longer(f[k - 1])]
  <1>1. ASSUME NEW k \in 1 .. n, NEW h \in D[k - 1]
        PROVE  F[k][h] = Longer(h)
    <2>1. k - 1 \in 0 .. n
      OBVIOUS
    <2> QED
      BY <2>1
  <1> HIDE DEF F, U, Equals
  <1>2. \A k \in 1 .. n : \A h \in D[k - 1] : F[k][h] \in D[k]
    BY <1>1
  <1>3. PICK g : Turns(g, F, x, n) /\ \A k \in 0 .. n : g[k] \in D[k]
    BY <1>2, TurnsExist
  <1>4. \A k \in 1 .. n : F[k][g[k - 1]] = Longer(g[k - 1])
    BY <1>1, <1>3
  <1>5. Equals(g)
    BY <1>3, <1>4 DEF Equals, Turns
  <1> DEFINE f == CHOOSE f : Equals(f)
  <1>6. Equals(f) /\ Looped(Longer, x, n) = f[n]
    BY <1>5 DEF Looped, Equals
  <1> HIDE DEF f
  <1>7. f[0] = x /\ \A k \in 1 .. n : f[k] = Longer(f[k - 1])
    BY <1>6 DEF Equals
  <1>8. f[n] \in D[n]
    BY <1>7, TurnsStay
  <1> QED
    BY <1>6, <1>8

\* The same for the loop that reads a chain.
LEMMA ReadOnLoop ==
  ASSUME NEW n \in Nat, NEW D, NEW x \in D[0],
         \A k \in 1 .. n : \A h \in D[k - 1] : ReadOn(h) \in D[k]
  PROVE  Looped(ReadOn, x, n) \in D[n]
  <1> DEFINE U == UNION {D[k] : k \in 0 .. n}
             F == [k \in 1 .. n |-> [h \in U |-> ReadOn(h)]]
             Equals(f) == f = [k \in 0 .. n |-> IF k = 0 THEN x ELSE ReadOn(f[k - 1])]
  <1>1. ASSUME NEW k \in 1 .. n, NEW h \in D[k - 1]
        PROVE  F[k][h] = ReadOn(h)
    <2>1. k - 1 \in 0 .. n
      OBVIOUS
    <2> QED
      BY <2>1
  <1> HIDE DEF F, U, Equals
  <1>2. \A k \in 1 .. n : \A h \in D[k - 1] : F[k][h] \in D[k]
    BY <1>1
  <1>3. PICK g : Turns(g, F, x, n) /\ \A k \in 0 .. n : g[k] \in D[k]
    BY <1>2, TurnsExist
  <1>4. \A k \in 1 .. n : F[k][g[k - 1]] = ReadOn(g[k - 1])
    BY <1>1, <1>3
  <1>5. Equals(g)
    BY <1>3, <1>4 DEF Equals, Turns
  <1> DEFINE f == CHOOSE f : Equals(f)
  <1>6. Equals(f) /\ Looped(ReadOn, x, n) = f[n]
    BY <1>5 DEF Looped, Equals
  <1> HIDE DEF f
  <1>7. f[0] = x /\ \A k \in 1 .. n : f[k] = ReadOn(f[k - 1])
    BY <1>6 DEF Equals
  <1>8. f[n] \in D[n]
    BY <1>7, TurnsStay
  <1> QED
    BY <1>6, <1>8

\* The same for the loop that gives back a chain.
LEMMA ReleaseLoop ==
  ASSUME NEW n \in Nat, NEW D, NEW x \in D[0],
         \A k \in 1 .. n : \A h \in D[k - 1] : Release(h) \in D[k]
  PROVE  Looped(Release, x, n) \in D[n]
  <1> DEFINE U == UNION {D[k] : k \in 0 .. n}
             F == [k \in 1 .. n |-> [h \in U |-> Release(h)]]
             Equals(f) == f = [k \in 0 .. n |-> IF k = 0 THEN x ELSE Release(f[k - 1])]
  <1>1. ASSUME NEW k \in 1 .. n, NEW h \in D[k - 1]
        PROVE  F[k][h] = Release(h)
    <2>1. k - 1 \in 0 .. n
      OBVIOUS
    <2> QED
      BY <2>1
  <1> HIDE DEF F, U, Equals
  <1>2. \A k \in 1 .. n : \A h \in D[k - 1] : F[k][h] \in D[k]
    BY <1>1
  <1>3. PICK g : Turns(g, F, x, n) /\ \A k \in 0 .. n : g[k] \in D[k]
    BY <1>2, TurnsExist
  <1>4. \A k \in 1 .. n : F[k][g[k - 1]] = Release(g[k - 1])
    BY <1>1, <1>3
  <1>5. Equals(g)
    BY <1>3, <1>4 DEF Equals, Turns
  <1> DEFINE f == CHOOSE f : Equals(f)
  <1>6. Equals(f) /\ Looped(Release, x, n) = f[n]
    BY <1>5 DEF Looped, Equals
  <1> HIDE DEF f
  <1>7. f[0] = x /\ \A k \in 1 .. n : f[k] = Release(f[k - 1])
    BY <1>6 DEF Equals
  <1>8. f[n] \in D[n]
    BY <1>7, TurnsStay
  <1> QED
    BY <1>6, <1>8

-----------------------------------------------------------------------------
(* The table and its cache                                                 *)

Sectors == 0 .. SectorsPerFat - 1
Tables == [Table -> {Free, EndOfChain} \cup Clusters]

\* A volume whose cache holds sector s of the table, as the card has it.
Vol(fat, s) ==
  [fat |-> fat, cache |-> [i \in Slots |-> fat[s * FAT_SECTOR_CACHE_SIZE + i]],
   cached |-> s]

\* No cluster has the number of a mark.
Small == ClusterCount <= 65520

\* On a small volume no cluster has the number of a mark.
LEMMA MarksDiffer ==
  ASSUME Small
  PROVE  /\ Free \notin Clusters /\ EndOfChain \notin Clusters /\ Free # EndOfChain
         /\ IsLast(EndOfChain) /\ ~IsLast(Free) /\ \A c \in Clusters : ~IsLast(c)
         /\ Clusters \subseteq Nat /\ 0 \notin Clusters
  BY ConstantTypes DEF Small, Free, EndOfChain, Clusters, IsLast

\* Every entry has one place in one sector.
LEMMA EntryPlace ==
  ASSUME NEW c \in Table
  PROVE  /\ c \in Nat /\ SectorOf(c) \in Sectors /\ c % FAT_SECTOR_CACHE_SIZE \in Slots
         /\ SectorOf(c) * FAT_SECTOR_CACHE_SIZE + (c % FAT_SECTOR_CACHE_SIZE) = c
  <1> DEFINE F == FAT_SECTOR_CACHE_SIZE
  <1>1. F \in Nat \ {0} /\ c \in Nat /\ SectorsPerFat \in Nat /\ c < SectorsPerFat * F
    BY ConstantTypes DEF Table
  <1>2. PICK q \in Nat, r \in 0 .. F - 1 : q = c \div F /\ r = c % F /\ c = q * F + r
    BY <1>1, Division
  <1>3. q < SectorsPerFat
    <2> SUFFICES ASSUME SectorsPerFat <= q
                 PROVE  FALSE
      BY <1>1
    <2>1. PICK d \in Nat : q = SectorsPerFat + d
      <3>1. q - SectorsPerFat \in Nat
        BY <1>1
      <3> QED
        BY <1>1, <3>1
    <2>2. q * F = SectorsPerFat * F + d * F
      BY <1>1, <2>1
    <2>3. d * F \in Nat /\ SectorsPerFat * F \in Nat
      BY <1>1
    <2> HIDE DEF F
    <2> QED
      BY <1>1, <1>2, <2>2, <2>3
  <1> QED
    BY <1>1, <1>2, <1>3 DEF SectorOf, Sectors, Slots

\* The entry at place i of sector s of the table.
LEMMA PlaceEntry ==
  ASSUME NEW s \in Sectors, NEW i \in Slots
  PROVE  LET c == s * FAT_SECTOR_CACHE_SIZE + i
         IN  c \in Table /\ SectorOf(c) = s /\ c % FAT_SECTOR_CACHE_SIZE = i
  <1> DEFINE F == FAT_SECTOR_CACHE_SIZE
  <1>1. F \in Nat \ {0} /\ SectorsPerFat \in Nat /\ s \in Nat /\ i \in 0 .. F - 1
        /\ s + 1 <= SectorsPerFat
    BY ConstantTypes DEF Sectors, Slots
  <1>2. (s * F + i) \div F = s /\ (s * F + i) % F = i
    BY <1>1, DivisionUnique
  <1>3. PICK d \in Nat : SectorsPerFat = s + 1 + d
    <2>1. SectorsPerFat - s - 1 \in Nat
      BY <1>1
    <2> QED
      BY <1>1, <2>1
  <1>4. SectorsPerFat * F = s * F + F + d * F
    BY <1>1, <1>3
  <1>5. s * F \in Nat /\ d * F \in Nat
    BY <1>1, <1>3
  <1>6. s * F + i \in 0 .. SectorsPerFat * F - 1
    <2> HIDE DEF F
    <2> QED
      BY <1>1, <1>4, <1>5
  <1> QED
    BY <1>2, <1>6 DEF SectorOf, Table

\* Every cluster has an entry in the table.
LEMMA ClustersAreEntries == Clusters \subseteq Table
  <1>1. SectorsPerFat * FAT_SECTOR_CACHE_SIZE \in Nat
    BY ConstantTypes
  <1> QED
    BY <1>1, ConstantTypes DEF Clusters, Table

\* The cache of such a volume serves every entry: what a look-up finds, and the
\* volume it leaves behind.
LEMMA NextFound ==
  ASSUME NEW fat \in Tables, NEW s \in Sectors, NEW c \in Table
  PROVE  FAT16_find_next_cluster(Vol(fat, s), c) =
           [volume |-> Vol(fat, SectorOf(c)), at |-> fat[c]]
  <1>1. WithCached(Vol(fat, s), c) = Vol(fat, SectorOf(c))
    BY DEF WithCached, Vol, Loaded
  <1>2. Vol(fat, SectorOf(c)).cache[c % FAT_SECTOR_CACHE_SIZE] = fat[c]
    BY EntryPlace DEF Vol
  <1> QED
    BY <1>1, <1>2 DEF FAT16_find_next_cluster

\* A volume with another table and cache.
Rewrite(v, fat, cache) == [v EXCEPT !.cache = cache, !.fat = fat]

\* A volume with another table and cache.
LEMMA Rewritten ==
  ASSUME NEW fat, NEW cache, NEW cached, NEW newfat, NEW newcache,
         NEW v, v = [fat |-> fat, cache |-> cache, cached |-> cached]
  PROVE  Rewrite(v, newfat, newcache) = [fat |-> newfat, cache |-> newcache, cached |-> cached]
  <1>1. PICK A, B, C : A = {fat, newfat} /\ B = {cache, newcache} /\ C = {cached}
    OBVIOUS
  <1>2. fat \in A /\ newfat \in A /\ cache \in B /\ newcache \in B /\ cached \in C
    BY <1>1
  <1>3. v \in [fat : A, cache : B, cached : C]
    BY <1>2
  <1> DEFINE u == Rewrite(v, newfat, newcache)
  <1>4. u \in [fat : A, cache : B, cached : C]
    BY <1>2, <1>3 DEF Rewrite
  <1>5. u.fat = newfat /\ u.cache = newcache /\ u.cached = cached
    BY <1>2, <1>3 DEF Rewrite
  <1> HIDE DEF u
  <1>6. u = [fat |-> newfat, cache |-> newcache, cached |-> cached]
    BY <1>4, <1>5
  <1> QED
    BY <1>6 DEF u

\* An entry is changed on the card and in the cache.
LEMMA ClusterMarked ==
  ASSUME NEW fat \in Tables, NEW s \in Sectors, NEW c \in Table,
         NEW x \in {Free, EndOfChain} \cup Clusters
  PROVE  /\ FAT16_mark_cluster(Vol(fat, s), c, x) = Vol([fat EXCEPT ![c] = x], SectorOf(c))
         /\ [fat EXCEPT ![c] = x] \in Tables /\ SectorOf(c) \in Sectors
  <1> DEFINE F == FAT_SECTOR_CACHE_SIZE
             q == SectorOf(c)
             new == [fat EXCEPT ![c] = x]
             w == WithCached(Vol(fat, s), c)
             cache == [w.cache EXCEPT ![c % F] = x]
             card == [t \in Table |-> IF SectorOf(t) = q THEN cache[t % F] ELSE w.fat[t]]
  <1>1. w = Vol(fat, q)
    BY DEF WithCached, Vol, Loaded
  <1>2. q \in Sectors /\ c % F \in Slots /\ q * F + (c % F) = c
    BY EntryPlace
  <1>3. new \in Tables
    BY DEF Tables
  <1>4. cache = [i \in Slots |-> new[q * F + i]]
    <2>1. cache = [i \in Slots |-> IF i = c % F THEN x ELSE fat[q * F + i]]
      BY <1>1 DEF Vol
    <2>2. ASSUME NEW i \in Slots
          PROVE  new[q * F + i] = IF i = c % F THEN x ELSE fat[q * F + i]
      <3>1. q * F + i \in Table /\ (q * F + i) % F = i
        BY <1>2, PlaceEntry
      <3>2. q * F + i = c <=> i = c % F
        BY <1>2, <3>1
      <3> QED
        BY <3>1, <3>2 DEF Tables
    <2> HIDE DEF cache, q, F, new
    <2> QED
      BY <2>1, <2>2
  <1>5. card = new
    <2>1. ASSUME NEW t \in Table
          PROVE  card[t] = new[t]
      <3>1. SectorOf(t) \in Sectors /\ t % F \in Slots /\ SectorOf(t) * F + (t % F) = t
        BY EntryPlace
      <3>2. CASE SectorOf(t) = q
        <4>1. card[t] = cache[t % F]
          BY <3>2
        <4> HIDE DEF cache, card
        <4> QED
          BY <1>4, <3>1, <3>2, <4>1
      <3>3. CASE SectorOf(t) # q
        BY <1>1, <3>3 DEF Vol, Tables
      <3> QED
        BY <3>2, <3>3
    <2>2. card = [t \in Table |-> card[t]]
      OBVIOUS
    <2> HIDE DEF card, new
    <2>3. new = [t \in Table |-> new[t]]
      BY <1>3 DEF Tables
    <2> QED
      BY <2>1, <2>2, <2>3
  <1>6. FAT16_mark_cluster(Vol(fat, s), c, x) = Rewrite(w, card, cache)
    BY DEF FAT16_mark_cluster, Rewrite
  <1> HIDE DEF w, cache, card
  <1>7. Rewrite(w, card, cache) = Vol(new, q)
    <2>1. PICK nf, nq : nf = new /\ nq = q
      OBVIOUS
    <2>2. PICK was : was = [i \in Slots |-> fat[nq * F + i]]
      OBVIOUS
    <2>3. Rewrite(w, card, cache) = [fat |-> card, cache |-> cache, cached |-> nq]
      <3>1. w = [fat |-> fat, cache |-> was, cached |-> nq]
        BY <1>1, <2>1, <2>2 DEF Vol
      <3> QED
        BY <3>1, Rewritten
    <2> HIDE DEF new, q
    <2>4. Vol(nf, nq) = [fat |-> nf, cache |-> [i \in Slots |-> nf[nq * F + i]], cached |-> nq]
      BY DEF Vol
    <2> QED
      BY <1>4, <1>5, <2>1, <2>3, <2>4
  <1> QED
    BY <1>2, <1>3, <1>6, <1>7

\* The search for a free cluster, whatever sector the cache holds.
LEMMA SearchedClusters == Searched \subseteq Clusters /\ Max(Searched) \in Searched
  <1> DEFINE F == FAT_SECTOR_CACHE_SIZE
             q == ClusterCount \div F
             u == q * F - 1
  <1>1. F \in Nat \ {0} /\ F >= 3 /\ ClusterCount \in Nat /\ ClusterCount >= F
    BY ConstantTypes
  <1>2. q \in Nat /\ ClusterCount % F \in 0 .. F - 1 /\ ClusterCount = q * F + (ClusterCount % F)
    BY <1>1, Division
  <1>3. q * F \in Nat
    BY <1>1, <1>2
  <1>4. u \in Nat /\ u <= ClusterCount - 1 /\ 2 <= u
    <2>1. PICK z \in Nat, r \in 0 .. F - 1 : z = q * F /\ ClusterCount = z + r
      BY <1>2, <1>3
    <2>2. q # 0
      BY <1>1, <1>2
    <2>3. z >= F
      BY <1>1, <1>2, <2>1, <2>2
    <2> QED
      BY <1>1, <2>1, <2>3
  <1>5. Searched = 2 .. u
    BY DEF Searched
  <1> HIDE DEF u
  <1>6. u \in Searched /\ \A m \in Searched : u >= m
    BY <1>4, <1>5
  <1>7. Max(Searched) \in Searched
    BY <1>6 DEF Max
  <1> QED
    BY <1>4, <1>5, <1>7, ConstantTypes DEF Clusters

\* Loading a sector of the table replaces the one in the cache.
LEMMA LoadedSector ==
  ASSUME NEW fat, NEW s, NEW t
  PROVE  Loaded(Vol(fat, s), t) = Vol(fat, t)
  <1> DEFINE Held(q) == [i \in Slots |-> fat[q * FAT_SECTOR_CACHE_SIZE + i]]
  <1>1. PICK A, B, C : A = {fat} /\ B = {Held(s), Held(t)} /\ C = {s, t}
    OBVIOUS
  <1>2. fat \in A /\ {Held(s), Held(t)} \subseteq B /\ {s, t} \subseteq C
    BY <1>1
  <1>3. Vol(fat, s) = [fat |-> fat, cache |-> Held(s), cached |-> s]
        /\ Vol(fat, t) = [fat |-> fat, cache |-> Held(t), cached |-> t]
    BY DEF Vol
  <1>4. Vol(fat, s) \in [fat : A, cache : B, cached : C] /\ Vol(fat, s).fat = fat
    BY <1>2, <1>3
  <1>5. Loaded(Vol(fat, s), t) = [Vol(fat, s) EXCEPT !.cached = t, !.cache = Held(t)]
    BY <1>4 DEF Loaded
  <1> HIDE DEF Held
  <1>6. Loaded(Vol(fat, s), t) \in [fat : A, cache : B, cached : C]
    BY <1>2, <1>4, <1>5
  <1>7. /\ Loaded(Vol(fat, s), t).fat = fat /\ Loaded(Vol(fat, s), t).cached = t
        /\ Loaded(Vol(fat, s), t).cache = Held(t)
    BY <1>2, <1>4, <1>5
  <1> QED
    BY <1>3, <1>6, <1>7

\* The search for a free cluster finds one, or 0.
LEMMA FreeFound ==
  ASSUME NEW fat \in Tables, NEW s \in Sectors
  PROVE  \E t \in Sectors, c \in {0} \cup Clusters :
           /\ FAT16_find_next_free_cluster(Vol(fat, s)) = [volume |-> Vol(fat, t), at |-> c]
           /\ c # 0 => fat[c] = Free
  <1> DEFINE free == {c \in Searched : fat[c] = Free}
             found == IF free = {} THEN 0 ELSE Min(free)
             last == IF free = {} THEN Max(Searched) ELSE found
  <1>1. free # {} => Min(free) \in free
    <2>1. Clusters \subseteq Nat
      BY ConstantTypes DEF Clusters
    <2>2. free \in SUBSET Nat
      BY <2>1, SearchedClusters
    <2> HIDE DEF free
    <2> QED
      BY <2>2, Least
  <1>2. last \in Clusters /\ found \in {0} \cup Clusters /\ (found # 0 => fat[found] = Free)
    BY <1>1, SearchedClusters
  <1>3. SectorOf(last) \in Sectors
    BY <1>2, ClustersAreEntries, EntryPlace
  <1>4. Loaded(Vol(fat, s), SectorOf(last)) = Vol(fat, SectorOf(last))
    BY LoadedSector
  <1>5. FAT16_find_next_free_cluster(Vol(fat, s)) =
          [volume |-> Loaded(Vol(fat, s), SectorOf(last)), at |-> found]
    BY DEF FAT16_find_next_free_cluster, Vol
  <1> HIDE DEF last, found
  <1> QED
    BY <1>2, <1>3, <1>4, <1>5

-----------------------------------------------------------------------------
(* Chains                                                                  *)

\* The clusters p[0] to p[n - 1] are a chain in the table.
Chain(fat, n, p) ==
  /\ n \in Nat /\ p \in [Nat -> Clusters]
  /\ \A i \in 0 .. n - 1 : fat[p[i]] = (IF i + 1 = n THEN EndOfChain ELSE p[i + 1])
  /\ \A i, j \in 0 .. n - 1 : p[i] = p[j] => i = j

\* A chain has no more clusters than the card.
LEMMA ChainShort ==
  ASSUME NEW fat, NEW n, NEW p, Chain(fat, n, p)
  PROVE  n <= ClusterCount
  <1> SUFFICES ASSUME n > ClusterCount
               PROVE  FALSE
    BY ConstantTypes DEF Chain
  <1> DEFINE S == 0 .. n - 1
             f == [i \in S |-> p[i]]
  <1>1. n \in Nat /\ ClusterCount \in Nat /\ ClusterCount >= 3
    BY ConstantTypes DEF Chain
  <1>2. IsFiniteSet(S) /\ Cardinality(S) = n
    <2>1. 0 \in Int /\ n - 1 \in Int /\ 0 <= n - 1 /\ n - 1 - 0 + 1 = n
      BY <1>1
    <2> QED
      BY <1>1, <2>1, FS_Interval
  <1>3. IsFiniteSet(Clusters) /\ Cardinality(Clusters) = ClusterCount - 2
    <2>1. ClusterCount - 1 \in Int /\ ClusterCount - 1 - 2 + 1 = ClusterCount - 2 /\ 2 <= ClusterCount - 1
      BY <1>1
    <2> QED
      BY <1>1, <2>1, FS_Interval DEF Clusters
  <1>4. f \in [S -> Clusters]
    BY DEF Chain
  <1>5. Cardinality(Clusters) < Cardinality(S)
    BY <1>1, <1>2, <1>3
  <1> HIDE DEF f, S
  <1>6. PICK i, j \in S : i # j /\ f[i] = f[j]
    BY <1>2, <1>3, <1>4, <1>5, FS_PigeonHole
  <1> QED
    BY <1>6 DEF f, S, Chain

\* A look at cluster c, with any sector of the table in the cache.
At(fat, c) == {[volume |-> Vol(fat, t), at |-> c] : t \in Sectors}

\* Where a walk is.
LEMMA AtFields ==
  ASSUME NEW fat, NEW c, NEW h \in At(fat, c)
  PROVE  h.at = c /\ \E t \in Sectors : h.volume = Vol(fat, t)
  <1>1. PICK t \in Sectors : h = [volume |-> Vol(fat, t), at |-> c]
    BY DEF At
  <1> QED
    BY <1>1

\* A walk goes on to the next cluster of the chain.
LEMMA FollowAt ==
  ASSUME NEW fat \in Tables, NEW c \in Table, NEW h \in At(fat, c)
  PROVE  Follow(h) \in At(fat, fat[c])
  <1>1. PICK t \in Sectors : h = [volume |-> Vol(fat, t), at |-> c]
    BY DEF At
  <1>2. Follow(h) = FAT16_find_next_cluster(Vol(fat, t), c)
    BY <1>1 DEF Follow
  <1>3. Follow(h) = [volume |-> Vol(fat, SectorOf(c)), at |-> fat[c]]
    BY <1>2, NextFound
  <1> QED
    BY <1>3, EntryPlace DEF At

\* A walk finds the clusters of a chain, one after the other.
LEMMA WalkChain ==
  ASSUME NEW fat \in Tables, NEW s \in Sectors, NEW n, NEW p, Chain(fat, n, p),
         NEW k \in 0 .. n - 1
  PROVE  Walk(Vol(fat, s), p[0], k) \in At(fat, p[k])
  <1> DEFINE D == [i \in 0 .. k |-> At(fat, p[i])]
             x == [volume |-> Vol(fat, s), at |-> p[0]]
  <1>1. n \in Nat /\ k \in Nat
    BY DEF Chain
  <1>2. x \in D[0]
    BY <1>1 DEF At
  <1>3. ASSUME NEW i \in 1 .. k, NEW h \in D[i - 1]
        PROVE  Follow(h) \in D[i]
    <2>1. i - 1 \in 0 .. n - 1 /\ i - 1 \in 0 .. k /\ i # n /\ (i - 1) + 1 = i /\ i \in 0 .. k
      BY <1>1
    <2>2. p[i - 1] \in Table /\ fat[p[i - 1]] = p[i]
      BY <2>1, ClustersAreEntries DEF Chain
    <2>3. h \in At(fat, p[i - 1])
      BY <2>1
    <2>4. Follow(h) \in At(fat, p[i])
      BY <2>2, <2>3, FollowAt
    <2> QED
      BY <2>1, <2>4
  <1> HIDE DEF D, x
  <1>4. Looped(Follow, x, k) \in D[k]
    BY <1>1, <1>2, <1>3, FollowLoop
  <1> QED
    BY <1>1, <1>4 DEF D, x, Walk

\* The walk to the last cluster of a chain, which counts them.
DeepAt(fat, c, d) == {[volume |-> Vol(fat, t), at |-> c, depth |-> d] : t \in Sectors}

\* Counting stops at the last cluster and goes on before it.
LEMMA DeeperAt ==
  ASSUME Small, NEW fat \in Tables, NEW c \in Clusters, NEW d \in Nat, NEW h \in DeepAt(fat, c, d)
  PROVE  /\ fat[c] = EndOfChain => Deeper(h) \in DeepAt(fat, c, d)
         /\ fat[c] \in Clusters => Deeper(h) \in DeepAt(fat, fat[c], d + 1)
  <1>1. PICK t \in Sectors : h = [volume |-> Vol(fat, t), at |-> c, depth |-> d]
    BY DEF DeepAt
  <1>2. c \in Table
    BY ClustersAreEntries
  <1>3. PICK q \in Sectors : q = SectorOf(c)
    BY <1>2, EntryPlace
  <1>4. Follow(h) = FAT16_find_next_cluster(Vol(fat, t), c)
    BY <1>1 DEF Follow
  <1>5. Follow(h) = [volume |-> Vol(fat, q), at |-> fat[c]]
    BY <1>2, <1>3, <1>4, NextFound
  <1>6. CASE fat[c] = EndOfChain
    <2>1. PICK v, w : v = Vol(fat, t) /\ w = Vol(fat, q)
      OBVIOUS
    <2>2. h \in [volume : {v, w}, at : Clusters, depth : Nat]
      BY <1>1, <2>1
    <2>3. Deeper(h) = [h EXCEPT !.volume = w]
      BY <1>5, <1>6, <2>1, MarksDiffer DEF Deeper
    <2>4. Deeper(h) = [volume |-> w, at |-> c, depth |-> d]
      BY <1>1, <2>2, <2>3
    <2>5. Deeper(h) \in DeepAt(fat, c, d)
      BY <2>1, <2>4 DEF DeepAt
    <2> QED
      BY <1>6, <2>5, MarksDiffer
  <1>7. CASE fat[c] \in Clusters
    <2>1. ~IsLast(fat[c])
      BY <1>7, MarksDiffer
    <2>2. Deeper(h) = [volume |-> Vol(fat, q), at |-> fat[c], depth |-> d + 1]
      BY <1>1, <1>5, <2>1 DEF Deeper
    <2>3. Deeper(h) \in DeepAt(fat, fat[c], d + 1)
      BY <2>2 DEF DeepAt
    <2> QED
      BY <1>7, <2>3, MarksDiffer
  <1> QED
    BY <1>6, <1>7

\* find_last_cluster ends at the last cluster and knows its depth.
LEMMA LastFound ==
  ASSUME Small, NEW fat \in Tables, NEW s \in Sectors, NEW n, NEW p, Chain(fat, n, p), n # 0
  PROVE  LastOf(Vol(fat, s), p[0]) \in DeepAt(fat, p[n - 1], n)
  <1> DEFINE m(k) == IF k < n THEN k ELSE n - 1
             D == [k \in 0 .. ClusterCount |-> DeepAt(fat, p[m(k)], m(k) + 1)]
             x == [volume |-> Vol(fat, s), at |-> p[0], depth |-> 1]
  <1>1. n \in Nat /\ ClusterCount \in Nat /\ n <= ClusterCount
    BY ChainShort, ConstantTypes DEF Chain
  <1>2. x \in D[0]
    BY <1>1 DEF DeepAt
  <1>3. ASSUME NEW k \in 1 .. ClusterCount, NEW h \in D[k - 1]
        PROVE  Deeper(h) \in D[k]
    <2>1. PICK i \in 0 .. n - 1 : i = m(k - 1)
      BY <1>1
    <2>2. p[i] \in Clusters /\ fat[p[i]] = (IF i + 1 = n THEN EndOfChain ELSE p[i + 1])
      BY <2>1 DEF Chain
    <2>3. h \in DeepAt(fat, p[i], i + 1) /\ i + 1 \in Nat
      BY <1>1, <2>1
    <2>4. CASE i + 1 = n
      <3>1. m(k) = i
        BY <1>1, <2>1, <2>4
      <3>2. Deeper(h) \in DeepAt(fat, p[i], i + 1)
        BY <2>2, <2>3, <2>4, DeeperAt
      <3> QED
        BY <1>1, <3>1, <3>2
    <2>5. CASE i + 1 # n
      <3>1. m(k) = i + 1
        BY <1>1, <2>1, <2>5
      <3>2. p[i + 1] \in Clusters
        BY <1>1, <2>1 DEF Chain
      <3>3. Deeper(h) \in DeepAt(fat, p[i + 1], i + 1 + 1)
        BY <2>2, <2>3, <2>5, <3>2, DeeperAt
      <3> QED
        BY <1>1, <3>1, <3>3
    <2> QED
      BY <2>4, <2>5
  <1> HIDE DEF D, x
  <1>4. Looped(Deeper, x, ClusterCount) \in D[ClusterCount]
    BY <1>1, <1>2, <1>3, DeeperLoop
  <1>5. m(ClusterCount) = n - 1 /\ (n - 1) + 1 = n
    BY <1>1
  <1>6. D[ClusterCount] = DeepAt(fat, p[n - 1], n)
    BY <1>1, <1>5 DEF D
  <1> QED
    BY <1>4, <1>6 DEF x, LastOf

\* A chain that has grown by clusters that were free.
Grown(fat, n, p, fat2, n2, p2) ==
  /\ Chain(fat2, n2, p2) /\ n <= n2
  /\ \A i \in 0 .. n - 1 : p2[i] = p[i]
  /\ \A i \in n .. n2 - 1 : fat[p2[i]] = Free
  /\ \A t \in Table : fat2[t] = fat[t] \/ \E i \in 0 .. n2 - 1 : t = p2[i]

\* The table after cluster `new' was put behind cluster c.
Link(fat, c, new) == [[fat EXCEPT ![c] = new] EXCEPT ![new] = EndOfChain]

\* Linking a new cluster changes the table only as Link says.
LEMMA LinkedVolume ==
  ASSUME NEW fat \in Tables, NEW s \in Sectors, NEW c \in Clusters, NEW new \in Clusters,
         NEW fat2, fat2 = Link(fat, c, new)
  PROVE  /\ fat2 \in Tables
         /\ \E t \in Sectors : Linked(Vol(fat, s), c, new) = Vol(fat2, t)
  <1>1. PICK mid : mid = [fat EXCEPT ![c] = new]
    OBVIOUS
  <1>2. PICK q \in Sectors : FAT16_mark_cluster(Vol(fat, s), c, new) = Vol(mid, q)
                             /\ mid \in Tables
    BY <1>1, ClusterMarked, ClustersAreEntries
  <1>3. PICK t \in Sectors : FAT16_mark_cluster(Vol(mid, q), new, EndOfChain)
                               = Vol([mid EXCEPT ![new] = EndOfChain], t)
                             /\ [mid EXCEPT ![new] = EndOfChain] \in Tables
    BY <1>2, ClusterMarked, ClustersAreEntries
  <1> QED
    BY <1>1, <1>2, <1>3 DEF Linked, Link

\* A chain grown by a free cluster is grown by one more.
LEMMA ChainGrows ==
  ASSUME Small, NEW fat \in Tables, NEW n, NEW p, n # 0,
         NEW fat1 \in Tables, NEW n1, NEW p1, Grown(fat, n, p, fat1, n1, p1), n \in Nat,
         NEW new \in Clusters, fat1[new] = Free, 
         NEW fat2, fat2 = Link(fat1, p1[n1 - 1], new)
  PROVE  Grown(fat, n, p, fat2, n1 + 1, [p1 EXCEPT ![n1] = new])
  <1> DEFINE p2 == [p1 EXCEPT ![n1] = new]
  <1>1. n1 \in Nat /\ n1 # 0 /\ n <= n1 /\ p1 \in [Nat -> Clusters] /\ p1[n1 - 1] \in Clusters
    BY DEF Grown, Chain
  <1>2. p2 \in [Nat -> Clusters] /\ p2[n1] = new /\ \A i \in 0 .. n1 - 1 : p2[i] = p1[i]
    BY <1>1
  <1>3. \A i \in 0 .. n1 - 1 : fat1[p1[i]] \in {EndOfChain} \cup Clusters /\ p1[i] # new
    <2> TAKE i \in 0 .. n1 - 1
    <2>1. fat1[p1[i]] = (IF i + 1 = n1 THEN EndOfChain ELSE p1[i + 1])
      BY DEF Grown, Chain
    <2>2. i + 1 \in Nat
      OBVIOUS
    <2>3. fat1[p1[i]] \in {EndOfChain} \cup Clusters
      BY <1>1, <2>1, <2>2
    <2> QED
      BY <2>3, MarksDiffer
  <1>4. fat2 \in [Table -> {Free, EndOfChain} \cup Clusters] /\ fat2[new] = EndOfChain
        /\ fat2[p1[n1 - 1]] = new
        /\ \A t \in Table : t \notin {new, p1[n1 - 1]} => fat2[t] = fat1[t]
    <2>1. p1[n1 - 1] # new
      BY <1>1, <1>3
    <2> QED
      BY <1>1, <2>1, ClustersAreEntries DEF Tables, Link
  <1> HIDE DEF p2
  <1>5. Chain(fat2, n1 + 1, p2)
    <2>1. ASSUME NEW i \in 0 .. n1
          PROVE  fat2[p2[i]] = (IF i + 1 = n1 + 1 THEN EndOfChain ELSE p2[i + 1])
      <3>1. CASE i = n1
        BY <1>2, <1>4, <3>1
      <3>2. CASE i = n1 - 1
        BY <1>1, <1>2, <1>4, <3>2
      <3>3. CASE i < n1 - 1
        <4>1. i \in 0 .. n1 - 1 /\ i + 1 \in 0 .. n1 - 1 /\ n1 - 1 \in 0 .. n1 - 1
          BY <1>1, <3>3
        <4>2. p2[i] = p1[i] /\ p2[i + 1] = p1[i + 1] /\ p1[i] # new /\ p1[i] \in Table
          BY <1>1, <1>2, <1>3, <4>1, ClustersAreEntries
        <4>3. p1[i] # p1[n1 - 1] /\ fat1[p1[i]] = p1[i + 1]
          BY <3>3, <4>1, <1>1 DEF Grown, Chain
        <4> QED
          BY <1>1, <1>4, <3>3, <4>2, <4>3
      <3> QED
        BY <1>1, <3>1, <3>2, <3>3
    <2>2. ASSUME NEW i \in 0 .. n1, NEW j \in 0 .. n1, p2[i] = p2[j]
          PROVE  i = j
      <3>1. CASE i # n1 /\ j # n1
        <4>1. i \in 0 .. n1 - 1 /\ j \in 0 .. n1 - 1
          BY <1>1, <3>1
        <4>2. p1[i] = p1[j]
          BY <1>2, <2>2, <4>1
        <4> QED
          BY <4>1, <4>2 DEF Grown, Chain
      <3>2. CASE i = n1 /\ j # n1
        <4>1. j \in 0 .. n1 - 1
          BY <1>1, <3>2
        <4> QED
          BY <1>2, <1>3, <2>2, <3>2, <4>1
      <3>3. CASE i # n1 /\ j = n1
        <4>1. i \in 0 .. n1 - 1
          BY <1>1, <3>3
        <4> QED
          BY <1>2, <1>3, <2>2, <3>3, <4>1
      <3> QED
        BY <3>1, <3>2, <3>3
    <2>3. (n1 + 1) - 1 = n1 /\ n1 + 1 \in Nat
      BY <1>1
    <2> QED
      BY <1>2, <2>1, <2>2, <2>3 DEF Chain
  <1>6. \A i \in 0 .. n - 1 : p2[i] = p[i]
    BY <1>1, <1>2 DEF Grown
  <1>7. ASSUME NEW i \in n .. n1
        PROVE  fat[p2[i]] = Free
    <2>1. CASE i = n1
      <3>1. \A k \in 0 .. n1 - 1 : new # p1[k]
        BY <1>3
      <3>2. fat1[new] = fat[new]
        BY <3>1, ClustersAreEntries DEF Grown
      <3> QED
        BY <1>2, <2>1, <3>2
    <2>2. CASE i # n1
      <3>1. i \in n .. n1 - 1 /\ i \in 0 .. n1 - 1
        BY <1>1, <2>2
      <3> QED
        BY <1>2, <3>1 DEF Grown
    <2> QED
      BY <2>1, <2>2
  <1>8. ASSUME NEW t \in Table, fat2[t] # fat[t]
        PROVE  \E i \in 0 .. n1 : t = p2[i]
    <2>1. CASE t = new
      BY <1>1, <1>2, <2>1
    <2>2. CASE t = p1[n1 - 1]
      <3>1. n1 - 1 \in 0 .. n1 /\ p2[n1 - 1] = t
        BY <1>1, <1>2, <2>2
      <3> QED
        BY <3>1
    <2>3. CASE t \notin {new, p1[n1 - 1]}
      <3>1. fat1[t] # fat[t]
        BY <1>4, <1>8, <2>3
      <3>2. PICK i \in 0 .. n1 - 1 : t = p1[i]
        BY <3>1 DEF Grown
      <3> QED
        BY <1>1, <1>2, <3>2
    <2> QED
      BY <2>1, <2>2, <2>3
  <1>9. (n1 + 1) - 1 = n1 /\ n <= n1 + 1
    BY <1>1
  <1> QED
    BY <1>5, <1>6, <1>7, <1>8, <1>9 DEF Grown, p2

\* What k turns of the loop that extends a chain may reach.
Volumes == {Vol(fat, t) : fat \in Tables, t \in Sectors}
Reached(fat, n, p, k) ==
  {h \in [volume : Volumes, at : Clusters, full : BOOLEAN] :
     \E fat2 \in Tables, t \in Sectors, n2 \in Nat, p2 \in [Nat -> Clusters] :
       /\ Grown(fat, n, p, fat2, n2, p2)
       /\ h.volume = Vol(fat2, t) /\ h.at = p2[n2 - 1]
       /\ h.full \/ n2 = n + k}

\* One more turn appends one more cluster, or finds the card full.
LEMMA LongerReaches ==
  ASSUME Small, NEW fat \in Tables, NEW n \in Nat \ {0}, NEW p, NEW k \in Nat,
         NEW h \in Reached(fat, n, p, k)
  PROVE  Longer(h) \in Reached(fat, n, p, k + 1)
  <1>1. PICK fat1 \in Tables, s \in Sectors, n1 \in Nat, p1 \in [Nat -> Clusters] :
          /\ Grown(fat, n, p, fat1, n1, p1)
          /\ h.volume = Vol(fat1, s) /\ h.at = p1[n1 - 1]
          /\ h.full \/ n1 = n + k
    BY DEF Reached
  <1>2. h \in [volume : Volumes, at : Clusters, full : BOOLEAN] /\ n1 \in Nat \ {0}
        /\ p1[n1 - 1] \in Clusters
    BY <1>1 DEF Reached, Grown
  <1>3. PICK t \in Sectors, new \in {0} \cup Clusters :
           /\ FAT16_find_next_free_cluster(Vol(fat1, s)) = [volume |-> Vol(fat1, t), at |-> new]
           /\ new # 0 => fat1[new] = Free
    BY FreeFound
  <1>4. CASE h.full
    <2>1. Longer(h) = h
      BY <1>4 DEF Longer
    <2> QED
      BY <1>1, <1>2, <1>4, <2>1 DEF Reached
  <1>5. CASE ~h.full /\ new = 0
    <2>1. PICK v : v = Vol(fat1, t) /\ v \in Volumes
      BY DEF Volumes
    <2>2. Longer(h) = [h EXCEPT !.volume = v, !.full = TRUE]
      BY <1>1, <1>3, <1>5, <2>1 DEF Longer
    <2>3. /\ Longer(h) \in [volume : Volumes, at : Clusters, full : BOOLEAN]
          /\ Longer(h).volume = v /\ Longer(h).at = h.at /\ Longer(h).full = TRUE
      BY <1>2, <2>1, <2>2
    <2> QED
      BY <1>1, <2>1, <2>3 DEF Reached
  <1>6. CASE ~h.full /\ new # 0
    <2>1. new \in Clusters /\ fat1[new] = Free
      BY <1>3, <1>6
    <2> PICK c \in Clusters : c = p1[n1 - 1]
      BY <1>2
    <2>2. PICK fat2 : fat2 = Link(fat1, c, new)
      OBVIOUS
    <2>3. fat2 \in Tables /\ \E q \in Sectors : Linked(Vol(fat1, t), c, new) = Vol(fat2, q)
      BY <2>1, <2>2, LinkedVolume
    <2>4. PICK q \in Sectors : Linked(Vol(fat1, t), c, new) = Vol(fat2, q)
      BY <2>3
    <2>5. Longer(h) = [volume |-> Vol(fat2, q), at |-> new, full |-> FALSE]
      <3> PICK found : found = FAT16_find_next_free_cluster(h.volume)
        OBVIOUS
      <3>1. found.volume = Vol(fat1, t) /\ found.at = new /\ h.at = c
        BY <1>1, <1>3
      <3>2. Longer(h) = [volume |-> Linked(found.volume, h.at, found.at),
                         at |-> found.at, full |-> FALSE]
        BY <1>6, <3>1 DEF Longer
      <3> QED
        BY <2>4, <3>1, <3>2
    <2>6. Vol(fat2, q) \in Volumes
      BY <2>3 DEF Volumes
    <2>7. PICK p2 : p2 = [p1 EXCEPT ![n1] = new]
      OBVIOUS
    <2>8. Grown(fat, n, p, fat2, n1 + 1, p2)
      BY <1>1, <2>1, <2>2, <2>7, ChainGrows
    <2>9. p2 \in [Nat -> Clusters] /\ p2[(n1 + 1) - 1] = new /\ n1 + 1 \in Nat /\ n1 + 1 = n + (k + 1)
      BY <1>1, <1>2, <1>6, <2>1, <2>7
    <2>10. /\ Longer(h) \in [volume : Volumes, at : Clusters, full : BOOLEAN]
           /\ Longer(h).volume = Vol(fat2, q) /\ Longer(h).at = new
      BY <2>1, <2>5, <2>6
    <2> QED
      BY <2>3, <2>8, <2>9, <2>10 DEF Reached
  <1> QED
    BY <1>2, <1>4, <1>5, <1>6

\* k turns append k clusters, or fewer when the card is full.
LEMMA ExtendedReaches ==
  ASSUME Small, NEW fat \in Tables, NEW s \in Sectors, NEW n \in Nat \ {0}, NEW p,
         Chain(fat, n, p), NEW k \in Nat
  PROVE  Extended(Vol(fat, s), p[n - 1], k) \in Reached(fat, n, p, k)
  <1> DEFINE D == [i \in 0 .. k |-> Reached(fat, n, p, i)]
             x == [volume |-> Vol(fat, s), at |-> p[n - 1], full |-> FALSE]
  <1>1. x \in D[0]
    <2>1. Grown(fat, n, p, fat, n, p)
      BY DEF Grown, Chain
    <2>2. p \in [Nat -> Clusters] /\ p[n - 1] \in Clusters
      BY DEF Chain
    <2>3. x \in [volume : Volumes, at : Clusters, full : BOOLEAN]
          /\ x.volume = Vol(fat, s) /\ x.at = p[n - 1] /\ n = n + 0
      BY <2>2 DEF Volumes
    <2> HIDE DEF x
    <2>4. x \in Reached(fat, n, p, 0)
      BY <2>1, <2>2, <2>3 DEF Reached
    <2> QED
      BY <2>4
  <1>2. ASSUME NEW i \in 1 .. k, NEW h \in D[i - 1]
        PROVE  Longer(h) \in D[i]
    <2>1. i - 1 \in Nat /\ (i - 1) + 1 = i /\ h \in Reached(fat, n, p, i - 1)
      OBVIOUS
    <2>2. Longer(h) \in Reached(fat, n, p, (i - 1) + 1)
      BY <2>1, LongerReaches
    <2> QED
      BY <2>1, <2>2
  <1> HIDE DEF D, x
  <1>3. Looped(Longer, x, k) \in D[k]
    BY <1>1, <1>2, LongerLoop
  <1> QED
    BY <1>3 DEF D, x, Extended

\* The loops of adjust_allocated_clusters, once there is a first cluster.
Behind(v, start, size) ==
  LET last == LastOf(v, start)
  IN  Extended(last.volume, last.at,
               Max({0, size \div bytes_per_cluster + 1 - last.depth}))

\* The number of clusters to append is not negative.
LEMMA Positive ==
  ASSUME NEW x \in Int
  PROVE  Max({0, x}) \in Nat /\ Max({0, x}) >= x
  <1>1. \E m \in {0, x} : \A i \in {0, x} : m >= i
    <2>1. CASE x >= 0
      BY <2>1
    <2>2. CASE ~(x >= 0)
      BY <2>2
    <2> QED
      BY <2>1, <2>2
  <1>2. Max({0, x}) \in {0, x} /\ \A i \in {0, x} : Max({0, x}) >= i
    BY <1>1 DEF Max
  <1> PICK m \in {0, x} : m = Max({0, x}) /\ \A i \in {0, x} : m >= i
    BY <1>2
  <1>3. m \in Int /\ m >= 0 /\ m >= x
    OBVIOUS
  <1> QED
    BY <1>3

\* The chain has grown, enough for `size' bytes unless the card was full.
GrownBehind(fat, n, p, size, more) ==
  \E fat2 \in Tables, t \in Sectors, n2 \in Nat, p2 \in [Nat -> Clusters] :
    /\ Grown(fat, n, p, fat2, n2, p2) /\ more.volume = Vol(fat2, t)
    /\ more.full \in BOOLEAN
    /\ ~more.full => n2 > size \div bytes_per_cluster

\* What is appended behind a chain makes it long enough for the size.
LEMMA BehindGrown ==
  ASSUME Small, NEW fat \in Tables, NEW s \in Sectors, NEW n \in Nat \ {0}, NEW p,
         Chain(fat, n, p), NEW size \in Nat,
         NEW more, more = Behind(Vol(fat, s), p[0], size)
  PROVE  GrownBehind(fat, n, p, size, more)
  <1>1. PICK s1 \in Sectors : LastOf(Vol(fat, s), p[0]) =
                                [volume |-> Vol(fat, s1), at |-> p[n - 1], depth |-> n]
    BY LastFound DEF DeepAt
  <1>2. PICK q \in Nat : q = size \div bytes_per_cluster
    BY ConstantTypes, Division
  <1>3. PICK k \in Nat : k = Max({0, q + 1 - n}) /\ k >= q + 1 - n
    BY <1>2, Positive
  <1>4. more = Extended(Vol(fat, s1), p[n - 1], k)
    BY <1>1, <1>2, <1>3 DEF Behind
  <1>5. more \in Reached(fat, n, p, k)
    BY <1>4, ExtendedReaches
  <1>6. PICK fat2 \in Tables, t \in Sectors, n2 \in Nat, p2 \in [Nat -> Clusters] :
          /\ Grown(fat, n, p, fat2, n2, p2) /\ more.volume = Vol(fat2, t)
          /\ more.full \/ n2 = n + k
    BY <1>5 DEF Reached
  <1>7. more.full \in BOOLEAN
    BY <1>5 DEF Reached
  <1>8. ~more.full => n2 > size \div bytes_per_cluster
    BY <1>2, <1>3, <1>6
  <1> QED
    BY <1>6, <1>7, <1>8 DEF GrownBehind

\* A chain grown from one fresh cluster is one grown from nothing.
LEMMA GrownFromOne ==
  ASSUME NEW fat \in Tables, NEW p, NEW new \in Clusters, fat[new] = Free,
         NEW fat1, fat1 = [fat EXCEPT ![new] = EndOfChain],
         NEW p1, p1[0] = new,
         NEW fat2, NEW n2 \in Nat, NEW p2, Grown(fat1, 1, p1, fat2, n2, p2)
  PROVE  Grown(fat, 0, p, fat2, n2, p2)
  <1>1. /\ Chain(fat2, n2, p2) /\ 1 <= n2 /\ p2[0] = new
        /\ \A i \in 1 .. n2 - 1 : fat1[p2[i]] = Free
        /\ \A t \in Table : fat2[t] = fat1[t] \/ \E i \in 0 .. n2 - 1 : t = p2[i]
    BY DEF Grown
  <1>2. \A t \in Table : t # new => fat1[t] = fat[t]
    BY DEF Tables
  <1>3. ASSUME NEW i \in 0 .. n2 - 1
        PROVE  fat[p2[i]] = Free
    <2>1. CASE i = 0
      BY <1>1, <2>1
    <2>2. CASE i # 0
      <3>1. i \in 1 .. n2 - 1 /\ 0 \in 0 .. n2 - 1
        BY <2>2
      <3>2. p2[i] # new /\ p2[i] \in Table
        BY <1>1, <2>2, <3>1, ClustersAreEntries DEF Chain
      <3> QED
        BY <1>1, <1>2, <3>1, <3>2
    <2> QED
      BY <2>1, <2>2
  <1>4. ASSUME NEW t \in Table, fat2[t] # fat[t]
        PROVE  \E i \in 0 .. n2 - 1 : t = p2[i]
    <2>1. CASE t = new
      <3>1. 0 \in 0 .. n2 - 1
        BY <1>1
      <3> QED
        BY <1>1, <2>1, <3>1
    <2>2. CASE t # new
      BY <1>1, <1>2, <1>4, <2>2
    <2> QED
      BY <2>1, <2>2
  <1> QED
    BY <1>1, <1>3, <1>4 DEF Grown

\* What adjust_allocated_clusters makes of a chain, or of none.
GrownTo(fat, n, p, size, a) ==
  \E fat2 \in Tables, t \in Sectors, n2 \in Nat, p2 \in [Nat -> Clusters] :
    /\ Grown(fat, n, p, fat2, n2, p2) /\ a.volume = Vol(fat2, t)
    /\ a.first = (IF n2 = 0 THEN 0 ELSE p2[0])
    /\ a.rc \in {"ok", "ENOENT", "EDQUOT"}
    /\ a.rc = "ok" => n2 > size \div bytes_per_cluster

\* adjust_allocated_clusters leaves a chain long enough for the size, or a full card.
LEMMA Adjusted ==
  ASSUME Small, NEW fat \in Tables, NEW s \in Sectors, NEW n \in Nat, NEW p,
         Chain(fat, n, p), NEW size \in Nat,
         NEW first, first = (IF n = 0 THEN 0 ELSE p[0]),
         NEW a, a = adjust_allocated_clusters(Vol(fat, s), first, size)
  PROVE  GrownTo(fat, n, p, size, a)
  <1> DEFINE found == FAT16_find_next_free_cluster(Vol(fat, s))
             start == IF first # 0 THEN first ELSE found.at
             w == IF first # 0 THEN Vol(fat, s)
                  ELSE IF found.at = 0 THEN found.volume
                  ELSE FAT16_mark_cluster(found.volume, found.at, EndOfChain)
             more == Behind(w, start, size)
  <1>1. a = IF start = 0 THEN [volume |-> w, first |-> 0, rc |-> "EDQUOT"]
            ELSE IF start < 3 THEN [volume |-> w, first |-> start, rc |-> "ENOENT"]
            ELSE [volume |-> more.volume, first |-> start,
                  rc |-> IF more.full THEN "EDQUOT" ELSE "ok"]
    BY DEF adjust_allocated_clusters, Behind
  <1>2. PICK t \in Sectors, new \in {0} \cup Clusters :
          /\ found = [volume |-> Vol(fat, t), at |-> new]
          /\ new # 0 => fat[new] = Free
    BY FreeFound
  <1>3. 0 \notin Clusters /\ p \in [Nat -> Clusters]
    BY MarksDiffer DEF Chain
  <1> HIDE DEF found, more
  <1>4. CASE n # 0
    <2>1. first # 0 /\ start = p[0] /\ w = Vol(fat, s) /\ start # 0
      BY <1>3, <1>4
    <2>2. more = Behind(Vol(fat, s), p[0], size)
      BY <2>1 DEF more
    <2> n \in Nat \ {0}
      BY <1>4
    <2>3. PICK fat2 \in Tables, q \in Sectors, n2 \in Nat, p2 \in [Nat -> Clusters] :
            /\ Grown(fat, n, p, fat2, n2, p2) /\ more.volume = Vol(fat2, q)
            /\ more.full \in BOOLEAN
            /\ ~more.full => n2 > size \div bytes_per_cluster
      <3>1. GrownBehind(fat, n, p, size, more)
        BY <2>2, BehindGrown
      <3> QED
        BY <3>1 DEF GrownBehind
    <2> HIDE DEF start, w
    <2>4. CASE start < 3
      <3>1. a.volume = Vol(fat, s) /\ a.first = p[0] /\ a.rc = "ENOENT"
        BY <1>1, <2>1, <2>4
      <3>2. Grown(fat, n, p, fat, n, p)
        BY DEF Grown
      <3> QED
        BY <1>3, <1>4, <3>1, <3>2 DEF GrownTo
    <2>5. CASE ~(start < 3)
      <3>1. a.volume = Vol(fat2, q) /\ a.first = p[0] /\ a.rc \in {"ok", "EDQUOT"}
            /\ (a.rc = "ok" => ~more.full)
        BY <1>1, <2>1, <2>3, <2>5
      <3>2. n2 # 0 /\ p2[0] = p[0]
        BY <1>4, <2>3 DEF Grown
      <3> QED
        BY <2>3, <3>1, <3>2 DEF GrownTo
    <2> QED
      BY <2>4, <2>5
  <1>5. CASE n = 0 /\ new = 0
    <2>1. first = 0 /\ start = 0 /\ w = Vol(fat, t)
      BY <1>2, <1>5
    <2> HIDE DEF start, w
    <2>2. a.volume = Vol(fat, t) /\ a.first = 0 /\ a.rc = "EDQUOT"
      BY <1>1, <2>1
    <2>3. Grown(fat, n, p, fat, n, p)
      BY DEF Grown
    <2> QED
      BY <1>3, <1>5, <2>2, <2>3 DEF GrownTo
  <1>6. CASE n = 0 /\ new # 0
    <2>1. first = 0 /\ start = new /\ w = FAT16_mark_cluster(Vol(fat, t), new, EndOfChain)
          /\ new \in Clusters
      BY <1>2, <1>6
    <2>2. PICK fat1 : fat1 = [fat EXCEPT ![new] = EndOfChain]
      OBVIOUS
    <2> new \in Table /\ EndOfChain \in {Free, EndOfChain} \cup Clusters
      BY <2>1, ClustersAreEntries
    <2> HIDE DEF start, w
    <2>3. PICK q \in Sectors : w = Vol(fat1, q) /\ fat1 \in Tables
      <3>1. /\ FAT16_mark_cluster(Vol(fat, t), new, EndOfChain) = Vol(fat1, SectorOf(new))
            /\ fat1 \in Tables /\ SectorOf(new) \in Sectors
        BY <2>2, ClusterMarked
      <3> QED
        BY <2>1, <3>1
    <2>4. PICK p1 \in [Nat -> Clusters] : p1 = [i \in Nat |-> new]
      BY <2>1
    <2>5. p1[0] = new /\ fat1[new] = EndOfChain
      BY <2>1, <2>2, <2>4, ClustersAreEntries DEF Tables
    <2>6. Chain(fat1, 1, p1)
      BY <2>5 DEF Chain
    <2>7. more = Behind(Vol(fat1, q), p1[0], size)
      BY <2>1, <2>3, <2>5 DEF more
    <2> 1 \in Nat \ {0}
      OBVIOUS
    <2>8. PICK fat2 \in Tables, r \in Sectors, n2 \in Nat, p2 \in [Nat -> Clusters] :
            /\ Grown(fat1, 1, p1, fat2, n2, p2) /\ more.volume = Vol(fat2, r)
            /\ more.full \in BOOLEAN
            /\ ~more.full => n2 > size \div bytes_per_cluster
      <3>1. GrownBehind(fat1, 1, p1, size, more)
        BY <2>3, <2>6, <2>7, BehindGrown
      <3> QED
        BY <3>1 DEF GrownBehind
    <2>9. CASE start < 3
      <3>1. a.volume = Vol(fat1, q) /\ a.first = new /\ a.rc = "ENOENT"
        BY <1>1, <1>6, <2>1, <2>3, <2>9
      <3>2. Grown(fat1, 1, p1, fat1, 1, p1)
        BY <2>6 DEF Grown
      <3>3. Grown(fat, 0, p, fat1, 1, p1)
        BY <1>2, <1>6, <2>1, <2>2, <2>5, <3>2, GrownFromOne
      <3> QED
        BY <1>6, <2>3, <2>5, <3>1, <3>3 DEF GrownTo
    <2>10. CASE ~(start < 3)
      <3>1. a.volume = Vol(fat2, r) /\ a.first = new /\ a.rc \in {"ok", "EDQUOT"}
            /\ (a.rc = "ok" => ~more.full)
        BY <1>1, <1>6, <2>1, <2>8, <2>10
      <3>2. Grown(fat, 0, p, fat2, n2, p2)
        BY <1>2, <1>6, <2>1, <2>2, <2>5, <2>8, GrownFromOne
      <3>3. n2 # 0 /\ p2[0] = new
        BY <2>5, <2>8 DEF Grown
      <3> QED
        BY <1>6, <2>8, <3>1, <3>2, <3>3 DEF GrownTo
    <2> QED
      BY <2>9, <2>10
  <1> QED
    BY <1>4, <1>5, <1>6

-----------------------------------------------------------------------------
(* Release of a chain                                                      *)

\* The table after the clusters in S were marked free.
Freed(fat, S) == [t \in Table |-> IF t \in S THEN Free ELSE fat[t]]

VolumesOf(fat) == {Vol(fat, t) : t \in Sectors}
Own(n, p) == {p[i] : i \in 0 .. n - 1}
Cleared(fat, c) == [fat EXCEPT ![c] = Free]

\* Clearing one entry after others.
LEMMA FreedOne ==
  ASSUME NEW fat \in Tables, NEW S
  PROVE  /\ Freed(fat, S) \in Tables /\ Freed(fat, {}) = fat
         /\ \A c \in Table :
              /\ Cleared(Freed(fat, S), c) = Freed(fat, S \cup {c})
              /\ c \notin S => Freed(fat, S)[c] = fat[c]
  BY DEF Freed, Tables, Cleared

\* Giving back one cluster goes on to the next one.
LEMMA ReleaseAt ==
  ASSUME Small, NEW fat \in Tables, NEW c \in Clusters, NEW h \in At(fat, c)
  PROVE  Release(h) \in At(Cleared(fat, c), fat[c])
  <1>1. PICK t \in Sectors : h = [volume |-> Vol(fat, t), at |-> c]
    BY DEF At
  <1>2. c \in Table /\ Free \in {Free, EndOfChain} \cup Clusters
    BY ClustersAreEntries
  <1>3. Follow(h) \in At(fat, fat[c])
    BY <1>1, <1>2, FollowAt
  <1>4. PICK q \in Sectors : Follow(h) = [volume |-> Vol(fat, q), at |-> fat[c]]
    BY <1>3 DEF At
  <1> PICK fat2 : fat2 = Cleared(fat, c)
    OBVIOUS
  <1>5. FAT16_mark_cluster(Vol(fat, q), c, Free) = Vol(fat2, SectorOf(c))
        /\ SectorOf(c) \in Sectors
    BY <1>2, ClusterMarked DEF Cleared
  <1>6. ~IsLast(c)
    BY MarksDiffer
  <1>7. Release(h) = [volume |-> FAT16_mark_cluster(Vol(fat, q), c, Free), at |-> fat[c]]
    BY <1>1, <1>4, <1>6 DEF Release
  <1> QED
    BY <1>5, <1>7 DEF At

\* invalidate_cluster_chain frees the clusters of the chain and no others.
LEMMA Released ==
  ASSUME Small, NEW fat \in Tables, NEW s \in Sectors, NEW n, NEW p, Chain(fat, n, p), n # 0
  PROVE  invalidate_cluster_chain(Vol(fat, s), p[0]) \in VolumesOf(Freed(fat, Own(n, p)))
  <1> DEFINE m(k) == IF k < n THEN k ELSE n
             Gone(k) == {p[i] : i \in 0 .. k - 1}
             D == [k \in 0 .. ClusterCount |->
                     At(Freed(fat, Gone(m(k))), IF k < n THEN p[k] ELSE EndOfChain)]
             x == [volume |-> Vol(fat, s), at |-> p[0]]
  <1>1. n \in Nat /\ ClusterCount \in Nat /\ n <= ClusterCount /\ p[0] \in Clusters
    BY ChainShort, ConstantTypes DEF Chain
  <1>2. x \in D[0]
    <2>1. m(0) = 0 /\ Gone(0) = {} /\ 0 < n
      BY <1>1
    <2>2. Freed(fat, Gone(0)) = fat
      BY <1>1, <2>1, FreedOne, ClustersAreEntries
    <2>3. D[0] = At(fat, p[0])
      BY <1>1, <2>1, <2>2
    <2> HIDE DEF D
    <2> QED
      BY <2>3 DEF At
  <1>3. ASSUME NEW k \in 1 .. ClusterCount, NEW h \in D[k - 1]
        PROVE  Release(h) \in D[k]
    <2>1. CASE k - 1 < n
      <3> PICK i \in 0 .. n - 1 : i = k - 1
        BY <1>1, <2>1
      <3>1. p[i] \in Clusters /\ p[i] \in Table /\ fat[p[i]] = (IF i + 1 = n THEN EndOfChain ELSE p[i + 1])
        BY ClustersAreEntries DEF Chain
      <3>2. PICK S : S = Gone(i)
        OBVIOUS
      <3>3. p[i] \notin S
        <4>1. \A j \in 0 .. i - 1 : p[j] # p[i]
          BY <1>1 DEF Chain
        <4> QED
          BY <3>2, <4>1
      <3>4. PICK fat1 \in Tables : fat1 = Freed(fat, S) /\ fat1[p[i]] = fat[p[i]]
                                   /\ Cleared(fat1, p[i]) = Freed(fat, S \cup {p[i]})
        <4>1. /\ Freed(fat, S) \in Tables
              /\ \A c \in Table :
                   /\ Cleared(Freed(fat, S), c) = Freed(fat, S \cup {c})
                   /\ c \notin S => Freed(fat, S)[c] = fat[c]
          BY FreedOne
        <4> QED
          BY <3>1, <3>3, <4>1
      <3>5. m(k - 1) = i /\ k - 1 \in 0 .. ClusterCount /\ p[k - 1] = p[i]
        BY <1>1, <2>1
      <3>6. h \in At(fat1, p[i])
        BY <2>1, <3>2, <3>4, <3>5
      <3>7. Release(h) \in At(Cleared(fat1, p[i]), fat1[p[i]])
        BY <3>1, <3>6, ReleaseAt
      <3>8. S \cup {p[i]} = Gone(m(k)) /\ fat1[p[i]] = IF k < n THEN p[k] ELSE EndOfChain
        <4>1. m(k) = i + 1 /\ i + 1 = k
          BY <1>1
        <4>2. 0 .. m(k) - 1 = (0 .. i - 1) \cup {i}
          BY <4>1
        <4>3. S \cup {p[i]} = Gone(m(k))
          <5> HIDE DEF m
          <5> QED
            BY <3>2, <4>2
        <4>4. fat1[p[i]] = IF k < n THEN p[k] ELSE EndOfChain
          BY <1>1, <3>1, <3>4, <4>1
        <4> QED
          BY <4>3, <4>4
      <3>9. Release(h) \in At(Freed(fat, Gone(m(k))), IF k < n THEN p[k] ELSE EndOfChain)
        <4> HIDE DEF Gone, m, D
        <4> QED
          BY <3>4, <3>7, <3>8
      <3> HIDE DEF Gone, m
      <3> QED
        BY <3>9
    <2>2. CASE ~(k - 1 < n)
      <3>1. k - 1 \in 0 .. ClusterCount /\ ~(k < n) /\ m(k) = m(k - 1)
        BY <1>1, <2>2
      <3>2. D[k] = D[k - 1] /\ D[k] = At(Freed(fat, Gone(m(k))), EndOfChain)
        <4> HIDE DEF Gone, m
        <4> QED
          BY <2>2, <3>1
      <3> HIDE DEF Gone, D
      <3>3. h.at = EndOfChain
        BY <3>2 DEF At
      <3>4. Release(h) = h
        BY <3>3, MarksDiffer DEF Release
      <3> QED
        BY <3>2, <3>4
    <2> QED
      BY <2>1, <2>2
  <1> HIDE DEF D
  <1>4. Looped(Release, x, ClusterCount) \in D[ClusterCount]
    <2> HIDE DEF x
    <2> QED
      BY <1>1, <1>2, <1>3, ReleaseLoop
  <1>5. D[ClusterCount] = At(Freed(fat, Gone(n)), EndOfChain)
    <2>1. m(ClusterCount) = n /\ ~(ClusterCount < n)
      BY <1>1
    <2> HIDE DEF Gone, m
    <2> QED
      BY <1>1, <2>1 DEF D
  <1>6. p[0] # 0
    BY <1>1, MarksDiffer
  <1>7. invalidate_cluster_chain(Vol(fat, s), p[0]) = Looped(Release, x, ClusterCount).volume
    BY <1>6 DEF invalidate_cluster_chain
  <1> HIDE DEF x
  <1>8. PICK t \in Sectors : Looped(Release, x, ClusterCount) =
                               [volume |-> Vol(Freed(fat, Gone(n)), t), at |-> EndOfChain]
    BY <1>4, <1>5 DEF At
  <1> QED
    BY <1>7, <1>8 DEF VolumesOf, Own

-----------------------------------------------------------------------------
(* What the properties see of a chain                                      *)

\* Walking k entries leads to the k-th cluster of the chain, or to its end.
LEMMA NthChain ==
  ASSUME Small, NEW fat \in Tables, NEW n, NEW p, Chain(fat, n, p), n # 0,
         NEW k \in 0 .. ClusterCount
  PROVE  Nth(fat, p[0], k) = IF k < n THEN p[k] ELSE EndOfChain
  <1> DEFINE next == [t \in Table \cup {EndOfChain} |-> IF t \in Clusters THEN fat[t] ELSE t]
             Equals(f) == f = [i \in 0 .. ClusterCount |->
                                 IF i = 0 THEN p[0] ELSE next[f[i - 1]]]
             g == [i \in 0 .. ClusterCount |-> IF i < n THEN p[i] ELSE EndOfChain]
             f == CHOOSE f : Equals(f)
  <1>1. n \in Nat /\ ClusterCount \in Nat /\ p \in [Nat -> Clusters]
    BY ConstantTypes DEF Chain
  <1>2. next[EndOfChain] = EndOfChain
    BY MarksDiffer
  <1>3. \A i \in 0 .. n - 1 : next[p[i]] = fat[p[i]] /\ fat[p[i]] = (IF i + 1 = n THEN EndOfChain ELSE p[i + 1])
    BY <1>1, ClustersAreEntries DEF Chain
  <1> HIDE DEF next
  <1>4. ASSUME NEW i \in 1 .. ClusterCount
        PROVE  next[g[i - 1]] = g[i]
    <2>1. g[i] = (IF i < n THEN p[i] ELSE EndOfChain) /\ i - 1 \in 0 .. ClusterCount
          /\ g[i - 1] = (IF i - 1 < n THEN p[i - 1] ELSE EndOfChain)
      BY <1>1
    <2> HIDE DEF g
    <2>2. CASE i - 1 < n
      <3>1. i - 1 \in 0 .. n - 1 /\ (i - 1) + 1 = i
        BY <1>1, <2>2
      <3>2. next[p[i - 1]] = (IF i = n THEN EndOfChain ELSE p[i])
        BY <1>3, <3>1
      <3> QED
        BY <1>1, <2>1, <2>2, <3>2
    <2>3. CASE ~(i - 1 < n)
      BY <1>1, <1>2, <2>1, <2>3
    <2> QED
      BY <2>2, <2>3
  <1>5. g[0] = p[0] /\ g = [i \in 0 .. ClusterCount |-> g[i]]
    BY <1>1
  <1>6. g[k] = IF k < n THEN p[k] ELSE EndOfChain
    OBVIOUS
  <1> HIDE DEF g, Equals
  <1>7. g = [i \in 0 .. ClusterCount |-> IF i = 0 THEN p[0] ELSE next[g[i - 1]]]
    BY <1>4, <1>5
  <1>8. Equals(g)
    BY <1>7 DEF Equals
  <1>9. Equals(f) /\ Nth(fat, p[0], k) = f[k]
    BY <1>8 DEF Nth, Equals, next
  <1> HIDE DEF f
  <1>10. f[0] = p[0] /\ \A i \in 1 .. ClusterCount : f[i] = next[f[i - 1]]
    <2> PICK c : c = p[0]
      OBVIOUS
    <2>1. f = [i \in 0 .. ClusterCount |-> IF i = 0 THEN c ELSE next[f[i - 1]]]
      BY <1>9 DEF Equals
    <2> QED
      BY <1>1, <2>1
  <1> DEFINE D == [i \in 0 .. ClusterCount |-> {g[i]}]
  <1>11. f[0] \in D[0] /\ \A i \in 1 .. k : f[i - 1] \in D[i - 1] => f[i] \in D[i]
    <2>1. f[0] \in D[0]
      BY <1>1, <1>5, <1>10
    <2>2. ASSUME NEW i \in 1 .. k, f[i - 1] \in D[i - 1]
          PROVE  f[i] \in D[i]
      <3>1. i \in 1 .. ClusterCount /\ i - 1 \in 0 .. ClusterCount /\ i \in 0 .. ClusterCount
        BY <1>1
      <3>2. f[i - 1] = g[i - 1]
        BY <2>2, <3>1
      <3>3. f[i] = g[i]
        BY <1>4, <1>10, <3>1, <3>2
      <3> QED
        BY <3>1, <3>3
    <2> QED
      BY <2>1, <2>2
  <1>12. f[k] \in D[k]
    <2> HIDE DEF D
    <2> QED
      BY <1>11, TurnsStay
  <1> QED
    BY <1>6, <1>9, <1>12

\* From no cluster a walk leads nowhere.
LEMMA NthNone ==
  ASSUME Small, NEW fat, NEW k \in 0 .. ClusterCount
  PROVE  Nth(fat, 0, k) = 0
  <1> DEFINE next == [t \in Table \cup {EndOfChain} |-> IF t \in Clusters THEN fat[t] ELSE t]
             Equals(f) == f = [i \in 0 .. ClusterCount |->
                                 IF i = 0 THEN 0 ELSE next[f[i - 1]]]
             g == [i \in 0 .. ClusterCount |-> 0]
             f == CHOOSE f : Equals(f)
  <1>1. 0 \in Table /\ 0 \notin Clusters /\ ClusterCount \in Nat
    <2>1. SectorsPerFat * FAT_SECTOR_CACHE_SIZE \in Nat
      BY ConstantTypes
    <2> QED
      BY <2>1, ConstantTypes, MarksDiffer DEF Table
  <1>2. next[0] = 0
    BY <1>1
  <1> HIDE DEF next
  <1>3. g = [i \in 0 .. ClusterCount |-> IF i = 0 THEN 0 ELSE next[g[i - 1]]]
    <2>1. \A i \in 1 .. ClusterCount : g[i - 1] = 0
      BY <1>1
    <2>2. g = [i \in 0 .. ClusterCount |-> 0]
      OBVIOUS
    <2> HIDE DEF g
    <2>3. \A i \in 0 .. ClusterCount : 0 = IF i = 0 THEN 0 ELSE next[g[i - 1]]
      BY <1>1, <1>2, <2>1
    <2> QED
      BY <2>2, <2>3
  <1> HIDE DEF g, Equals
  <1>4. Equals(g)
    BY <1>3 DEF Equals
  <1>5. Equals(f) /\ Nth(fat, 0, k) = f[k]
    BY <1>4 DEF Nth, Equals, next
  <1> HIDE DEF f
  <1>6. f[0] = 0 /\ \A i \in 1 .. ClusterCount : f[i] = next[f[i - 1]]
    BY <1>1, <1>5 DEF Equals
  <1> DEFINE D == [i \in 0 .. ClusterCount |-> {0}]
  <1>7. f[0] \in D[0] /\ \A i \in 1 .. k : f[i - 1] \in D[i - 1] => f[i] \in D[i]
    BY <1>1, <1>2, <1>6
  <1>8. f[k] \in D[k]
    <2> HIDE DEF D
    <2> QED
      BY <1>7, TurnsStay
  <1> QED
    BY <1>5, <1>8

\* The place of a byte: a greater position is in no earlier cluster, and two
\* positions differ in the cluster or in the place there.
LEMMA Places ==
  ASSUME NEW x \in Nat, NEW y \in Nat, NEW b \in Nat \ {0}
  PROVE  /\ x \div b \in Nat /\ x % b \in 0 .. b - 1
         /\ x <= y => x \div b <= y \div b
         /\ x \div b = y \div b /\ x % b = y % b => x = y
  <1>1. PICK q \in Nat, r \in 0 .. b - 1 : q = x \div b /\ r = x % b /\ x = q * b + r
    BY Division
  <1>2. PICK u \in Nat, v \in 0 .. b - 1 : u = y \div b /\ v = y % b /\ y = u * b + v
    BY Division
  <1>3. ASSUME u < q
        PROVE  y < x
    <2>1. PICK d \in Nat : q = u + 1 + d
      <3>1. q - u - 1 \in Nat
        BY <1>3
      <3> QED
        BY <3>1
    <2>2. q * b = u * b + b + d * b
      BY <2>1
    <2>3. u * b \in Nat /\ d * b \in Nat
      OBVIOUS
    <2>4. PICK ub \in Nat, db \in Nat : ub = u * b /\ db = d * b
      BY <2>3
    <2>5. x = ub + b + db + r /\ y = ub + v
      BY <1>1, <1>2, <2>2, <2>4
    <2> QED
      BY <2>5
  <1>4. x <= y => q <= u
    BY <1>3
  <1> QED
    BY <1>1, <1>2, <1>4

\* The first byte is the first one of the first cluster.
LEMMA NoPosition ==
  0 \div bytes_per_cluster = 0 /\ 0 % bytes_per_cluster = 0
  <1>1. 0 * bytes_per_cluster + 0 = 0 /\ 0 \in Nat /\ 0 \in 0 .. bytes_per_cluster - 1
        /\ bytes_per_cluster \in Nat \ {0}
    BY ConstantTypes
  <1>2. (0 * bytes_per_cluster + 0) \div bytes_per_cluster = 0
        /\ (0 * bytes_per_cluster + 0) % bytes_per_cluster = 0
    BY <1>1, DivisionUnique
  <1> QED
    BY <1>1, <1>2

-----------------------------------------------------------------------------
(* The inductive invariant                                                 *)

DentryType == [name : {ShortName(n) : n \in Names} \cup {Unused, Deleted},
               first : {0} \cup Clusters, size : 0 .. MaxSize]
ByteType == [dentry : Dentries, pos : 0 .. MaxSize] \cup {Nowhere}
InodeType == [open : BOOLEAN, dentry : Dentries, first : {0} \cup Clusters,
              size : 0 .. MaxSize]

Typed ==
  /\ dir \in [Dentries -> DentryType]
  /\ data \in [Clusters -> [0 .. bytes_per_cluster - 1 -> ByteType]]
  /\ inode \in [Handles -> InodeType]
  /\ result \in {"ok", "ENOENT", "EDQUOT"}
  /\ damage \in {"none", "overread", "directory overwritten"}

\* The cache holds a sector of the table, as the card has it.
Consistent ==
  volume.fat \in Tables /\ \E s \in Sectors : volume = Vol(volume.fat, s)

\* An open file is not deleted; what its inode says beyond no bytes is true.
HandlesAgree ==
  \A h \in Handles : inode[h].open =>
    LET i == inode[h]
        e == inode[h].dentry
    IN  IsLive(e) /\ i.size <= dir[e].size /\ (i.size > 0 => i.first = dir[e].first)

\* File e has the N[e] clusters P[e][0], P[e][1], ... and no other file has one
\* of them.
Counts == [Dentries -> Nat]
Paths == [Dentries -> [Nat -> Clusters]]
HasChain(d, e) == d[e].name \notin {Unused, Deleted} /\ d[e].first # 0
Apart(N, P) ==
  \A e, f \in Dentries : \A i \in 0 .. N[e] - 1, j \in 0 .. N[f] - 1 :
    P[e][i] = P[f][j] => e = f
Files(fat, d, N, P) ==
  /\ N \in Counts /\ P \in Paths
  /\ \A e \in Dentries : Chain(fat, N[e], P[e])
  /\ \A e \in Dentries : IF HasChain(d, e) THEN N[e] # 0 /\ P[e][0] = d[e].first
                         ELSE N[e] = 0
  /\ Apart(N, P)

\* Every byte below the size of file e is the one that was written there.
HasBytes(da, n, p, e, size) ==
  \A pos \in 0 .. size - 1 :
    /\ pos \div bytes_per_cluster < n
    /\ da[p[pos \div bytes_per_cluster]][pos % bytes_per_cluster] = [dentry |-> e, pos |-> pos]
Bytes(d, da, N, P) ==
  \A e \in Dentries : d[e].name \notin {Unused, Deleted} =>
    HasBytes(da, N[e], P[e], e, d[e].size)

IInv ==
  /\ Typed /\ Consistent /\ HandlesAgree
  /\ \E N \in Counts, P \in Paths : Files(volume.fat, dir, N, P) /\ Bytes(dir, data, N, P)

\* What the theorems ask of a card: no cluster has the number of a mark; the
\* number of the sector in the cache starts as the one that is loaded at mount;
\* programs unlink no open file.
Ordinary == Small /\ CachedAtMount = {0} /\ ~UnlinkOpen

\* A cluster of some file.
Used(N, P, c) == \E e \in Dentries : \E i \in 0 .. N[e] - 1 : P[e][i] = c

-----------------------------------------------------------------------------
(* The files after a write                                                 *)

\* The greater one of two numbers.
LEMMA MaxOf ==
  ASSUME NEW x \in Int, NEW y \in Int
  PROVE  Max({x, y}) = IF x >= y THEN x ELSE y
  <1>1. \E m \in {x, y} : \A i \in {x, y} : m >= i
    <2>1. CASE x >= y
      BY <2>1
    <2>2. CASE ~(x >= y)
      BY <2>2
    <2> QED
      BY <2>1, <2>2
  <1>2. Max({x, y}) \in {x, y} /\ \A i \in {x, y} : Max({x, y}) >= i
    BY <1>1 DEF Max
  <1> PICK m \in {x, y} : m = Max({x, y}) /\ \A i \in {x, y} : m >= i
    BY <1>2
  <1>3. m = IF x >= y THEN x ELSE y
    OBVIOUS
  <1> QED
    BY <1>3

\* No cluster of a chain is free.
LEMMA ChainUsed ==
  ASSUME Small, NEW fat, NEW n, NEW p, Chain(fat, n, p), NEW i \in 0 .. n - 1
  PROVE  p[i] \in Clusters /\ p[i] \in Table /\ fat[p[i]] # Free
  <1>1. n \in Nat /\ p \in [Nat -> Clusters] /\ i \in Nat /\ i + 1 \in Nat
        /\ fat[p[i]] = (IF i + 1 = n THEN EndOfChain ELSE p[i + 1])
    BY DEF Chain
  <1>2. p[i] \in Clusters /\ p[i + 1] \in Clusters
    BY <1>1
  <1> QED
    BY <1>1, <1>2, MarksDiffer, ClustersAreEntries

\* A chain depends on the entries of its own clusters only.
LEMMA ChainKept ==
  ASSUME NEW fat, NEW n, NEW p, Chain(fat, n, p),
         NEW fat2, \A i \in 0 .. n - 1 : fat2[p[i]] = fat[p[i]]
  PROVE  Chain(fat2, n, p)
  BY DEF Chain

\* The growth of one chain touches no other.
Spared(N, P, e, fat, fat2, n2, p2) ==
  \A f \in Dentries : f # e \/ N[e] = 0 =>
    \A i \in 0 .. N[f] - 1 :
      /\ \A j \in 0 .. n2 - 1 : P[f][i] # p2[j]
      /\ fat2[P[f][i]] = fat[P[f][i]]

\* A file's growth leaves the clusters of the others alone.
LEMMA Untouched ==
  ASSUME Small, NEW fat \in Tables, NEW d, NEW N, NEW P, Files(fat, d, N, P),
         NEW e \in Dentries, NEW fat2, NEW n2, NEW p2, Grown(fat, N[e], P[e], fat2, n2, p2)
  PROVE  Spared(N, P, e, fat, fat2, n2, p2)
  <1> SUFFICES ASSUME NEW f \in Dentries, f # e \/ N[e] = 0, NEW i \in 0 .. N[f] - 1
               PROVE  /\ \A j \in 0 .. n2 - 1 : P[f][i] # p2[j]
                      /\ fat2[P[f][i]] = fat[P[f][i]]
    BY DEF Spared
  <1> PICK n, p : n = N[e] /\ p = P[e]
    OBVIOUS
  <1>1. n \in Nat /\ Grown(fat, n, p, fat2, n2, p2) /\ N[f] \in Nat
    BY DEF Files, Counts
  <1>2. P[f][i] \in Table /\ fat[P[f][i]] # Free
    <2>1. Chain(fat, N[f], P[f])
      BY DEF Files
    <2> QED
      BY <2>1, ChainUsed
  <1>3. ASSUME NEW j \in 0 .. n2 - 1, P[f][i] = p2[j]
        PROVE  FALSE
    <2>1. CASE j < n
      <3>1. j \in 0 .. N[e] - 1 /\ p2[j] = P[e][j] /\ n # 0
        BY <1>1, <2>1 DEF Grown
      <3>2. f = e
        BY <1>3, <3>1 DEF Files, Apart
      <3> QED
        BY <3>1, <3>2
    <2>2. CASE ~(j < n)
      <3>1. j \in n .. n2 - 1
        BY <1>1, <2>2 DEF Grown
      <3>2. fat[p2[j]] = Free
        BY <1>1, <3>1 DEF Grown
      <3> QED
        BY <1>2, <1>3, <3>2
    <2> QED
      BY <2>1, <2>2
  <1>4. fat2[P[f][i]] = fat[P[f][i]]
    BY <1>2, <1>3 DEF Grown
  <1> QED
    BY <1>3, <1>4

\* The same files and first clusters, apart from those of entry e.
Elsewhere(d, d2, e) == \A f \in Dentries \ {e} : d2[f] = d[f]

\* The files after one of them has grown and its entry says so.
LEMMA FilesGrown ==
  ASSUME Small, NEW fat \in Tables, NEW d, NEW N, NEW P, Files(fat, d, N, P),
         NEW e \in Dentries,
         NEW fat2, NEW n2, NEW p2, Grown(fat, N[e], P[e], fat2, n2, p2), n2 # 0,
         NEW d2, HasChain(d2, e), d2[e].first = p2[0],
         Elsewhere(d, d2, e),
         NEW N2, N2 = [N EXCEPT ![e] = n2], NEW P2, P2 = [P EXCEPT ![e] = p2]
  PROVE  Files(fat2, d2, N2, P2)
  <1>1. n2 \in Nat /\ p2 \in [Nat -> Clusters] /\ Chain(fat2, n2, p2)
    BY DEF Grown, Chain
  <1>2. /\ N \in Counts /\ P \in Paths /\ Apart(N, P)
        /\ \A f \in Dentries : Chain(fat, N[f], P[f])
        /\ \A f \in Dentries : IF HasChain(d, f) THEN N[f] # 0 /\ P[f][0] = d[f].first
                               ELSE N[f] = 0
    BY DEF Files
  <1>3. /\ N2 \in Counts /\ P2 \in Paths /\ N2[e] = n2 /\ P2[e] = p2
        /\ \A f \in Dentries \ {e} : N2[f] = N[f] /\ P2[f] = P[f]
    BY <1>1, <1>2 DEF Counts, Paths
  <1>4. Spared(N, P, e, fat, fat2, n2, p2)
    BY Untouched
  <1>5. ASSUME NEW f \in Dentries
        PROVE  Chain(fat2, N2[f], P2[f])
    <2>1. CASE f = e
      BY <1>1, <1>3, <2>1
    <2>2. CASE f # e
      <3>1. \A i \in 0 .. N[f] - 1 : fat2[P[f][i]] = fat[P[f][i]]
        BY <1>4, <2>2 DEF Spared
      <3>2. Chain(fat2, N[f], P[f])
        BY <1>2, <3>1, ChainKept
      <3> QED
        BY <1>3, <2>2, <3>2
    <2> QED
      BY <2>1, <2>2
  <1>6. ASSUME NEW f \in Dentries
        PROVE  IF HasChain(d2, f) THEN N2[f] # 0 /\ P2[f][0] = d2[f].first ELSE N2[f] = 0
    <2>1. CASE f = e
      BY <1>3, <2>1
    <2>2. CASE f # e
      <3>1. HasChain(d2, f) <=> HasChain(d, f)
        BY <2>2 DEF HasChain, Elsewhere
      <3> QED
        BY <1>2, <1>3, <2>2, <3>1 DEF Elsewhere
    <2> QED
      BY <2>1, <2>2
  <1>7. Apart(N2, P2)
    <2>1. ASSUME NEW f \in Dentries, NEW g \in Dentries, NEW i \in 0 .. N2[f] - 1,
                 NEW j \in 0 .. N2[g] - 1, P2[f][i] = P2[g][j]
          PROVE  f = g
      <3>1. CASE f # e /\ g # e
        <4>1. N2[f] = N[f] /\ P2[f] = P[f] /\ N2[g] = N[g] /\ P2[g] = P[g]
          BY <1>3, <3>1
        <4> QED
          BY <1>2, <2>1, <4>1 DEF Apart
      <3>2. CASE f # e /\ g = e
        <4>1. i \in 0 .. N[f] - 1 /\ j \in 0 .. n2 - 1 /\ P[f][i] = p2[j]
          BY <1>3, <2>1, <3>2
        <4> QED
          BY <1>4, <3>2, <4>1 DEF Spared
      <3>3. CASE f = e /\ g # e
        <4>1. j \in 0 .. N[g] - 1 /\ i \in 0 .. n2 - 1 /\ P[g][j] = p2[i]
          BY <1>3, <2>1, <3>3
        <4> QED
          BY <1>4, <3>3, <4>1 DEF Spared
      <3> QED
        BY <3>1, <3>2, <3>3
    <2> QED
      BY <2>1 DEF Apart
  <1> QED
    BY <1>3, <1>5, <1>6, <1>7 DEF Files

\* A file without clusters that grew without its entry: the others are as before.
LEMMA FilesLeft ==
  ASSUME Small, NEW fat \in Tables, NEW d, NEW N, NEW P, Files(fat, d, N, P),
         NEW e \in Dentries, N[e] = 0,
         NEW fat2, NEW n2, NEW p2, Grown(fat, N[e], P[e], fat2, n2, p2)
  PROVE  Files(fat2, d, N, P)
  <1>1. Spared(N, P, e, fat, fat2, n2, p2)
    BY Untouched
  <1>2. ASSUME NEW f \in Dentries
        PROVE  Chain(fat2, N[f], P[f])
    <2>1. \A i \in 0 .. N[f] - 1 : fat2[P[f][i]] = fat[P[f][i]]
      BY <1>1 DEF Spared
    <2>2. Chain(fat, N[f], P[f])
      BY DEF Files
    <2> QED
      BY <2>1, <2>2, ChainKept
  <1> QED
    BY <1>2 DEF Files

\* The bytes of a write are where the chain has their positions, and no other
\* byte changes.
Landed(da, was, p, e, off, n) ==
  /\ \A pos \in off .. off + n - 1 :
       da[p[pos \div bytes_per_cluster]][pos % bytes_per_cluster] = [dentry |-> e, pos |-> pos]
  /\ \A c \in Clusters : \A i \in 0 .. bytes_per_cluster - 1 :
       (\A pos \in off .. off + n - 1 : ~(p[pos \div bytes_per_cluster] = c
                                          /\ pos % bytes_per_cluster = i))
         => da[c][i] = was[c][i]
DataType == [Clusters -> [0 .. bytes_per_cluster - 1 -> ByteType]]

\* FAT16_write_cluster_chain puts each byte at its place along the chain.
LEMMA Written ==
  ASSUME NEW fat \in Tables, NEW t \in Sectors, NEW m, NEW p, Chain(fat, m, p),
         NEW e \in Dentries, NEW off \in Nat, NEW n \in Nat \ {0}, off + n <= MaxSize,
         (off + n) \div bytes_per_cluster < m,
         data \in DataType,
         NEW da, da = FAT16_write_cluster_chain(Vol(fat, t), p[0], e, off, n)
  PROVE  da \in DataType /\ Landed(da, data, p, e, off, n)
  <1> DEFINE b == bytes_per_cluster
             R == off .. off + n - 1
             Cluster(q) == ClusterFor(Vol(fat, t), p[0], q)
             W == {[cluster |-> Cluster(q), pos |-> q] : q \in R}
             Here(c, i) == {w \in W : w.cluster = c /\ w.pos % b = i}
             Byte(c, i) == IF Here(c, i) = {} THEN data[c][i]
                           ELSE [dentry |-> e, pos |-> (CHOOSE w \in Here(c, i) : TRUE).pos]
             IsFrom(c, i, q) == /\ p[q \div b] = c /\ q % b = i
                                /\ Byte(c, i) = [dentry |-> e, pos |-> q]
             FromWrite(c, i) == \E q \in R : IsFrom(c, i, q)
  <1>1. b \in Nat \ {0} /\ m \in Nat /\ p \in [Nat -> Clusters] /\ MaxSize \in Nat
        /\ \A i, j \in 0 .. m - 1 : p[i] = p[j] => i = j
    BY ConstantTypes DEF Chain
  <1>2. da = [c \in Clusters |-> [i \in 0 .. b - 1 |-> Byte(c, i)]]
    BY DEF FAT16_write_cluster_chain
  <1>3. \A q \in R : q \in Nat /\ q \div b \in 0 .. m - 1 /\ q % b \in 0 .. b - 1
                     /\ q \in 0 .. MaxSize
    <2> TAKE q \in R
    <2>1. q \in Nat /\ off + n \in Nat /\ q <= off + n
      OBVIOUS
    <2>2. q \div b \in Nat /\ q % b \in 0 .. b - 1 /\ q \div b <= (off + n) \div b
          /\ (off + n) \div b \in Nat
      <3> HIDE DEF b
      <3> QED
        BY <1>1, <2>1, Places
    <2>3. PICK x \in Nat, y \in Nat : x = q \div b /\ y = (off + n) \div b
      BY <2>2
    <2>4. x \in 0 .. m - 1
      BY <1>1, <2>2, <2>3
    <2> QED
      BY <1>1, <2>1, <2>2, <2>3, <2>4
  <1>4. ASSUME NEW q \in R
        PROVE  Cluster(q) = p[q \div b]
    <2>1. PICK k \in 0 .. m - 1 : k = q \div b
      BY <1>3
    <2>2. Walk(Vol(fat, t), p[0], k) \in At(fat, p[k])
      BY WalkChain
    <2>3. Walk(Vol(fat, t), p[0], k).at = p[k]
      BY <2>2, AtFields
    <2> QED
      BY <2>1, <2>3 DEF ClusterFor
  <1> HIDE DEF Cluster, R, b
  <1>5. /\ \A w \in W : w.pos \in R /\ w.cluster = p[w.pos \div b]
        /\ \A q \in R : \E w \in W : w.pos = q /\ w.cluster = p[q \div b]
    <2>1. ASSUME NEW w \in W
          PROVE  w.pos \in R /\ w.cluster = p[w.pos \div b]
      <3>1. PICK q \in R : w = [cluster |-> Cluster(q), pos |-> q]
        OBVIOUS
      <3>2. w.pos = q /\ w.cluster = p[q \div b]
        BY <1>4, <3>1
      <3> QED
        BY <3>2
    <2>2. ASSUME NEW q \in R
          PROVE  \E w \in W : w.pos = q /\ w.cluster = p[q \div b]
      <3>1. PICK w : w = [cluster |-> Cluster(q), pos |-> q]
        OBVIOUS
      <3>2. w \in W
        BY <3>1
      <3>3. w.pos = q /\ w.cluster = p[q \div b]
        BY <1>4, <3>1
      <3> QED
        BY <3>2, <3>3
    <2> QED
      BY <2>1, <2>2
  <1> HIDE DEF W
  <1>6. ASSUME NEW c, NEW i, Here(c, i) # {}
        PROVE  FromWrite(c, i)
    <2>1. PICK w : w = CHOOSE x \in Here(c, i) : TRUE
      OBVIOUS
    <2>2. w \in Here(c, i)
      BY <1>6, <2>1
    <2>3. w.pos \in R /\ p[w.pos \div b] = c /\ w.pos % b = i
      BY <1>5, <2>2
    <2>4. Byte(c, i) = [dentry |-> e, pos |-> w.pos]
      BY <1>6, <2>1
    <2> QED
      BY <2>3, <2>4
  <1>7. ASSUME NEW c \in Clusters, NEW i \in 0 .. b - 1
        PROVE  Byte(c, i) \in ByteType
    <2>1. CASE Here(c, i) = {}
      <3>1. Byte(c, i) = data[c][i]
        BY <2>1
      <3>2. data[c][i] \in ByteType
        BY DEF DataType, b
      <3> QED
        BY <3>1, <3>2
    <2>2. CASE Here(c, i) # {}
      <3>1. PICK q \in R : Byte(c, i) = [dentry |-> e, pos |-> q]
        <4>1. FromWrite(c, i)
          <5> HIDE DEF FromWrite, Here
          <5> QED
            BY <1>6, <2>2
        <4> HIDE DEF Byte
        <4> QED
          BY <4>1
      <3> HIDE DEF Byte
      <3> QED
        BY <1>3, <3>1 DEF ByteType
    <2> QED
      BY <2>1, <2>2
  <1>8. da \in DataType
    <2> HIDE DEF Byte
    <2> QED
      BY <1>2, <1>7 DEF DataType, b
  <1>9. \A c \in Clusters : \A i \in 0 .. b - 1 : da[c][i] = Byte(c, i)
    <2> HIDE DEF Byte
    <2> QED
      BY <1>2
  <1>10. ASSUME NEW pos \in R
         PROVE  da[p[pos \div b]][pos % b] = [dentry |-> e, pos |-> pos]
    <2>1. PICK c, i : c = p[pos \div b] /\ i = pos % b
      OBVIOUS
    <2>2. Here(c, i) # {}
      <3>1. PICK w \in W : w.pos = pos /\ w.cluster = c
        BY <1>5, <2>1
      <3> QED
        BY <2>1, <3>1
    <2>3. PICK q \in R : p[q \div b] = c /\ q % b = i /\ Byte(c, i) = [dentry |-> e, pos |-> q]
      <3>1. FromWrite(c, i)
        <4> HIDE DEF FromWrite, Here
        <4> QED
          BY <1>6, <2>2
      <3> HIDE DEF Byte
      <3> QED
        BY <3>1
    <2> HIDE DEF Byte, Here
    <2>4. q \div b = pos \div b /\ q % b = pos % b
      BY <1>1, <1>3, <2>1, <2>3
    <2>5. q = pos
      BY <1>1, <1>3, <2>4, Places
    <2>6. c \in Clusters /\ i \in 0 .. b - 1
      BY <1>1, <1>3, <2>1
    <2> QED
      BY <1>9, <2>1, <2>3, <2>5, <2>6
  <1>11. ASSUME NEW c \in Clusters, NEW i \in 0 .. b - 1,
                \A pos \in R : ~(p[pos \div b] = c /\ pos % b = i)
         PROVE  da[c][i] = data[c][i]
    <2>1. Here(c, i) = {}
      <3>1. ASSUME FromWrite(c, i)
            PROVE  FALSE
        <4> HIDE DEF Byte
        <4> QED
          BY <1>11, <3>1
      <3> HIDE DEF FromWrite, Here
      <3> QED
        BY <1>6, <3>1
    <2> QED
      BY <1>9, <2>1
  <1> QED
    BY <1>8, <1>10, <1>11 DEF Landed, R, b

\* After a write at or before its end, a file has the bytes written to it.
LEMMA OwnBytes ==
  ASSUME NEW fat2, NEW n2, NEW p2, Chain(fat2, n2, p2),
         NEW m \in Nat, NEW p, m <= n2, \A i \in 0 .. m - 1 : p2[i] = p[i],
         NEW was, NEW da, NEW e, NEW size \in Nat, HasBytes(was, m, p, e, size),
         NEW off \in Nat, NEW n \in Nat \ {0}, off <= size,
         (off + n) \div bytes_per_cluster < n2, Landed(da, was, p2, e, off, n)
  PROVE  HasBytes(da, n2, p2, e, Max({size, off + n}))
  <1> DEFINE b == bytes_per_cluster
  <1>1. b \in Nat \ {0} /\ n2 \in Nat /\ p2 \in [Nat -> Clusters]
        /\ \A i, j \in 0 .. n2 - 1 : p2[i] = p2[j] => i = j
    BY ConstantTypes DEF Chain
  <1>2. Max({size, off + n}) = IF size >= off + n THEN size ELSE off + n
    BY MaxOf
  <1>3. ASSUME NEW pos \in 0 .. Max({size, off + n}) - 1
        PROVE  /\ pos \div b < n2
               /\ da[p2[pos \div b]][pos % b] = [dentry |-> e, pos |-> pos]
    <2>1. pos \in Nat /\ off + n \in Nat /\ (pos < off + n \/ pos < size)
      BY <1>2, <1>3
    <2>2. pos \div b \in Nat /\ pos % b \in 0 .. b - 1 /\ (off + n) \div b \in Nat
          /\ (pos <= off + n => pos \div b <= (off + n) \div b)
      BY <1>1, <2>1, Places
    <2> PICK x, i : x = pos \div b /\ i = pos % b
      OBVIOUS
    <2>3. CASE pos \in off .. off + n - 1
      <3>1. pos <= off + n
        BY <2>3
      <3>2. pos \div b < n2
        BY <1>1, <2>2, <3>1
      <3>3. da[p2[pos \div b]][pos % b] = [dentry |-> e, pos |-> pos]
        BY <2>3 DEF Landed
      <3> QED
        BY <3>2, <3>3
    <2>4. CASE pos \notin off .. off + n - 1
      <3>1. pos \in 0 .. size - 1
        BY <2>1, <2>4
      <3>2. pos \div b < m /\ was[p[pos \div b]][pos % b] = [dentry |-> e, pos |-> pos]
        BY <3>1 DEF HasBytes
      <3>3. x \in 0 .. m - 1 /\ x \in 0 .. n2 - 1 /\ x \in Nat
        BY <1>1, <2>2, <3>2
      <3>4. p2[x] = p[x] /\ p2[x] \in Clusters /\ i \in 0 .. b - 1
        BY <1>1, <2>2, <3>3
      <3>5. ASSUME NEW q \in off .. off + n - 1, p2[q \div b] = p2[x], q % b = i
            PROVE  FALSE
        <4>1. q \in Nat /\ q <= off + n
          OBVIOUS
        <4>2. q \div b \in Nat /\ q \div b <= (off + n) \div b
          BY <1>1, <2>1, <4>1, Places
        <4>3. q \div b \in 0 .. n2 - 1
          BY <1>1, <2>2, <4>2
        <4>4. q \div b = pos \div b /\ q % b = pos % b
          BY <1>1, <3>3, <3>5, <4>3
        <4>5. q = pos
          BY <1>1, <2>1, <4>1, <4>4, Places
        <4> QED
          BY <2>4, <4>5
      <3>6. da[p2[x]][i] = was[p2[x]][i]
        BY <3>4, <3>5 DEF Landed
      <3> QED
        BY <1>1, <3>2, <3>3, <3>4, <3>6
    <2> QED
      BY <2>3, <2>4
  <1> QED
    BY <1>3 DEF HasBytes

\* A write to one file leaves the bytes of another.
LEMMA OtherBytes ==
  ASSUME NEW fat, NEW m, NEW p, Chain(fat, m, p), NEW size \in Nat,
         NEW was, NEW da, NEW e, NEW f, HasBytes(was, m, p, f, size),
         NEW n2 \in Nat, NEW p2, \A i \in 0 .. m - 1 : \A j \in 0 .. n2 - 1 : p[i] # p2[j],
         NEW off \in Nat, NEW n \in Nat \ {0},
         (off + n) \div bytes_per_cluster < n2, Landed(da, was, p2, e, off, n)
  PROVE  HasBytes(da, m, p, f, size)
  <1> DEFINE b == bytes_per_cluster
  <1>1. b \in Nat \ {0} /\ m \in Nat /\ p \in [Nat -> Clusters]
    BY ConstantTypes DEF Chain
  <1>2. ASSUME NEW pos \in 0 .. size - 1
        PROVE  /\ pos \div b < m
               /\ da[p[pos \div b]][pos % b] = [dentry |-> f, pos |-> pos]
    <2>1. pos \div b < m /\ was[p[pos \div b]][pos % b] = [dentry |-> f, pos |-> pos]
      BY DEF HasBytes
    <2> pos \in Nat
      OBVIOUS
    <2>2. pos \div b \in Nat /\ pos % b \in 0 .. b - 1
      BY <1>1, Places
    <2> PICK x, i : x = pos \div b /\ i = pos % b
      OBVIOUS
    <2>3. x \in 0 .. m - 1 /\ p[x] \in Clusters /\ i \in 0 .. b - 1
      BY <1>1, <2>1, <2>2
    <2>4. ASSUME NEW q \in off .. off + n - 1
          PROVE  p2[q \div b] # p[x]
      <3>1. q \in Nat /\ off + n \in Nat /\ q <= off + n
        OBVIOUS
      <3>2. q \div b \in Nat /\ (off + n) \div b \in Nat /\ q \div b <= (off + n) \div b
        BY <1>1, <3>1, Places
      <3>3. q \div b \in 0 .. n2 - 1
        BY <3>2
      <3> QED
        BY <2>3, <3>3
    <2>5. da[p[x]][i] = was[p[x]][i]
      BY <2>3, <2>4 DEF Landed
    <2> QED
      BY <2>1, <2>5
  <1> QED
    BY <1>2 DEF HasBytes

\* The bytes of every file after a write that succeeds.
LEMMA BytesWritten ==
  ASSUME Small, NEW fat \in Tables, NEW d \in [Dentries -> DentryType], NEW N, NEW P,
         Files(fat, d, N, P), NEW was, Bytes(d, was, N, P),
         NEW e \in Dentries, d[e].name \notin {Unused, Deleted},
         NEW fat2, NEW n2, NEW p2, Grown(fat, N[e], P[e], fat2, n2, p2),
         NEW off \in Nat, NEW n \in Nat \ {0}, off <= d[e].size,
         (off + n) \div bytes_per_cluster < n2,
         NEW da, Landed(da, was, p2, e, off, n),
         NEW d2, d2[e].size = Max({d[e].size, off + n}),
         Elsewhere(d, d2, e),
         NEW N2, N2 = [N EXCEPT ![e] = n2], NEW P2, P2 = [P EXCEPT ![e] = p2]
  PROVE  Bytes(d2, da, N2, P2)
  <1>1. Spared(N, P, e, fat, fat2, n2, p2)
    BY Untouched
  <1>2. N \in Counts /\ P \in Paths /\ \A f \in Dentries : Chain(fat, N[f], P[f])
    BY DEF Files
  <1>3. n2 \in Nat /\ Chain(fat2, n2, p2) /\ N[e] <= n2 /\ \A i \in 0 .. N[e] - 1 : p2[i] = P[e][i]
    BY DEF Grown, Chain
  <1>4. /\ N2[e] = n2 /\ P2[e] = p2
        /\ \A f \in Dentries \ {e} : N2[f] = N[f] /\ P2[f] = P[f]
    BY <1>2 DEF Counts, Paths
  <1>5. \A f \in Dentries : d[f].size \in Nat /\ N[f] \in Nat
    BY <1>2, ConstantTypes DEF DentryType, Counts
  <1>6. HasBytes(da, N2[e], P2[e], e, d2[e].size)
    <2> PICK m, p, size : m = N[e] /\ p = P[e] /\ size = d[e].size
      OBVIOUS
    <2>1. HasBytes(was, m, p, e, size) /\ m \in Nat /\ size \in Nat /\ off <= size
      BY <1>5 DEF Bytes
    <2>2. m <= n2 /\ \A i \in 0 .. m - 1 : p2[i] = p[i]
      BY <1>3
    <2>3. HasBytes(da, n2, p2, e, Max({size, off + n}))
      BY <1>3, <2>1, <2>2, OwnBytes
    <2> QED
      BY <1>4, <2>3
  <1>7. ASSUME NEW f \in Dentries \ {e}, d2[f].name \notin {Unused, Deleted}
        PROVE  HasBytes(da, N2[f], P2[f], f, d2[f].size)
    <2> PICK m, p, size : m = N[f] /\ p = P[f] /\ size = d[f].size
      OBVIOUS
    <2>1. HasBytes(was, m, p, f, size) /\ size \in Nat /\ Chain(fat, m, p)
      BY <1>2, <1>5, <1>7 DEF Bytes, Elsewhere
    <2>2. \A i \in 0 .. m - 1 : \A j \in 0 .. n2 - 1 : p[i] # p2[j]
      BY <1>1 DEF Spared
    <2>3. HasBytes(da, m, p, f, size)
      BY <1>3, <2>1, <2>2, OtherBytes
    <2> QED
      BY <1>4, <2>3 DEF Elsewhere
  <1> QED
    BY <1>6, <1>7 DEF Bytes

\* After one that fails, with a longer chain or the same.
LEMMA BytesKept ==
  ASSUME NEW d, NEW N \in Counts, NEW P \in Paths, NEW was, Bytes(d, was, N, P),
         NEW e \in Dentries, NEW fat, NEW fat2, NEW n2, NEW p2,
         Grown(fat, N[e], P[e], fat2, n2, p2),
         NEW N2, N2 = [N EXCEPT ![e] = n2], NEW P2, P2 = [P EXCEPT ![e] = p2]
  PROVE  Bytes(d, was, N2, P2)
  <1>1. n2 \in Nat /\ N[e] \in Nat /\ N[e] <= n2 /\ \A i \in 0 .. N[e] - 1 : p2[i] = P[e][i]
    BY DEF Grown, Chain, Counts
  <1>2. /\ N2[e] = n2 /\ P2[e] = p2
        /\ \A f \in Dentries \ {e} : N2[f] = N[f] /\ P2[f] = P[f]
    BY DEF Counts, Paths
  <1>3. ASSUME NEW f \in Dentries, d[f].name \notin {Unused, Deleted}
        PROVE  HasBytes(was, N2[f], P2[f], f, d[f].size)
    <2>1. HasBytes(was, N[f], P[f], f, d[f].size)
      BY <1>3 DEF Bytes
    <2>2. CASE f = e
      <3>1. ASSUME NEW pos \in 0 .. d[e].size - 1
            PROVE  /\ pos \div bytes_per_cluster < n2
                   /\ was[p2[pos \div bytes_per_cluster]][pos % bytes_per_cluster]
                        = [dentry |-> e, pos |-> pos]
        <4>1. /\ pos \div bytes_per_cluster < N[e]
              /\ was[P[e][pos \div bytes_per_cluster]][pos % bytes_per_cluster]
                   = [dentry |-> e, pos |-> pos]
          BY <2>1, <2>2 DEF HasBytes
        <4>2. pos \div bytes_per_cluster \in Nat
          BY ConstantTypes, Places
        <4> PICK x \in Nat : x = pos \div bytes_per_cluster
          BY <4>2
        <4>3. x \in 0 .. N[e] - 1 /\ x < n2
          BY <1>1, <4>1
        <4> QED
          BY <1>1, <4>1, <4>3
      <3> QED
        BY <1>2, <2>2, <3>1 DEF HasBytes
    <2>3. CASE f # e
      BY <1>2, <2>1, <2>3
    <2> QED
      BY <2>2, <2>3
  <1> QED
    BY <1>3 DEF Bytes

-----------------------------------------------------------------------------
(* Deletion                                                                *)

\* The clusters of the entries before number k that have the name.
Gone(d, N, P, name, k) ==
  {c \in Clusters : \E e \in Dentries :
     e < k /\ d[e].name = name /\ \E i \in 0 .. N[e] - 1 : P[e][i] = c}

\* One turn of FAT16_delete_file frees the clusters of the entry it looks at.
LEMMA DeleteTurn ==
  ASSUME Small, NEW fat \in Tables, NEW d, NEW N, NEW P, Files(fat, d, N, P),
         NEW name, name \notin {Unused, Deleted}, NEW e \in Dentries,
         NEW v \in VolumesOf(Freed(fat, Gone(d, N, P, name, e)))
  PROVE  (IF d[e].name # name THEN v ELSE invalidate_cluster_chain(v, d[e].first))
           \in VolumesOf(Freed(fat, Gone(d, N, P, name, e + 1)))
  <1>1. e \in Nat /\ \A f \in Dentries : f \in Nat /\ (f < e + 1 <=> f < e \/ f = e)
    BY ConstantTypes DEF Dentries
  <1>2. N[e] \in Nat /\ Chain(fat, N[e], P[e])
        /\ (IF HasChain(d, e) THEN N[e] # 0 /\ P[e][0] = d[e].first ELSE N[e] = 0)
    BY DEF Files, Counts
  <1> PICK n, p : n = N[e] /\ p = P[e]
    OBVIOUS
  <1> PICK S : S = Gone(d, N, P, name, e)
    OBVIOUS
  <1>3. CASE d[e].name # name
    <2>1. Gone(d, N, P, name, e + 1) = S
      BY <1>1, <1>3 DEF Gone
    <2> QED
      BY <1>3, <2>1
  <1>4. CASE d[e].name = name /\ d[e].first = 0
    <2>1. N[e] = 0
      BY <1>2, <1>4 DEF HasChain
    <2>2. 0 .. N[e] - 1 = {}
      BY <2>1
    <2>3. Gone(d, N, P, name, e + 1) = S
      BY <1>1, <2>2 DEF Gone
    <2>4. invalidate_cluster_chain(v, d[e].first) = v
      BY <1>4 DEF invalidate_cluster_chain
    <2> QED
      BY <1>4, <2>3, <2>4
  <1>5. CASE d[e].name = name /\ d[e].first # 0
    <2>1. n # 0 /\ p[0] = d[e].first /\ Chain(fat, n, p)
      BY <1>2, <1>5 DEF HasChain
    <2>2. PICK fat1 : fat1 = Freed(fat, S)
      OBVIOUS
    <2>3. fat1 \in Tables /\ \A c \in Table : c \notin S => fat1[c] = fat[c]
      BY <2>2, FreedOne
    <2>4. ASSUME NEW i \in 0 .. n - 1
          PROVE  p[i] \in Clusters /\ p[i] \notin S
      <3>1. p[i] \in Clusters
        BY <2>1, ChainUsed
      <3>2. ASSUME p[i] \in S
            PROVE  FALSE
        <4>1. PICK f \in Dentries : f < e /\ \E j \in 0 .. N[f] - 1 : P[f][j] = P[e][i]
          BY <3>2 DEF Gone
        <4>2. f = e
          BY <4>1 DEF Files, Apart
        <4> QED
          BY <1>1, <4>1, <4>2
      <3> QED
        BY <3>1, <3>2
    <2>5. Chain(fat1, n, p)
      <3>1. \A i \in 0 .. n - 1 : fat1[p[i]] = fat[p[i]]
        BY <2>3, <2>4, ClustersAreEntries
      <3> QED
        BY <2>1, <3>1, ChainKept
    <2>6. PICK t \in Sectors : v = Vol(fat1, t)
      BY <2>2 DEF VolumesOf
    <2>7. invalidate_cluster_chain(Vol(fat1, t), p[0]) \in VolumesOf(Freed(fat1, Own(n, p)))
      BY <2>1, <2>3, <2>5, Released
    <2>8. S \cup Own(n, p) = Gone(d, N, P, name, e + 1)
      <3>1. ASSUME NEW c
            PROVE  c \in Gone(d, N, P, name, e + 1)
                     <=> c \in S \/ \E i \in 0 .. n - 1 : p[i] = c
        <4>1. \A i \in 0 .. n - 1 : p[i] = c => c \in Clusters
          BY <2>4
        <4> QED
          BY <1>1, <1>5, <4>1 DEF Gone
      <3> QED
        BY <3>1 DEF Own
    <2>9. Freed(fat1, Own(n, p)) = Freed(fat, Gone(d, N, P, name, e + 1))
      <3> PICK T : T = Own(n, p)
        OBVIOUS
      <3>1. Freed(Freed(fat, S), T) = Freed(fat, S \cup T)
        BY DEF Freed
      <3> QED
        BY <2>2, <2>8, <3>1
    <2>10. invalidate_cluster_chain(v, d[e].first)
             \in VolumesOf(Freed(fat, Gone(d, N, P, name, e + 1)))
      BY <2>1, <2>6, <2>7, <2>9
    <2> QED
      BY <1>5, <2>10
  <1> QED
    BY <1>3, <1>4, <1>5

\* FAT16_delete_file frees the clusters of every entry of that name.
LEMMA DeleteLoop ==
  ASSUME Small, Consistent, NEW N, NEW P, Files(volume.fat, dir, N, P),
         NEW name, name \notin {Unused, Deleted}, FAT16_delete_file(name)
  PROVE  volume' \in VolumesOf(Freed(volume.fat, Gone(dir, N, P, name, max_root_dentries)))
  <1> DEFINE M == max_root_dentries
             Turn(k, v) == IF dir[k - 1].name # name THEN v
                           ELSE invalidate_cluster_chain(v, dir[k - 1].first)
             D == [k \in 0 .. M |-> VolumesOf(Freed(volume.fat, Gone(dir, N, P, name, k)))]
             U == UNION {D[k] : k \in 0 .. M}
             F == [k \in 1 .. M |-> [v \in U |-> Turn(k, v)]]
             Equals(f) == f = [k \in 0 .. M |->
                                 IF k = 0 THEN volume
                                 ELSE IF dir[k - 1].name # name THEN f[k - 1]
                                 ELSE invalidate_cluster_chain(f[k - 1], dir[k - 1].first)]
             f == CHOOSE f : Equals(f)
  <1>1. M \in Nat /\ volume.fat \in Tables /\ \A k \in 1 .. M : k - 1 \in Dentries
    BY ConstantTypes DEF Consistent, Dentries
  <1>2. volume \in D[0]
    <2>1. Gone(dir, N, P, name, 0) = {}
      BY ConstantTypes DEF Gone, Dentries
    <2>2. Freed(volume.fat, {}) = volume.fat
      BY <1>1, FreedOne
    <2>3. PICK s \in Sectors : volume = Vol(volume.fat, s)
      BY DEF Consistent
    <2>4. volume \in VolumesOf(volume.fat)
      BY <2>3 DEF VolumesOf
    <2> QED
      BY <1>1, <2>1, <2>2, <2>4
  <1>3. ASSUME NEW k \in 1 .. M, NEW v \in D[k - 1]
        PROVE  F[k][v] = Turn(k, v) /\ F[k][v] \in D[k]
    <2>1. k - 1 \in 0 .. M /\ k - 1 \in Dentries /\ (k - 1) + 1 = k /\ k \in 0 .. M
      BY <1>1
    <2>2. F[k][v] = Turn(k, v)
      BY <2>1
    <2>3. v \in VolumesOf(Freed(volume.fat, Gone(dir, N, P, name, k - 1)))
      BY <2>1
    <2>4. Turn(k, v) \in VolumesOf(Freed(volume.fat, Gone(dir, N, P, name, (k - 1) + 1)))
      <3> PICK e \in Dentries : e = k - 1
        BY <2>1
      <3>1. v \in VolumesOf(Freed(volume.fat, Gone(dir, N, P, name, e)))
        BY <2>3
      <3> QED
        BY <1>1, <3>1, DeleteTurn
    <2> HIDE DEF F, Turn
    <2> QED
      BY <2>1, <2>2, <2>4
  <1> HIDE DEF F, D, U
  <1>4. PICK g : Turns(g, F, volume, M) /\ \A k \in 0 .. M : g[k] \in D[k]
    BY <1>1, <1>2, <1>3, TurnsExist
  <1>5. Equals(g)
    <2>1. \A k \in 1 .. M : F[k][g[k - 1]] = Turn(k, g[k - 1])
      BY <1>1, <1>3, <1>4
    <2>2. g = [k \in 0 .. M |-> IF k = 0 THEN volume ELSE Turn(k, g[k - 1])]
      <3> HIDE DEF Turn
      <3>1. \A k \in 0 .. M : (IF k = 0 THEN volume ELSE F[k][g[k - 1]])
                              = (IF k = 0 THEN volume ELSE Turn(k, g[k - 1]))
        BY <1>1, <2>1
      <3> QED
        BY <1>4, <3>1 DEF Turns
    <2> QED
      BY <2>2
  <1>6. Equals(f) /\ volume' = f[M]
    BY <1>5 DEF FAT16_delete_file
  <1> HIDE DEF f
  <1>7. f[0] = volume /\ \A k \in 1 .. M : f[k] = Turn(k, f[k - 1])
    BY <1>1, <1>6
  <1>8. \A k \in 1 .. M : f[k - 1] \in D[k - 1] => f[k] \in D[k]
    <2> HIDE DEF Turn
    <2> QED
      BY <1>3, <1>7
  <1>9. f[M] \in D[M]
    BY <1>1, <1>2, <1>7, <1>8, TurnsStay
  <1> QED
    BY <1>1, <1>6, <1>9 DEF D

-----------------------------------------------------------------------------
(* The steps                                                               *)

\* What a step makes of the files: every chain and byte is in place again, and
\* no cluster gets lost unless the call fails.
FilesNow(N, P) == Files(volume.fat, dir, N, P) /\ Bytes(dir, data, N, P)
NoneLost(N, P, N2, P2) ==
  result' = "ok" =>
    \A c \in Clusters : volume'.fat[c] # Free /\ ~Used(N2, P2, c)
                          => volume.fat[c] # Free /\ ~Used(N, P, c)
FilesNext(N, P) ==
  \E N2 \in Counts, P2 \in Paths :
    /\ Files(volume'.fat, dir', N2, P2) /\ Bytes(dir', data', N2, P2)
    /\ NoneLost(N, P, N2, P2)
Good == Typed /\ Consistent /\ HandlesAgree

\* A volume whose table is known.
LEMMA InVolumes ==
  ASSUME NEW fat \in Tables, NEW v \in VolumesOf(fat)
  PROVE  v.fat = fat /\ v.fat \in Tables /\ \E s \in Sectors : v = Vol(v.fat, s)
  <1>1. PICK s \in Sectors : v = Vol(fat, s)
    BY DEF VolumesOf
  <1>2. v.fat = fat
    BY <1>1 DEF Vol
  <1> QED
    BY <1>1, <1>2

\* A call that leaves table, directory and data alone leaves the files.
LEMMA SameFiles ==
  ASSUME NEW N \in Counts, NEW P \in Paths, FilesNow(N, P),
         volume'.fat = volume.fat, dir' = dir, data' = data
  PROVE  FilesNext(N, P)
  BY DEF FilesNow, FilesNext, NoneLost

\* No name of a file is a mark of the directory.
LEMMA RealNames ==
  ASSUME NEW name \in Names
  PROVE  name \notin {Unused, Deleted} /\ ShortName(name) \notin {Unused, Deleted}
  BY Fat16Assumption, NamesAssumption DEF Unused, Deleted

\* A close keeps the invariant.
LEMMA CloseStep ==
  ASSUME Ordinary, Good, NEW N \in Counts, NEW P \in Paths, FilesNow(N, P),
         NEW h \in Handles, sys_close(h)
  PROVE  Good' /\ FilesNext(N, P)
  <1>1. inode' = [inode EXCEPT ![h] = Closed] /\ result' = "ok"
        /\ UNCHANGED <<volume, dir, data, damage>>
    BY DEF sys_close
  <1>2. Closed \in InodeType /\ ~Closed.open
    BY ConstantTypes DEF Closed, InodeType, Dentries
  <1>3. Typed'
    BY <1>1, <1>2 DEF Good, Typed
  <1>4. Consistent'
    BY <1>1 DEF Good, Consistent
  <1>5. HandlesAgree'
    <2>1. \A g \in Handles : inode'[g].open => inode'[g] = inode[g] /\ inode[g].open
      BY <1>1, <1>2 DEF Good, Typed
    <2> QED
      BY <1>1, <2>1 DEF Good, HandlesAgree, IsLive
  <1>6. FilesNext(N, P)
    BY <1>1, SameFiles
  <1> QED
    BY <1>3, <1>4, <1>5, <1>6 DEF Good

\* A mount loads the first sector of the table.
LEMMA MountedVolume ==
  ASSUME NEW fat
  PROVE  Mounted(fat, 0) = Vol(fat, 0) /\ 0 \in Sectors
  <1>1. \A i \in Slots : 0 * FAT_SECTOR_CACHE_SIZE + i = i
    BY ConstantTypes DEF Slots
  <1> QED
    BY <1>1, ConstantTypes DEF Mounted, Vol, Sectors

\* A mount keeps the invariant.
LEMMA MountStep ==
  ASSUME Ordinary, Good, NEW N \in Counts, NEW P \in Paths, FilesNow(N, P), FAT16_mount
  PROVE  Good' /\ FilesNext(N, P)
  <1>1. /\ volume' = Mounted(volume.fat, 0)
        /\ inode' = [h \in Handles |-> Closed] /\ result' = "ok"
        /\ UNCHANGED <<dir, data, damage>>
    BY DEF FAT16_mount, Ordinary
  <1>2. Closed \in InodeType /\ ~Closed.open
    BY ConstantTypes DEF Closed, InodeType, Dentries
  <1>3. Typed'
    BY <1>1, <1>2 DEF Good, Typed
  <1>4. Mounted(volume.fat, 0) = Vol(volume.fat, 0) /\ 0 \in Sectors
    BY MountedVolume
  <1>5. volume' \in VolumesOf(volume.fat) /\ volume.fat \in Tables
    BY <1>1, <1>4 DEF VolumesOf, Good, Consistent
  <1>6. volume'.fat = volume.fat /\ Consistent'
    BY <1>5, InVolumes DEF Consistent
  <1>7. HandlesAgree'
    BY <1>1, <1>2 DEF HandlesAgree
  <1>8. FilesNext(N, P)
    BY <1>1, <1>6, SameFiles
  <1> QED
    BY <1>3, <1>6, <1>7, <1>8 DEF Good

\* The entry that a name leads to, and the one that a new file gets.
LEMMA Found ==
  ASSUME NEW S \in SUBSET Dentries, S # {}
  PROVE  Min(S) \in S /\ Min(S) \in Dentries
  <1>1. S \in SUBSET Nat
    BY ConstantTypes DEF Dentries
  <1> QED
    BY <1>1, Least

\* An inode made from the directory entry says what that says.
LEMMA OpenedAgrees ==
  ASSUME Good, NEW h \in Handles, NEW e \in Dentries, NEW truncate \in BOOLEAN,
         dir' \in [Dentries -> DentryType], Opened(h, e, truncate),
         dir'[e].name \notin {Unused, Deleted},
         \A f \in Dentries : IsLive(f) => dir'[f] = dir[f]
  PROVE  inode' \in [Handles -> InodeType] /\ HandlesAgree'
  <1> DEFINE new == [open |-> TRUE, dentry |-> e, first |-> dir'[e].first,
                     size |-> IF truncate THEN 0 ELSE dir'[e].size]
  <1>1. inode' = [inode EXCEPT ![h] = new]
    BY DEF Opened
  <1>2. dir'[e].first \in {0} \cup Clusters /\ dir'[e].size \in 0 .. MaxSize
    BY DEF DentryType
  <1>3. 0 \in 0 .. MaxSize /\ 0 <= dir'[e].size
    BY <1>2, ConstantTypes
  <1>4. new \in InodeType
    BY <1>2, <1>3 DEF InodeType
  <1>5. inode' \in [Handles -> InodeType]
    BY <1>1, <1>4 DEF Good, Typed
  <1>6. /\ new.open = TRUE /\ new.dentry = e /\ new.size <= dir'[e].size
        /\ new.first = dir'[e].first
    BY <1>2, <1>3
  <1> HIDE DEF new
  <1>7. ASSUME NEW g \in Handles, inode'[g].open
        PROVE  LET i == inode'[g]
                   f == inode'[g].dentry
               IN  dir'[f].name \notin {Unused, Deleted} /\ i.size <= dir'[f].size
                   /\ (i.size > 0 => i.first = dir'[f].first)
    <2>1. CASE g = h
      <3>1. inode'[g] = new
        BY <1>1, <2>1 DEF Good, Typed
      <3> QED
        BY <1>6, <3>1
    <2>2. CASE g # h
      <3>1. inode'[g] = inode[g]
        BY <1>1, <2>2 DEF Good, Typed
      <3>2. inode[g].dentry \in Dentries
        BY DEF Good, Typed, InodeType
      <3>3. IsLive(inode[g].dentry) /\ inode[g].size <= dir[inode[g].dentry].size
            /\ (inode[g].size > 0 => inode[g].first = dir[inode[g].dentry].first)
        BY <1>7, <3>1 DEF Good, HandlesAgree
      <3>4. dir'[inode[g].dentry] = dir[inode[g].dentry]
        BY <3>2, <3>3
      <3> QED
        BY <3>1, <3>3, <3>4 DEF IsLive
    <2> QED
      BY <2>1, <2>2
  <1>8. HandlesAgree'
    BY <1>7 DEF HandlesAgree, IsLive
  <1> QED
    BY <1>5, <1>8

\* An open keeps it, with or without creating and truncating.
LEMMA OpenStep ==
  ASSUME Ordinary, Good, NEW N \in Counts, NEW P \in Paths, FilesNow(N, P),
         NEW h \in Handles, NEW name \in Names,
         NEW create \in BOOLEAN, NEW truncate \in BOOLEAN,
         sys_open(h, name, create, truncate)
  PROVE  Good' /\ FilesNext(N, P)
  <1> DEFINE Fails == /\ dir' = dir /\ inode' = inode
                      /\ \/ damage' = "overread" /\ result' = result
                         \/ result' = "ENOENT" /\ damage' = damage
             Finds == /\ Matches(name) # {} /\ UNCHANGED <<dir, damage>>
                      /\ Opened(h, Min(Matches(name)), truncate) /\ result' = "ok"
             Creates == /\ Ended /\ FAT16_create_file(name)
                        /\ Opened(h, Min(NewDentry), truncate)
                        /\ result' = "ok" /\ damage' = damage
  <1>1. volume' = volume /\ data' = data
    BY DEF sys_open
  <1>2. Consistent'
    BY <1>1 DEF Good, Consistent
  <1>3. CASE Fails
    <2>1. Typed'
      BY <1>1, <1>3 DEF Good, Typed
    <2>2. HandlesAgree'
      BY <1>3 DEF Good, HandlesAgree, IsLive
    <2>3. FilesNext(N, P)
      BY <1>1, <1>3, SameFiles
    <2> QED
      BY <1>2, <2>1, <2>2, <2>3 DEF Good
  <1>4. CASE Finds
    <2>1. Matches(name) \in SUBSET Dentries
      BY DEF Matches
    <2>2. PICK e \in Dentries : e = Min(Matches(name)) /\ e \in Matches(name)
      BY <1>4, <2>1, Found
    <2>3. dir'[e].name \notin {Unused, Deleted}
      BY <1>4, <2>2, RealNames DEF Matches
    <2>4. inode' \in [Handles -> InodeType] /\ HandlesAgree'
      <3>1. dir' \in [Dentries -> DentryType] /\ Opened(h, e, truncate)
            /\ \A f \in Dentries : IsLive(f) => dir'[f] = dir[f]
        BY <1>4, <2>2 DEF Good, Typed
      <3> QED
        BY <2>3, <3>1, OpenedAgrees
    <2>5. Typed'
      BY <1>1, <1>4, <2>4 DEF Good, Typed
    <2>6. FilesNext(N, P)
      BY <1>1, <1>4, SameFiles
    <2> QED
      BY <1>2, <2>4, <2>5, <2>6 DEF Good
  <1>5. CASE Creates
    <2>1. NewDentry \in SUBSET Dentries /\ NewDentry # {}
      BY <1>5 DEF NewDentry, Ended, IsLive
    <2>2. PICK e \in Dentries : e = Min(NewDentry) /\ e \in NewDentry
      BY <2>1, Found
    <2>3. ~IsLive(e)
      BY <2>2 DEF NewDentry
    <2> PICK new : new = [name |-> ShortName(name), first |-> 0, size |-> 0]
      OBVIOUS
    <2>4. new \in DentryType
      <3>1. 0 \in 0 .. MaxSize
        BY ConstantTypes
      <3> QED
        BY <3>1 DEF DentryType
    <2>5. dir' = [dir EXCEPT ![e] = new]
      BY <1>5, <2>2 DEF FAT16_create_file
    <2>6. /\ dir' \in [Dentries -> DentryType] /\ dir'[e] = new
          /\ \A f \in Dentries \ {e} : dir'[f] = dir[f]
      BY <2>4, <2>5 DEF Good, Typed
    <2>7. dir'[e].name \notin {Unused, Deleted} /\ dir'[e].first = 0 /\ dir'[e].size = 0
      BY <2>6, RealNames
    <2>8. inode' \in [Handles -> InodeType] /\ HandlesAgree'
      <3>1. Opened(h, e, truncate)
        BY <1>5, <2>2
      <3>2. \A f \in Dentries : IsLive(f) => dir'[f] = dir[f]
        BY <2>3, <2>6
      <3> QED
        BY <2>6, <2>7, <3>1, <3>2, OpenedAgrees
    <2>9. Typed'
      BY <1>1, <1>5, <2>6, <2>8 DEF Good, Typed
    <2>10. Files(volume'.fat, dir', N, P)
      <3>1. \A f \in Dentries : HasChain(dir', f) <=> HasChain(dir, f)
        <4> TAKE f \in Dentries
        <4>1. CASE f = e
          BY <2>3, <2>7, <4>1 DEF HasChain, IsLive
        <4>2. CASE f # e
          BY <2>6, <4>2 DEF HasChain
        <4> QED
          BY <4>1, <4>2
      <3>2. \A f \in Dentries : HasChain(dir, f) => dir'[f].first = dir[f].first
        BY <2>3, <2>6 DEF HasChain, IsLive
      <3> QED
        BY <1>1, <3>1, <3>2 DEF FilesNow, Files
    <2>11. Bytes(dir', data', N, P)
      <3>1. ASSUME NEW f \in Dentries, dir'[f].name \notin {Unused, Deleted}
            PROVE  HasBytes(data, N[f], P[f], f, dir'[f].size)
        <4>1. CASE f = e
          BY <2>7, <4>1 DEF HasBytes
        <4>2. CASE f # e
          BY <2>6, <3>1, <4>2 DEF FilesNow, Bytes
        <4> QED
          BY <4>1, <4>2
      <3> QED
        BY <1>1, <3>1 DEF Bytes
    <2>12. FilesNext(N, P)
      BY <1>1, <2>10, <2>11 DEF FilesNext, NoneLost
    <2> QED
      BY <1>2, <2>8, <2>9, <2>12 DEF Good
  <1>6. Fails \/ Finds \/ Creates
    BY DEF sys_open
  <1> HIDE DEF Fails, Finds, Creates
  <1> QED
    BY <1>3, <1>4, <1>5, <1>6

\* Reading moves the cache and nothing else.
LEMMA ReadOnSome ==
  ASSUME Small, NEW fat \in Tables,
         NEW h \in UNION {At(fat, x) : x \in {Free, EndOfChain} \cup Clusters}
  PROVE  ReadOn(h) \in UNION {At(fat, x) : x \in {Free, EndOfChain} \cup Clusters}
  <1>1. PICK x \in {Free, EndOfChain} \cup Clusters : h \in At(fat, x)
    OBVIOUS
  <1>2. h.at = x
    BY <1>1, AtFields
  <1>3. CASE x < 3 \/ IsLast(x)
    BY <1>2, <1>3 DEF ReadOn
  <1>4. CASE ~(x < 3 \/ IsLast(x))
    <2>1. x \in Clusters /\ x \in Table
      BY <1>4, MarksDiffer, ClustersAreEntries DEF Free
    <2>2. Follow(h) \in At(fat, fat[x]) /\ fat[x] \in {Free, EndOfChain} \cup Clusters
      BY <1>1, <2>1, FollowAt DEF Tables
    <2>3. ReadOn(h) = Follow(h)
      BY <1>2, <1>4 DEF ReadOn
    <2> QED
      BY <2>2, <2>3
  <1> QED
    BY <1>3, <1>4

\* A read changes no more of the volume than the sector in the cache.
LEMMA ReadVolume ==
  ASSUME Small, NEW fat \in Tables, NEW s \in Sectors, NEW n, NEW p, Chain(fat, n, p),
         NEW off \in Nat, NEW m \in Nat \ {0}, off \div bytes_per_cluster < n
  PROVE  FAT16_read_cluster_chain(Vol(fat, s), p[0], off, m) \in VolumesOf(fat)
  <1> DEFINE b == bytes_per_cluster
             Some == UNION {At(fat, x) : x \in {Free, EndOfChain} \cup Clusters}
             others == (off + m - 1) \div b - off \div b
             D == [k \in 0 .. others |-> Some]
  <1>1. b \in Nat \ {0} /\ n \in Nat /\ p \in [Nat -> Clusters]
    BY ConstantTypes DEF Chain
  <1>2. off \div b \in Nat /\ (off + m - 1) \div b \in Nat /\ off \div b <= (off + m - 1) \div b
    <2>1. off + m - 1 \in Nat /\ off <= off + m - 1
      OBVIOUS
    <2> HIDE DEF b
    <2> QED
      BY <1>1, <2>1, Places
  <1>3. others \in Nat
    <2> PICK y \in Nat, z \in Nat : y = off \div b /\ z = (off + m - 1) \div b
      BY <1>2
    <2>1. y <= z
      BY <1>2
    <2>2. z - y \in Nat
      BY <2>1
    <2> QED
      BY <2>2
  <1>4. PICK k \in 0 .. n - 1 : k = off \div b
    BY <1>1, <1>2
  <1>5. PICK x : x = Follow(Walk(Vol(fat, s), p[0], k))
    OBVIOUS
  <1>6. x \in Some
    <2>1. Walk(Vol(fat, s), p[0], k) \in At(fat, p[k])
      BY WalkChain
    <2>2. p[k] \in Table
      BY <1>1, ClustersAreEntries
    <2>3. x \in At(fat, fat[p[k]]) /\ fat[p[k]] \in {Free, EndOfChain} \cup Clusters
      BY <1>5, <2>1, <2>2, FollowAt DEF Tables
    <2> QED
      BY <2>3
  <1>7. \A i \in 1 .. others : \A h \in D[i - 1] : ReadOn(h) \in D[i]
    <2> TAKE i \in 1 .. others
    <2>1. i - 1 \in 0 .. others /\ i \in 0 .. others
      BY <1>3
    <2> HIDE DEF others
    <2>2. D[i - 1] = Some /\ D[i] = Some
      BY <2>1
    <2> QED
      BY <2>2, ReadOnSome
  <1>8. x \in D[0] /\ D[others] = Some
    <2> HIDE DEF others, Some
    <2> QED
      BY <1>3, <1>6
  <1>9. Looped(ReadOn, x, others) \in Some
    <2> HIDE DEF D, others, Some
    <2>1. Looped(ReadOn, x, others) \in D[others]
      BY <1>3, <1>7, <1>8, ReadOnLoop
    <2> QED
      BY <1>8, <2>1
  <1>10. FAT16_read_cluster_chain(Vol(fat, s), p[0], off, m) = Looped(ReadOn, x, others).volume
    BY <1>4, <1>5 DEF FAT16_read_cluster_chain
  <1> HIDE DEF others
  <1>11. PICK c \in {Free, EndOfChain} \cup Clusters : Looped(ReadOn, x, others) \in At(fat, c)
    BY <1>9
  <1>12. PICK t \in Sectors : Looped(ReadOn, x, others).volume = Vol(fat, t)
    BY <1>11, AtFields
  <1> QED
    BY <1>10, <1>12 DEF VolumesOf

\* The lesser one of two numbers is one of them.
LEMMA LessOf ==
  ASSUME NEW x \in Nat, NEW y \in Nat
  PROVE  Min({x, y}) \in {x, y}
  <1>1. {x, y} \in SUBSET Nat /\ {x, y} # {}
    OBVIOUS
  <1> QED
    BY <1>1, Least

\* A read keeps the invariant.
LEMMA ReadStep ==
  ASSUME Ordinary, Good, NEW N \in Counts, NEW P \in Paths, FilesNow(N, P),
         NEW h \in Handles, NEW off \in 0 .. MaxSize, NEW n \in 1 .. MaxWrite,
         FAT16_read(h, off, n)
  PROVE  Good' /\ FilesNext(N, P)
  <1>1. /\ inode[h].open /\ off < inode[h].size
        /\ result' = "ok" /\ UNCHANGED <<dir, data, inode, damage>>
    BY DEF FAT16_read
  <1>2. volume \in VolumesOf(volume.fat) /\ volume.fat \in Tables
    BY DEF Good, Consistent, VolumesOf
  <1>3. volume' \in VolumesOf(volume.fat)
    <2>1. CASE IsRoot(h)
      BY <1>2, <2>1 DEF FAT16_read
    <2>2. CASE ~IsRoot(h)
      <3> PICK i : i = inode[h]
        OBVIOUS
      <3>1. i \in InodeType
        BY DEF Good, Typed
      <3>2. i.size \in Nat /\ i.dentry \in Dentries /\ off \in Nat /\ n \in Nat \ {0}
        BY <3>1, ConstantTypes DEF InodeType
      <3> PICK e \in Dentries : e = i.dentry
        BY <3>2
      <3>3. IsLive(e) /\ i.size <= dir[e].size /\ i.first = dir[e].first
        BY <1>1, <3>2 DEF Good, HandlesAgree
      <3>4. off \in 0 .. dir[e].size - 1 /\ dir[e].size \in Nat
        <4>1. dir[e].size \in Nat
          <5>1. dir[e] \in DentryType
            BY DEF Good, Typed
          <5> QED
            BY <5>1, ConstantTypes DEF DentryType
        <4> QED
          BY <1>1, <3>2, <3>3, <4>1
      <3>5. off \div bytes_per_cluster < N[e]
        BY <3>3, <3>4 DEF FilesNow, Bytes, HasBytes, IsLive
      <3>6. off \div bytes_per_cluster \in Nat
        BY <3>2, ConstantTypes, Places
      <3>7. N[e] # 0 /\ P[e][0] = dir[e].first /\ Chain(volume.fat, N[e], P[e])
        BY <3>5, <3>6 DEF FilesNow, Files
      <3>8. i.size - off \in Nat \ {0}
        BY <1>1, <3>2
      <3>9. PICK m \in Nat \ {0} : m = Min({n, i.size - off})
        BY <3>2, <3>8, LessOf
      <3>10. PICK s \in Sectors : volume = Vol(volume.fat, s)
        BY DEF Good, Consistent
      <3>11. volume' = FAT16_read_cluster_chain(volume, i.first, off, m)
        BY <2>2, <3>9 DEF FAT16_read
      <3>12. Small
        BY DEF Ordinary
      <3> PICK fat, k, p : fat \in Tables /\ fat = volume.fat /\ k = N[e] /\ p = P[e]
        BY <1>2
      <3>13. Chain(fat, k, p) /\ off \div bytes_per_cluster < k
        BY <3>5, <3>7
      <3>14. FAT16_read_cluster_chain(Vol(fat, s), p[0], off, m) \in VolumesOf(fat)
        BY <3>2, <3>12, <3>13, ReadVolume
      <3> QED
        BY <3>3, <3>7, <3>10, <3>11, <3>14
    <2> QED
      BY <2>1, <2>2
  <1>4. volume'.fat = volume.fat /\ Consistent'
    BY <1>2, <1>3, InVolumes DEF Consistent
  <1>5. Typed'
    BY <1>1 DEF Good, Typed
  <1>6. HandlesAgree'
    BY <1>1 DEF Good, HandlesAgree, IsLive
  <1>7. FilesNext(N, P)
    BY <1>1, <1>4, SameFiles
  <1> QED
    BY <1>4, <1>5, <1>6, <1>7 DEF Good

\* The files that are left when those with a name are deleted.
LEMMA FilesDeleted ==
  ASSUME Small, NEW fat \in Tables, NEW d, NEW N, NEW P, Files(fat, d, N, P),
         NEW name, name \notin {Unused, Deleted},
         NEW G, G = Gone(d, N, P, name, max_root_dentries),
         NEW d2, \A e \in Dentries : d2[e].name = (IF d[e].name = name THEN Deleted ELSE d[e].name)
                                     /\ d2[e].first = d[e].first,
         NEW N2, N2 = [e \in Dentries |-> IF d[e].name = name THEN 0 ELSE N[e]]
  PROVE  /\ N2 \in Counts /\ Files(Freed(fat, G), d2, N2, P)
         /\ \A c \in Clusters : Freed(fat, G)[c] # Free /\ ~Used(N2, P, c)
                                  => fat[c] # Free /\ ~Used(N, P, c)
  <1>1. /\ N \in Counts /\ P \in Paths /\ Apart(N, P)
        /\ \A e \in Dentries : Chain(fat, N[e], P[e])
        /\ \A e \in Dentries : IF HasChain(d, e) THEN N[e] # 0 /\ P[e][0] = d[e].first
                               ELSE N[e] = 0
    BY DEF Files
  <1>2. N2 \in Counts
    BY <1>1 DEF Counts
  <1>3. \A e \in Dentries : N2[e] = IF d[e].name = name THEN 0 ELSE N[e]
    OBVIOUS
  <1>4. \A c \in Table : Freed(fat, G)[c] = IF c \in G THEN Free ELSE fat[c]
    BY DEF Freed
  <1>5. ASSUME NEW e \in Dentries, d[e].name # name, NEW i \in 0 .. N[e] - 1
        PROVE  P[e][i] \notin G
    <2>1. ASSUME P[e][i] \in G
          PROVE  FALSE
      <3>1. PICK f \in Dentries : d[f].name = name /\ \E j \in 0 .. N[f] - 1 : P[f][j] = P[e][i]
        BY <2>1 DEF Gone
      <3>2. f = e
        BY <1>1, <3>1 DEF Apart
      <3> QED
        BY <1>5, <3>1, <3>2
    <2> QED
      BY <2>1
  <1>6. ASSUME NEW e \in Dentries
        PROVE  Chain(Freed(fat, G), N2[e], P[e])
    <2>1. CASE d[e].name = name
      <3>1. N2[e] = 0 /\ P[e] \in [Nat -> Clusters]
        BY <1>1, <1>3, <2>1 DEF Paths
      <3> QED
        BY <3>1 DEF Chain
    <2>2. CASE d[e].name # name
      <3>1. \A i \in 0 .. N[e] - 1 : P[e][i] \in Table /\ P[e][i] \notin G
        <4>1. Chain(fat, N[e], P[e])
          BY <1>1
        <4>2. \A i \in 0 .. N[e] - 1 : P[e][i] \in Table
          BY <4>1, ChainUsed
        <4> QED
          BY <1>5, <2>2, <4>2
      <3>2. \A i \in 0 .. N[e] - 1 : Freed(fat, G)[P[e][i]] = fat[P[e][i]]
        BY <1>4, <3>1
      <3>3. Chain(Freed(fat, G), N[e], P[e])
        BY <1>1, <3>2, ChainKept
      <3> QED
        BY <1>3, <2>2, <3>3
    <2> QED
      BY <2>1, <2>2
  <1>7. ASSUME NEW e \in Dentries
        PROVE  IF HasChain(d2, e) THEN N2[e] # 0 /\ P[e][0] = d2[e].first ELSE N2[e] = 0
    <2>1. CASE d[e].name = name
      BY <1>3, <2>1 DEF HasChain
    <2>2. CASE d[e].name # name
      <3>1. HasChain(d2, e) <=> HasChain(d, e)
        BY <2>2 DEF HasChain
      <3> QED
        BY <1>1, <1>3, <2>2, <3>1
    <2> QED
      BY <2>1, <2>2
  <1>8. Apart(N2, P)
    <2>1. \A e \in Dentries : \A i \in 0 .. N2[e] - 1 : i \in 0 .. N[e] - 1
      BY <1>3
    <2> QED
      BY <1>1, <2>1 DEF Apart
  <1>9. Files(Freed(fat, G), d2, N2, P)
    BY <1>1, <1>2, <1>6, <1>7, <1>8 DEF Files
  <1>10. ASSUME NEW c \in Clusters, Freed(fat, G)[c] # Free, ~Used(N2, P, c)
         PROVE  fat[c] # Free /\ ~Used(N, P, c)
    <2>1. c \notin G /\ fat[c] # Free
      BY <1>4, <1>10, ClustersAreEntries
    <2>2. ASSUME NEW e \in Dentries, NEW i \in 0 .. N[e] - 1, P[e][i] = c
          PROVE  FALSE
      <3>1. CASE d[e].name = name
        <4>1. e < max_root_dentries
          BY ConstantTypes DEF Dentries
        <4>2. c \in G
          BY <2>2, <3>1, <4>1 DEF Gone
        <4> QED
          BY <2>1, <4>2
      <3>2. CASE d[e].name # name
        BY <1>3, <1>10, <2>2, <3>2 DEF Used
      <3> QED
        BY <3>1, <3>2
    <2> QED
      BY <2>1, <2>2 DEF Used
  <1> QED
    BY <1>2, <1>9, <1>10

\* An unlink keeps the invariant.
LEMMA UnlinkStep ==
  ASSUME Ordinary, Good, NEW N \in Counts, NEW P \in Paths, FilesNow(N, P),
         NEW name \in Names, sys_unlink(name)
  PROVE  Good' /\ FilesNext(N, P)
  <1> DEFINE Fails == /\ UNCHANGED <<volume, dir, data>>
                      /\ \/ damage' = "overread" /\ result' = result
                         \/ result' = "ENOENT" /\ damage' = damage
             Deletes == /\ FAT16_delete_file(name) /\ Forgotten(name)
                        /\ result' = "ok" /\ damage' = damage
  <1>1. /\ inode' = inode
        /\ \A h \in Handles : inode[h].open => inode[h].dentry \notin Matches(name)
        /\ Fails \/ Deletes
    BY DEF sys_unlink, Ordinary
  <1>2. CASE Fails
    <2>1. Typed'
      BY <1>1, <1>2 DEF Good, Typed
    <2>2. Consistent'
      BY <1>2 DEF Good, Consistent
    <2>3. HandlesAgree'
      BY <1>1, <1>2 DEF Good, HandlesAgree, IsLive
    <2>4. FilesNext(N, P)
      BY <1>2, SameFiles
    <2> QED
      BY <2>1, <2>2, <2>3, <2>4 DEF Good
  <1>3. CASE Deletes
    <2> PICK fat \in Tables : fat = volume.fat
      BY DEF Good, Consistent
    <2> PICK G : G = Gone(dir, N, P, name, max_root_dentries)
      OBVIOUS
    <2>1. name \notin {Unused, Deleted} /\ Small
      BY RealNames DEF Ordinary
    <2>2. volume' \in VolumesOf(Freed(fat, G))
      BY <1>3, <2>1, DeleteLoop DEF Good, FilesNow
    <2>3. Freed(fat, G) \in Tables
      BY FreedOne
    <2>4. volume'.fat = Freed(fat, G) /\ Consistent'
      BY <2>2, <2>3, InVolumes DEF Consistent
    <2>5. dir' = [e \in Dentries |-> IF dir[e].name = name
                                      THEN [dir[e] EXCEPT !.name = Deleted] ELSE dir[e]]
      BY <1>3 DEF FAT16_delete_file
    <2>6. ASSUME NEW e \in Dentries
          PROVE  /\ dir'[e] \in DentryType
                 /\ dir'[e].name = (IF dir[e].name = name THEN Deleted ELSE dir[e].name)
                 /\ dir'[e].first = dir[e].first /\ dir'[e].size = dir[e].size
                 /\ dir[e].name # name => dir'[e] = dir[e]
      <3>1. dir[e] \in DentryType
        BY DEF Good, Typed
      <3>2. CASE dir[e].name = name
        <4>1. dir'[e] = [dir[e] EXCEPT !.name = Deleted]
          BY <2>5, <3>2
        <4> QED
          BY <3>1, <3>2, <4>1 DEF DentryType
      <3>3. CASE dir[e].name # name
        <4>1. dir'[e] = dir[e]
          BY <2>5, <3>3
        <4> QED
          BY <3>1, <3>3, <4>1
      <3> QED
        BY <3>2, <3>3
    <2>7. dir' \in [Dentries -> DentryType]
      <3>1. dir' = [e \in Dentries |-> dir'[e]]
        BY <2>5
      <3> QED
        BY <2>6, <3>1
    <2>8. ASSUME NEW c \in Clusters, NEW i \in 0 .. bytes_per_cluster - 1
          PROVE  /\ data'[c][i] = (IF data[c][i].dentry \in Matches(name) THEN Nowhere
                                   ELSE data[c][i])
                 /\ data[c][i] \in ByteType
      BY <1>3 DEF Forgotten, Good, Typed
    <2>9. data' \in DataType
      <3> DEFINE b == bytes_per_cluster
      <3>1. data' = [c \in Clusters |-> [i \in 0 .. b - 1 |->
                       IF data[c][i].dentry \in Matches(name) THEN Nowhere ELSE data[c][i]]]
        <4>1. \A c \in Clusters : DOMAIN data[c] = 0 .. b - 1
          BY DEF Good, Typed
        <4> QED
          BY <1>3, <4>1 DEF Forgotten
      <3>2. \A c \in Clusters : \A i \in 0 .. b - 1 :
              (IF data[c][i].dentry \in Matches(name) THEN Nowhere ELSE data[c][i]) \in ByteType
        BY <2>8 DEF ByteType
      <3> QED
        BY <3>1, <3>2 DEF DataType
    <2>10. Typed'
      BY <1>1, <1>3, <2>7, <2>9 DEF Good, Typed, DataType
    <2>11. HandlesAgree'
      <3>1. ASSUME NEW h \in Handles, inode[h].open
            PROVE  LET i == inode[h]
                       e == inode[h].dentry
                   IN  dir'[e].name \notin {Unused, Deleted} /\ i.size <= dir'[e].size
                       /\ (i.size > 0 => i.first = dir'[e].first)
        <4> PICK e \in Dentries : e = inode[h].dentry
          BY DEF Good, Typed, InodeType
        <4>1. dir[e].name # name
          BY <1>1, <3>1 DEF Matches
        <4>2. dir'[e] = dir[e]
          BY <2>6, <4>1
        <4>3. /\ IsLive(e) /\ inode[h].size <= dir[e].size
              /\ inode[h].size > 0 => inode[h].first = dir[e].first
          BY <3>1 DEF Good, HandlesAgree
        <4> QED
          BY <4>2, <4>3 DEF IsLive
      <3> QED
        BY <1>1, <3>1 DEF HandlesAgree, IsLive
    <2> PICK N2 : N2 = [e \in Dentries |-> IF dir[e].name = name THEN 0 ELSE N[e]]
      OBVIOUS
    <2>12. /\ N2 \in Counts /\ Files(Freed(fat, G), dir', N2, P)
           /\ \A c \in Clusters : Freed(fat, G)[c] # Free /\ ~Used(N2, P, c)
                                    => fat[c] # Free /\ ~Used(N, P, c)
      <3> PICK d, d2 : d = dir /\ d2 = dir'
        OBVIOUS
      <3>1. \A e \in Dentries : d2[e].name = (IF d[e].name = name THEN Deleted ELSE d[e].name)
                                /\ d2[e].first = d[e].first
        BY <2>6
      <3>2. Files(fat, d, N, P) /\ G = Gone(d, N, P, name, max_root_dentries)
            /\ N2 = [e \in Dentries |-> IF d[e].name = name THEN 0 ELSE N[e]]
        BY DEF FilesNow
      <3>3. /\ N2 \in Counts /\ Files(Freed(fat, G), d2, N2, P)
            /\ \A c \in Clusters : Freed(fat, G)[c] # Free /\ ~Used(N2, P, c)
                                     => fat[c] # Free /\ ~Used(N, P, c)
        BY <2>1, <3>1, <3>2, FilesDeleted
      <3> QED
        BY <3>3
    <2>13. Bytes(dir', data', N2, P)
      <3>1. ASSUME NEW e \in Dentries, dir'[e].name \notin {Unused, Deleted},
                   NEW pos \in 0 .. dir'[e].size - 1
            PROVE  /\ pos \div bytes_per_cluster < N2[e]
                   /\ data'[P[e][pos \div bytes_per_cluster]][pos % bytes_per_cluster]
                        = [dentry |-> e, pos |-> pos]
        <4>1. dir[e].name # name /\ dir'[e] = dir[e] /\ N2[e] = N[e]
          BY <2>6, <3>1
        <4>2. pos \div bytes_per_cluster < N[e]
              /\ data[P[e][pos \div bytes_per_cluster]][pos % bytes_per_cluster]
                   = [dentry |-> e, pos |-> pos]
          BY <3>1, <4>1 DEF FilesNow, Bytes, HasBytes
        <4>3. pos \in Nat
          OBVIOUS
        <4> PICK x \in Nat, i \in 0 .. bytes_per_cluster - 1 :
              x = pos \div bytes_per_cluster /\ i = pos % bytes_per_cluster
          BY <4>3, ConstantTypes, Places
        <4>4. P[e][x] \in Clusters
          BY DEF Paths
        <4> PICK byte : byte = data[P[e][x]][i]
          OBVIOUS
        <4>5. byte.dentry = e /\ e \notin Matches(name)
          BY <4>1, <4>2 DEF Matches
        <4>6. data'[P[e][x]][i] = byte
          BY <2>8, <4>4, <4>5
        <4> QED
          BY <4>1, <4>2, <4>6
      <3> QED
        BY <3>1 DEF Bytes, HasBytes
    <2>14. FilesNext(N, P)
      BY <2>4, <2>12, <2>13 DEF FilesNext, NoneLost
    <2> QED
      BY <2>4, <2>10, <2>11, <2>14 DEF Good
  <1> HIDE DEF Fails, Deletes
  <1> QED
    BY <1>1, <1>2, <1>3

\* A chain that grows loses no cluster.
LEMMA GrownLosesNone ==
  ASSUME NEW fat \in Tables, NEW N \in Counts, NEW P \in Paths, NEW e \in Dentries,
         NEW fat2, NEW n2, NEW p2, Grown(fat, N[e], P[e], fat2, n2, p2),
         NEW N2, N2 = [N EXCEPT ![e] = n2], NEW P2, P2 = [P EXCEPT ![e] = p2]
  PROVE  \A c \in Clusters : fat2[c] # Free /\ ~Used(N2, P2, c)
                               => fat[c] # Free /\ ~Used(N, P, c)
  <1>1. /\ N2[e] = n2 /\ P2[e] = p2
        /\ \A f \in Dentries \ {e} : N2[f] = N[f] /\ P2[f] = P[f]
    BY DEF Counts, Paths
  <1>2. n2 \in Nat /\ N[e] \in Nat /\ N[e] <= n2 /\ \A i \in 0 .. N[e] - 1 : p2[i] = P[e][i]
    BY DEF Grown, Chain, Counts
  <1>3. ASSUME NEW c \in Clusters, fat2[c] # Free, ~Used(N2, P2, c)
        PROVE  fat[c] # Free /\ ~Used(N, P, c)
    <2>1. \A i \in 0 .. n2 - 1 : p2[i] # c
      BY <1>1, <1>3 DEF Used
    <2>2. fat2[c] = fat[c]
      BY <2>1, ClustersAreEntries DEF Grown
    <2>3. ASSUME NEW f \in Dentries, NEW i \in 0 .. N[f] - 1, P[f][i] = c
          PROVE  FALSE
      <3>1. CASE f = e
        <4>1. i \in 0 .. n2 - 1
          BY <1>2, <3>1
        <4> QED
          BY <1>2, <2>1, <2>3, <3>1, <4>1
      <3>2. CASE f # e
        BY <1>1, <1>3, <2>3, <3>2 DEF Used
      <3> QED
        BY <3>1, <3>2
    <2> QED
      BY <1>3, <2>2, <2>3 DEF Used
  <1> QED
    BY <1>3

\* A record with another cluster and another size.
Put(r, x, z) == [[r EXCEPT !.first = x] EXCEPT !.size = z]

\* A directory entry with another cluster and size.
LEMMA EntryPut ==
  ASSUME NEW r \in DentryType, NEW x \in {0} \cup Clusters, NEW z \in 0 .. MaxSize
  PROVE  /\ Put(r, x, z) = [name |-> r.name, first |-> x, size |-> z]
         /\ Put(r, x, z) \in DentryType
  <1> PICK A, B, C : /\ A = {ShortName(n) : n \in Names} \cup {Unused, Deleted}
                    /\ B = {0} \cup Clusters /\ C = 0 .. MaxSize
    OBVIOUS
  <1>1. DentryType = [name : A, first : B, size : C]
    BY DEF DentryType
  <1>2. r \in [name : A, first : B, size : C] /\ x \in B /\ z \in C
    BY <1>1
  <1> PICK q : q = [r EXCEPT !.first = x]
    OBVIOUS
  <1>3. q \in [name : A, first : B, size : C] /\ q = [name |-> r.name, first |-> x, size |-> r.size]
    BY <1>2
  <1> PICK t : t = [q EXCEPT !.size = z]
    OBVIOUS
  <1>4. t \in [name : A, first : B, size : C] /\ t = [name |-> r.name, first |-> x, size |-> z]
    BY <1>2, <1>3
  <1> QED
    BY <1>1, <1>4 DEF Put

\* An inode with another cluster and size.
LEMMA InodePut ==
  ASSUME NEW r \in InodeType, NEW x \in {0} \cup Clusters, NEW z \in 0 .. MaxSize
  PROVE  /\ Put(r, x, z) = [open |-> r.open, dentry |-> r.dentry, first |-> x, size |-> z]
         /\ Put(r, x, z) \in InodeType
  <1> PICK A, B, C, D : /\ A = Dentries /\ B = {0} \cup Clusters
                       /\ C = 0 .. MaxSize /\ D = BOOLEAN
    OBVIOUS
  <1>1. InodeType = [open : D, dentry : A, first : B, size : C]
    BY DEF InodeType
  <1>2. r \in [open : D, dentry : A, first : B, size : C] /\ x \in B /\ z \in C
    BY <1>1
  <1> PICK q : q = [r EXCEPT !.first = x]
    OBVIOUS
  <1>3. q \in [open : D, dentry : A, first : B, size : C] /\ q = [open |-> r.open, dentry |-> r.dentry, first |-> x, size |-> r.size]
    BY <1>2
  <1> PICK t : t = [q EXCEPT !.size = z]
    OBVIOUS
  <1>4. t \in [open : D, dentry : A, first : B, size : C] /\ t = [open |-> r.open, dentry |-> r.dentry, first |-> x, size |-> z]
    BY <1>2, <1>3
  <1> QED
    BY <1>1, <1>4 DEF Put

\* What a write stores in a directory entry, and in an inode.
Stored(f, k, x, end) == [f EXCEPT ![k].first = x, ![k].size = Max({@, end})]

EntryStored(d, e, x, end, d2) ==
  /\ d2 \in [Dentries -> DentryType]
  /\ d2[e].name = d[e].name /\ d2[e].first = x /\ d2[e].size = Max({d[e].size, end})
  /\ Elsewhere(d, d2, e)
InodeStored(i1, h, x, end, i2) ==
  /\ i2 \in [Handles -> InodeType]
  /\ i2[h].open = i1[h].open /\ i2[h].dentry = i1[h].dentry
  /\ i2[h].first = x /\ i2[h].size = Max({i1[h].size, end})
  /\ \A g \in Handles \ {h} : i2[g] = i1[g]

\* The directory after the size and cluster of one entry were stored.
LEMMA EntryChanged ==
  ASSUME NEW d \in [Dentries -> DentryType], NEW e \in Dentries,
         NEW x \in {0} \cup Clusters, NEW end \in 0 .. MaxSize,
         NEW d2, d2 = Stored(d, e, x, end)
  PROVE  EntryStored(d, e, x, end, d2)
  <1> DEFINE size == Max({d[e].size, end})
             new == Put(d[e], x, size)
  <1>1. d[e] \in DentryType
    OBVIOUS
  <1>2. d[e].size \in 0 .. MaxSize /\ d[e].size \in Nat /\ end \in Nat
    BY <1>1, ConstantTypes DEF DentryType
  <1>3. size \in 0 .. MaxSize
    BY <1>2, MaxOf
  <1>4. d2 = [d EXCEPT ![e] = new]
    BY DEF Stored, Put
  <1> HIDE DEF size
  <1>5. new = [name |-> d[e].name, first |-> x, size |-> size] /\ new \in DentryType
    BY <1>1, <1>3, EntryPut
  <1> HIDE DEF new
  <1> QED
    BY <1>4, <1>5 DEF size, EntryStored, Elsewhere

\* The inodes after the size and cluster of one were stored.
LEMMA InodeChanged ==
  ASSUME NEW i1 \in [Handles -> InodeType], NEW h \in Handles,
         NEW x \in {0} \cup Clusters, NEW end \in 0 .. MaxSize,
         NEW i2, i2 = Stored(i1, h, x, end)
  PROVE  InodeStored(i1, h, x, end, i2)
  <1> DEFINE size == Max({i1[h].size, end})
             new == Put(i1[h], x, size)
  <1>1. i1[h] \in InodeType
    OBVIOUS
  <1>2. i1[h].size \in 0 .. MaxSize /\ i1[h].size \in Nat /\ end \in Nat
    BY <1>1, ConstantTypes DEF InodeType
  <1>3. size \in 0 .. MaxSize
    BY <1>2, MaxOf
  <1>4. i2 = [i1 EXCEPT ![h] = new]
    BY DEF Stored, Put
  <1> HIDE DEF size
  <1>5. new = [open |-> i1[h].open, dentry |-> i1[h].dentry, first |-> x, size |-> size]
        /\ new \in InodeType
    BY <1>1, <1>3, InodePut
  <1> HIDE DEF new
  <1> QED
    BY <1>4, <1>5 DEF size, InodeStored

-----------------------------------------------------------------------------
(* A write                                                                 *)

\* What WriteFile assigns, in the words of the lemmas above.
Assigned(h, off, n, e, a) ==
  /\ result' = a.rc /\ damage' = damage
  /\ a.rc = "ok" =>
       /\ volume' = Walk(a.volume, a.first, (off + n - 1) \div bytes_per_cluster).volume
       /\ data' = FAT16_write_cluster_chain(a.volume, a.first, e, off, n)
       /\ dir' = Stored(dir, e, a.first, off + n)
       /\ inode' = Stored(inode, h, a.first, off + n)
  /\ a.rc # "ok" =>
       /\ volume' = a.volume /\ data' = data
       /\ dir' = Stored(dir, e, dir[e].first, off)
       /\ inode' = Stored(inode, h, a.first, off)

\* What a write assigns, by whether there was room.
LEMMA WriteAssigns ==
  ASSUME NEW h \in Handles, NEW off \in Nat, NEW n \in Nat, WriteFile(h, off, n),
         NEW e, e = inode[h].dentry,
         NEW a, a = adjust_allocated_clusters(volume, dir[e].first, off + n)
  PROVE  Assigned(h, off, n, e, a)
  <1>1. CASE a.rc = "ok"
    BY <1>1, Zenon DEF WriteFile, Stored, Assigned
  <1>2. CASE a.rc # "ok"
    BY <1>2, Zenon DEF WriteFile, Stored, Assigned
  <1> QED
    BY <1>1, <1>2

\* Sizes and first clusters of entries and inodes.
LEMMA SizeTypes ==
  ASSUME Typed
  PROVE  /\ \A e \in Dentries : dir[e].size \in Nat /\ dir[e].size \in 0 .. MaxSize
                              /\ dir[e].first \in {0} \cup Clusters
         /\ \A h \in Handles : inode[h].size \in Nat /\ inode[h].size \in 0 .. MaxSize
                              /\ inode[h].dentry \in Dentries
  <1>1. dir \in [Dentries -> DentryType] /\ inode \in [Handles -> InodeType]
    BY Zenon DEF Typed
  <1>2. ASSUME NEW e \in Dentries
        PROVE  /\ dir[e].size \in Nat /\ dir[e].size \in 0 .. MaxSize
               /\ dir[e].first \in {0} \cup Clusters
    <2>1. dir[e] \in DentryType
      BY <1>1
    <2> QED
      BY <2>1, ConstantTypes DEF DentryType
  <1>3. ASSUME NEW h \in Handles
        PROVE  /\ inode[h].size \in Nat /\ inode[h].size \in 0 .. MaxSize
               /\ inode[h].dentry \in Dentries
    <2>1. inode[h] \in InodeType
      BY <1>1
    <2> QED
      BY <2>1, ConstantTypes DEF InodeType
  <1> QED
    BY <1>2, <1>3

\* The open files agree with the directory after a write through h.
LEMMA WroteAgrees ==
  ASSUME Typed, HandlesAgree, NEW h \in Handles, inode[h].open,
         NEW e \in Dentries, e = inode[h].dentry,
         NEW x \in {0} \cup Clusters, NEW y \in {0} \cup Clusters, NEW end \in 0 .. MaxSize,
         dir' = Stored(dir, e, x, end), inode' = Stored(inode, h, y, end),
         dir[e].size > 0 => x = dir[e].first,
         Max({inode[h].size, end}) > 0 => y = x
  PROVE  HandlesAgree'
  <1>1. EntryStored(dir, e, x, end, dir')
    BY EntryChanged, Zenon DEF Typed
  <1>2. InodeStored(inode, h, y, end, inode')
    BY InodeChanged, Zenon DEF Typed
  <1>3. dir'[e].name = dir[e].name /\ dir'[e].first = x /\ dir'[e].size = Max({dir[e].size, end})
    BY <1>1 DEF EntryStored
  <1>4. /\ inode'[h].dentry = e /\ inode'[h].first = y
        /\ inode'[h].size = Max({inode[h].size, end})
    BY <1>2 DEF InodeStored
  <1>5. dir[e].size \in Nat /\ end \in Nat
    BY SizeTypes
  <1>6. dir'[e].size \in Nat /\ dir[e].size <= dir'[e].size /\ end <= dir'[e].size
    BY <1>3, <1>5, MaxOf
  <1>7. ASSUME NEW g \in Handles, inode'[g].open
        PROVE  /\ dir'[inode'[g].dentry].name \notin {Unused, Deleted}
               /\ inode'[g].size <= dir'[inode'[g].dentry].size
               /\ inode'[g].size > 0 => inode'[g].first = dir'[inode'[g].dentry].first
    <2>1. CASE g = h
      <3>1. IsLive(e) /\ inode[h].size <= dir[e].size
        BY DEF HandlesAgree
      <3>2. inode[h].size \in Nat
        BY SizeTypes
      <3>3. Max({inode[h].size, end}) <= dir'[e].size
        BY <1>5, <1>6, <3>1, <3>2, MaxOf
      <3> QED
        BY <1>3, <1>4, <2>1, <3>1, <3>3 DEF IsLive
    <2>2. CASE g # h
      <3> PICK f : f = inode[g].dentry
        OBVIOUS
      <3>1. inode'[g] = inode[g]
        BY <1>2, <2>2 DEF InodeStored
      <3>2. f \in Dentries /\ inode[g].size \in Nat
        BY SizeTypes
      <3>3. /\ IsLive(f) /\ inode[g].size <= dir[f].size
            /\ inode[g].size > 0 => inode[g].first = dir[f].first
        BY <1>7, <3>1 DEF HandlesAgree
      <3>4. CASE f = e
        <4>1. inode[g].size <= dir'[e].size
          BY <1>5, <1>6, <3>2, <3>3, <3>4
        <4>2. inode[g].size > 0 => dir[e].size > 0
          BY <1>5, <3>2, <3>3, <3>4
        <4> QED
          BY <1>3, <3>1, <3>3, <3>4, <4>1, <4>2 DEF IsLive
      <3>5. CASE f # e
        BY <1>1, <3>1, <3>2, <3>3, <3>5 DEF IsLive, EntryStored, Elsewhere
      <3> QED
        BY <3>4, <3>5
    <2> QED
      BY <2>1, <2>2
  <1> QED
    BY <1>7 DEF HandlesAgree, IsLive

\* A file without bytes may have no cluster; one with bytes has.
LEMMA BytesInChain ==
  ASSUME NEW N, NEW P, FilesNow(N, P), NEW e \in Dentries, IsLive(e),
         dir[e].size \in Nat \ {0}
  PROVE  N[e] # 0 /\ P[e][0] = dir[e].first
  <1>1. 0 \in 0 .. dir[e].size - 1
    OBVIOUS
  <1>2. 0 < N[e]
    BY <1>1, NoPosition DEF FilesNow, Bytes, HasBytes, IsLive
  <1> QED
    BY <1>2 DEF FilesNow, Files

\* A file that a position lies in has a cluster.
LEMMA SomeCluster ==
  ASSUME NEW x \in Nat, NEW y, x \div bytes_per_cluster < y
  PROVE  y # 0
  BY ConstantTypes, Places

\* The files behind a write to file e that found room for its bytes.
NewFiles(fat, N, P, fat2, d2, da) ==
  \E N2 \in Counts, P2 \in Paths :
    /\ Files(fat2, d2, N2, P2) /\ Bytes(d2, da, N2, P2)
    /\ \A c \in Clusters : fat2[c] # Free /\ ~Used(N2, P2, c)
                            => fat[c] # Free /\ ~Used(N, P, c)

\* Files and bytes after a write that had room.
LEMMA WriteEnds ==
  ASSUME Small, Typed, NEW N \in Counts, NEW P \in Paths, FilesNow(N, P),
         NEW fat \in Tables, fat = volume.fat, NEW e \in Dentries, IsLive(e),
         NEW fat2 \in Tables, NEW n2 \in Nat, NEW p2 \in [Nat -> Clusters],
         Grown(fat, N[e], P[e], fat2, n2, p2),
         NEW off \in Nat, NEW n \in Nat \ {0}, off <= dir[e].size,
         (off + n) \div bytes_per_cluster < n2,
         NEW d2, EntryStored(dir, e, p2[0], off + n, d2),
         NEW da, Landed(da, data, p2, e, off, n)
  PROVE  NewFiles(fat, N, P, fat2, d2, da)
  <1>1. n2 # 0
    <2>1. off + n \in Nat
      OBVIOUS
    <2> QED
      BY <2>1, SomeCluster, Zenon
  <1>2. p2[0] # 0
    BY DEF Clusters
  <1>3. dir \in [Dentries -> DentryType]
    BY Zenon DEF Typed
  <1>4. d2[e].first = p2[0]
    BY Zenon DEF EntryStored
  <1>5. d2[e].size = Max({dir[e].size, off + n})
    BY Zenon DEF EntryStored
  <1>6. Elsewhere(dir, d2, e)
    BY Zenon DEF EntryStored
  <1>7. dir[e].name \notin {Unused, Deleted}
    BY Zenon DEF IsLive
  <1>8. HasChain(d2, e)
    BY <1>2, <1>4, <1>7, Zenon DEF EntryStored, HasChain
  <1>9. Files(fat, dir, N, P) /\ Bytes(dir, data, N, P)
    BY Zenon DEF FilesNow
  <1> PICK N2, P2 : N2 = [N EXCEPT ![e] = n2] /\ P2 = [P EXCEPT ![e] = p2]
    OBVIOUS
  <1>10. Files(fat2, d2, N2, P2)
    BY <1>1, <1>4, <1>6, <1>8, <1>9, FilesGrown, Zenon
  <1>11. Bytes(d2, da, N2, P2)
    BY <1>3, <1>5, <1>6, <1>7, <1>9, BytesWritten, Zenon
  <1>12. \A c \in Clusters : fat2[c] # Free /\ ~Used(N2, P2, c)
                               => fat[c] # Free /\ ~Used(N, P, c)
    BY GrownLosesNone, Zenon
  <1>13. N2 \in Counts /\ P2 \in Paths
    BY DEF Counts, Paths
  <1> QED
    BY <1>10, <1>11, <1>12, <1>13, Zenon DEF NewFiles

\* And behind one that did not: the clusters it marked stay with the file, or
\* with no file when it had none.
LEMMA WriteStops ==
  ASSUME Small, NEW N \in Counts, NEW P \in Paths, FilesNow(N, P),
         NEW fat \in Tables, fat = volume.fat, NEW e \in Dentries, IsLive(e),
         NEW fat2 \in Tables, NEW n2 \in Nat, NEW p2 \in [Nat -> Clusters],
         Grown(fat, N[e], P[e], fat2, n2, p2)
  PROVE  \E N2 \in Counts, P2 \in Paths :
           Files(fat2, dir, N2, P2) /\ Bytes(dir, data, N2, P2)
  <1>1. Files(fat, dir, N, P) /\ Bytes(dir, data, N, P)
    BY DEF FilesNow
  <1>2. CASE N[e] = 0
    <2>1. Files(fat2, dir, N, P)
      BY <1>1, <1>2, FilesLeft, Zenon
    <2> QED
      BY <1>1, <2>1
  <1>3. CASE N[e] # 0
    <2> PICK N2, P2 : N2 = [N EXCEPT ![e] = n2] /\ P2 = [P EXCEPT ![e] = p2]
      OBVIOUS
    <2>1. N2 \in Counts /\ P2 \in Paths
      BY DEF Counts, Paths
    <2>2. HasChain(dir, e) /\ P[e][0] = dir[e].first
      BY <1>1, <1>3 DEF Files
    <2>3. N[e] \in Nat /\ N[e] <= n2 /\ \A i \in 0 .. N[e] - 1 : p2[i] = P[e][i]
      BY DEF Grown, Counts
    <2>4. n2 # 0 /\ dir[e].first = p2[0]
      BY <1>3, <2>2, <2>3
    <2>5. Elsewhere(dir, dir, e)
      BY DEF Elsewhere
    <2>6. Files(fat2, dir, N2, P2)
      BY <1>1, <2>2, <2>4, <2>5, FilesGrown, Zenon
    <2>7. Bytes(dir, data, N2, P2)
      BY <1>1, BytesKept, Zenon
    <2> QED
      BY <2>1, <2>6, <2>7
  <1> QED
    BY <1>2, <1>3

\* The types after a write through h.
LEMMA WroteTypes ==
  ASSUME Typed, NEW h \in Handles, NEW e \in Dentries,
         NEW x \in {0} \cup Clusters, NEW y \in {0} \cup Clusters, NEW end \in 0 .. MaxSize,
         dir' = Stored(dir, e, x, end), inode' = Stored(inode, h, y, end),
         data' \in DataType, result' \in {"ok", "ENOENT", "EDQUOT"}, damage' = damage
  PROVE  Typed' /\ EntryStored(dir, e, x, end, dir')
  <1>1. EntryStored(dir, e, x, end, dir') /\ InodeStored(inode, h, y, end, inode')
    BY EntryChanged, InodeChanged, Zenon DEF Typed
  <1>2. /\ dir' \in [Dentries -> DentryType] /\ inode' \in [Handles -> InodeType]
        /\ damage' \in {"none", "overread", "directory overwritten"}
    BY <1>1, Zenon DEF EntryStored, InodeStored, Typed
  <1> QED
    BY <1>1, <1>2, Zenon DEF Typed, DataType

\* Entries with equal fields are equal.
LEMMA SameDentry ==
  ASSUME NEW r \in DentryType, NEW q \in DentryType,
         r.name = q.name, r.first = q.first, r.size = q.size
  PROVE  r = q
  BY DEF DentryType

\* Functions that agree everywhere are equal.
LEMMA SameFunction ==
  ASSUME NEW S, NEW T, NEW f \in [S -> T], NEW g \in [S -> T], NEW e \in S, f[e] = g[e],
         \A x \in S \ {e} : f[x] = g[x]
  PROVE  f = g
  OBVIOUS

\* The end of a write is a size.
LEMMA EndOfWrite ==
  ASSUME NEW off \in Nat, NEW n \in Nat \ {0}, off + n <= MaxSize
  PROVE  off + n \in 0 .. MaxSize
  BY ConstantTypes

\* Walking along a chain changes no more than the sector in the cache.
LEMMA WalkedVolume ==
  ASSUME NEW fat \in Tables, NEW t \in Sectors, NEW m, NEW p, Chain(fat, m, p),
         NEW off \in Nat, NEW n \in Nat \ {0}, (off + n) \div bytes_per_cluster < m
  PROVE  Walk(Vol(fat, t), p[0], (off + n - 1) \div bytes_per_cluster).volume \in VolumesOf(fat)
  <1> PICK k : k = (off + n - 1) \div bytes_per_cluster
    OBVIOUS
  <1>1. k \in 0 .. m - 1
    <2> PICK y \in Nat, z \in Nat : y = off + n - 1 /\ z = off + n
      OBVIOUS
    <2>1. y <= z /\ m \in Nat
      BY DEF Chain
    <2>2. /\ y \div bytes_per_cluster \in Nat /\ z \div bytes_per_cluster \in Nat
          /\ y \div bytes_per_cluster <= z \div bytes_per_cluster
      BY <2>1, ConstantTypes, Places
    <2> QED
      BY <2>1, <2>2
  <1>2. Walk(Vol(fat, t), p[0], k) \in At(fat, p[k])
    BY <1>1, WalkChain, Zenon
  <1>3. \E s \in Sectors : Walk(Vol(fat, t), p[0], k).volume = Vol(fat, s)
    BY <1>2, AtFields
  <1> QED
    BY <1>3 DEF VolumesOf

\* A write that had room keeps the invariant.
LEMMA WriteSucceeds ==
  ASSUME Small, Typed, HandlesAgree, NEW N \in Counts, NEW P \in Paths, FilesNow(N, P),
         NEW fat \in Tables, fat = volume.fat, NEW h \in Handles, inode[h].open,
         NEW e \in Dentries, e = inode[h].dentry, IsLive(e),
         NEW fat2 \in Tables, NEW t \in Sectors, NEW n2 \in Nat, NEW p2 \in [Nat -> Clusters],
         Grown(fat, N[e], P[e], fat2, n2, p2), dir[e].size > 0 => p2[0] = dir[e].first,
         NEW off \in Nat, NEW n \in Nat \ {0}, off <= dir[e].size, off + n <= MaxSize,
         (off + n) \div bytes_per_cluster < n2,
         result' = "ok", damage' = damage,
         volume' = Walk(Vol(fat2, t), p2[0], (off + n - 1) \div bytes_per_cluster).volume,
         data' = FAT16_write_cluster_chain(Vol(fat2, t), p2[0], e, off, n),
         dir' = Stored(dir, e, p2[0], off + n),
         inode' = Stored(inode, h, p2[0], off + n)
  PROVE  Good' /\ FilesNext(N, P)
  <1>1. Chain(fat2, n2, p2)
    BY DEF Grown
  <1>2. volume' \in VolumesOf(fat2)
    BY <1>1, WalkedVolume, Zenon
  <1>3. volume'.fat = fat2 /\ Consistent'
    BY <1>2, InVolumes, Zenon DEF Consistent
  <1>4. data \in DataType
    BY Zenon DEF Typed, DataType
  <1>5. data' \in DataType /\ Landed(data', data, p2, e, off, n)
    BY <1>1, <1>4, Written, Zenon
  <1>6. p2[0] \in {0} \cup Clusters
    OBVIOUS
  <1>7. off + n \in 0 .. MaxSize /\ result' \in {"ok", "ENOENT", "EDQUOT"}
    BY EndOfWrite
  <1>8. Typed' /\ EntryStored(dir, e, p2[0], off + n, dir')
    BY <1>5, <1>6, <1>7, WroteTypes, Zenon
  <1>9. Max({inode[h].size, off + n}) > 0 => p2[0] = p2[0]
    OBVIOUS
  <1>10. HandlesAgree'
    BY <1>6, <1>7, <1>9, WroteAgrees, Zenon
  <1>11. NewFiles(fat, N, P, fat2, dir', data')
    BY <1>5, <1>8, WriteEnds, Zenon
  <1>12. FilesNext(N, P)
    BY <1>3, <1>11, Zenon DEF NewFiles, FilesNext, NoneLost
  <1> QED
    BY <1>3, <1>8, <1>10, <1>12, Zenon DEF Good

\* A write that fails changes the table only: the entry keeps its first cluster
\* and its size, as nothing is beyond the end of the file.
LEMMA WriteFails ==
  ASSUME Small, Typed, HandlesAgree, NEW N \in Counts, NEW P \in Paths, FilesNow(N, P),
         NEW fat \in Tables, fat = volume.fat, NEW h \in Handles, inode[h].open,
         NEW e \in Dentries, e = inode[h].dentry, IsLive(e),
         NEW fat2 \in Tables, NEW t \in Sectors, NEW n2 \in Nat, NEW p2 \in [Nat -> Clusters],
         Grown(fat, N[e], P[e], fat2, n2, p2),
         NEW y \in {0} \cup Clusters, dir[e].size > 0 => y = dir[e].first,
         NEW off \in 0 .. MaxSize, off <= inode[h].size, inode[h].size <= dir[e].size,
         result' # "ok", result' \in {"ok", "ENOENT", "EDQUOT"}, damage' = damage,
         volume' = Vol(fat2, t), data' = data,
         dir' = Stored(dir, e, dir[e].first, off), inode' = Stored(inode, h, y, off)
  PROVE  Good' /\ FilesNext(N, P)
  <1> PICK x \in {0} \cup Clusters : x = dir[e].first
    BY SizeTypes
  <1>1. inode[h].size \in Nat /\ dir[e].size \in Nat /\ off \in Nat
    BY ConstantTypes, SizeTypes
  <1>2. Max({inode[h].size, off}) = inode[h].size /\ Max({dir[e].size, off}) = dir[e].size
    BY <1>1, MaxOf
  <1>3. Max({inode[h].size, off}) > 0 => y = x
    BY <1>1, <1>2
  <1>4. dir[e].size > 0 => x = dir[e].first
    OBVIOUS
  <1>5. data' \in DataType
    BY Zenon DEF Typed, DataType
  <1>6. dir' = Stored(dir, e, x, off)
    BY Zenon
  <1>7. Typed' /\ EntryStored(dir, e, x, off, dir')
    BY <1>5, <1>6, WroteTypes, Zenon
  <1>8. HandlesAgree'
    BY <1>3, <1>4, <1>6, WroteAgrees, Zenon
  <1>9. volume'.fat = fat2 /\ Consistent'
    <2> PICK v : v = volume'
      OBVIOUS
    <2>1. v \in VolumesOf(fat2)
      BY DEF VolumesOf
    <2>2. v.fat = fat2 /\ v.fat \in Tables /\ \E s \in Sectors : v = Vol(v.fat, s)
      BY <2>1, InVolumes
    <2> QED
      BY <2>2 DEF Consistent
  <1>10. dir' = dir
    <2> PICK d1, d2 : d1 = dir /\ d2 = dir'
      OBVIOUS
    <2>1. d1 \in [Dentries -> DentryType] /\ d2 \in [Dentries -> DentryType]
      BY <1>7, Zenon DEF Typed, EntryStored
    <2>2. /\ d2[e].name = d1[e].name /\ d2[e].first = d1[e].first /\ d2[e].size = d1[e].size
          /\ \A f \in Dentries \ {e} : d2[f] = d1[f]
      BY <1>2, <1>7, Zenon DEF EntryStored, Elsewhere
    <2>3. d2[e] = d1[e]
      <3> PICK r1 \in DentryType, r2 \in DentryType : r1 = d1[e] /\ r2 = d2[e]
        BY <2>1
      <3>1. r1.name = r2.name /\ r1.first = r2.first /\ r1.size = r2.size
        BY <2>2
      <3>2. r1 = r2
        BY <3>1, SameDentry, Zenon
      <3> QED
        BY <3>2
    <2> QED
      BY <2>1, <2>2, <2>3, SameFunction
  <1>11. PICK N2 \in Counts, P2 \in Paths : Files(fat2, dir, N2, P2) /\ Bytes(dir, data, N2, P2)
    BY WriteStops, Zenon
  <1>12. Files(volume'.fat, dir', N2, P2) /\ Bytes(dir', data', N2, P2)
    BY <1>9, <1>10, <1>11, Zenon
  <1>13. FilesNext(N, P)
    BY <1>12, Zenon DEF FilesNext, NoneLost
  <1> QED
    BY <1>7, <1>8, <1>9, <1>13, Zenon DEF Good

\* A write keeps the invariant, whether or not there was room.
LEMMA WriteFileStep ==
  ASSUME Ordinary, Good, NEW N \in Counts, NEW P \in Paths, FilesNow(N, P),
         NEW h \in Handles, NEW off \in 0 .. MaxSize, NEW n \in 1 .. MaxWrite,
         inode[h].open, off <= inode[h].size, off + n <= MaxSize, WriteFile(h, off, n)
  PROVE  Good' /\ FilesNext(N, P)
  <1>1. Small /\ Typed /\ Consistent /\ HandlesAgree
    BY DEF Ordinary, Good
  <1>2. off \in Nat /\ n \in Nat \ {0} /\ off + n \in Nat
    BY ConstantTypes
  <1> PICK e \in Dentries : e = inode[h].dentry
    BY <1>1, SizeTypes
  <1>3. IsLive(e) /\ inode[h].size <= dir[e].size
    BY <1>1 DEF HandlesAgree
  <1>4. /\ inode[h].size \in Nat /\ dir[e].size \in Nat /\ dir[e].size \in 0 .. MaxSize
        /\ dir[e].first \in {0} \cup Clusters
    BY <1>1, SizeTypes
  <1>5. off <= dir[e].size
    BY <1>2, <1>3, <1>4
  <1>6. volume.fat \in Tables /\ \E s \in Sectors : volume = Vol(volume.fat, s)
    BY <1>1 DEF Consistent
  <1> PICK fat \in Tables, s \in Sectors : fat = volume.fat /\ volume = Vol(fat, s)
    BY <1>6
  <1> PICK k, p : k = N[e] /\ p = P[e]
    OBVIOUS
  <1>7. k \in Nat /\ Chain(fat, k, p) /\ dir[e].first = (IF k = 0 THEN 0 ELSE p[0])
    <2>1. /\ Chain(fat, k, p)
          /\ IF HasChain(dir, e) THEN k # 0 /\ p[0] = dir[e].first ELSE k = 0
      BY DEF FilesNow, Files
    <2>2. k = 0 => dir[e].first = 0
      BY <1>3, <2>1 DEF HasChain, IsLive
    <2>3. k # 0 => p[0] = dir[e].first
      BY <2>1
    <2>4. k \in Nat
      BY DEF Counts
    <2> QED
      BY <2>1, <2>2, <2>3, <2>4
  <1> PICK first, a : first = dir[e].first
                      /\ a = adjust_allocated_clusters(volume, dir[e].first, off + n)
    OBVIOUS
  <1>8. Assigned(h, off, n, e, a)
    BY <1>2, WriteAssigns
  <1>9. GrownTo(fat, k, p, off + n, a)
    <2> PICK size \in Nat : size = off + n
      BY <1>2
    <2>1. GrownTo(fat, k, p, size, a)
      BY <1>1, <1>7, Adjusted, Zenon
    <2> QED
      BY <2>1
  <1> PICK fat2 \in Tables, t \in Sectors, n2 \in Nat, p2 \in [Nat -> Clusters] :
             /\ Grown(fat, k, p, fat2, n2, p2) /\ a.volume = Vol(fat2, t)
             /\ a.first = (IF n2 = 0 THEN 0 ELSE p2[0])
             /\ a.rc \in {"ok", "ENOENT", "EDQUOT"}
             /\ a.rc = "ok" => n2 > (off + n) \div bytes_per_cluster
    BY <1>9 DEF GrownTo
  <1>10. Grown(fat, N[e], P[e], fat2, n2, p2)
    OBVIOUS
  <1>11. dir[e].size > 0 => a.first = dir[e].first
    <2> HAVE dir[e].size > 0
    <2>1. k # 0 /\ p[0] = dir[e].first
      BY <1>3, <1>4, BytesInChain
    <2>2. k <= n2 /\ \A i \in 0 .. k - 1 : p2[i] = p[i]
      BY DEF Grown
    <2>3. n2 # 0 /\ p2[0] = p[0]
      BY <1>7, <2>1, <2>2
    <2> QED
      BY <2>1, <2>3
  <1>12. CASE a.rc = "ok"
    <2>1. (off + n) \div bytes_per_cluster < n2
      BY <1>12
    <2>2. a.first = p2[0]
      BY <1>2, <2>1, SomeCluster
    <2>3. dir[e].size > 0 => p2[0] = dir[e].first
      BY <1>11, <2>2
    <2>4. /\ result' = "ok" /\ damage' = damage
          /\ volume' = Walk(Vol(fat2, t), p2[0], (off + n - 1) \div bytes_per_cluster).volume
          /\ data' = FAT16_write_cluster_chain(Vol(fat2, t), p2[0], e, off, n)
          /\ dir' = Stored(dir, e, p2[0], off + n)
          /\ inode' = Stored(inode, h, p2[0], off + n)
      BY <1>8, <1>12, <2>2, Zenon DEF Assigned
    <2> QED
      BY <1>1, <1>2, <1>3, <1>5, <1>10, <2>1, <2>3, <2>4, WriteSucceeds, Zenon
  <1>13. CASE a.rc # "ok"
    <2> PICK y \in {0} \cup Clusters : y = a.first
      OBVIOUS
    <2>1. dir[e].size > 0 => y = dir[e].first
      BY <1>11
    <2>2. /\ result' # "ok" /\ result' \in {"ok", "ENOENT", "EDQUOT"} /\ damage' = damage
          /\ volume' = Vol(fat2, t) /\ data' = data
          /\ dir' = Stored(dir, e, dir[e].first, off)
          /\ inode' = Stored(inode, h, y, off)
      BY <1>8, <1>13, Zenon DEF Assigned
    <2> QED
      BY <1>1, <1>3, <1>10, <2>1, <2>2, WriteFails, Zenon
  <1> QED
    BY <1>12, <1>13

\* A file that is taken for the root directory damages that, and no file.
LEMMA WriteStep ==
  ASSUME Ordinary, Good, NEW N \in Counts, NEW P \in Paths, FilesNow(N, P),
         NEW h \in Handles, NEW off \in 0 .. MaxSize, NEW n \in 1 .. MaxWrite,
         FAT16_write(h, off, n)
  PROVE  Good' /\ FilesNext(N, P)
  <1>1. inode[h].open /\ off <= inode[h].size /\ off + n <= MaxSize
    BY DEF FAT16_write
  <1>2. CASE IsRoot(h)
    <2>1. damage' = "directory overwritten" /\ UNCHANGED <<volume, dir, data, inode, result>>
      BY <1>2 DEF FAT16_write, OverwriteRoot
    <2>2. Typed' /\ Consistent' /\ HandlesAgree'
      BY <2>1 DEF Good, Typed, Consistent, HandlesAgree, IsLive
    <2>3. FilesNext(N, P)
      BY <2>1, SameFiles
    <2> QED
      BY <2>2, <2>3 DEF Good
  <1>3. CASE ~IsRoot(h)
    <2>1. WriteFile(h, off, n)
      BY <1>3 DEF FAT16_write
    <2> QED
      BY <1>1, <2>1, WriteFileStep
  <1> QED
    BY <1>2, <1>3

-----------------------------------------------------------------------------
(* The initial states                                                      *)

\* A card with the archive, or without it.
FirstFat(there) == [t \in Table |-> IF t < 2 \/ (t = 2 /\ there) THEN EndOfChain ELSE Free]
FirstDir(there, archive) ==
  [e \in Dentries |-> IF e = 0 /\ there THEN [name |-> archive, first |-> 2, size |-> 1]
                      ELSE Vacant]
NoBytes == [i \in 0 .. bytes_per_cluster - 1 |-> Nowhere]
FirstData(there) ==
  [c \in Clusters |-> IF c = 2 /\ there
                      THEN [NoBytes EXCEPT ![0] = [dentry |-> 0, pos |-> 0]] ELSE NoBytes]

\* The first cluster, entry and byte.
LEMMA FirstPlaces ==
  /\ 2 \in Clusters /\ 2 \in Table /\ 0 \in Dentries /\ 0 \in 0 .. bytes_per_cluster - 1
  /\ 1 \in 0 .. MaxSize /\ 0 \in 0 .. MaxSize
  BY ConstantTypes, ClustersAreEntries DEF Clusters, Dentries

\* The volume the card comes with is well formed.
LEMMA FirstTypes ==
  ASSUME NEW archive, archive = Unused \/ (archive \in Names /\ ShortName(archive) = archive),
         NEW there, there = (archive # Unused)
  PROVE  /\ FirstFat(there) \in Tables
         /\ FirstDir(there, archive) \in [Dentries -> DentryType]
         /\ FirstData(there) \in DataType
  <1>1. FirstFat(there) \in Tables
    BY DEF FirstFat, Tables
  <1>2. Vacant \in DentryType
    BY FirstPlaces DEF Vacant, DentryType
  <1>3. there => [name |-> archive, first |-> 2, size |-> 1] \in DentryType
    BY FirstPlaces DEF DentryType
  <1>4. FirstDir(there, archive) \in [Dentries -> DentryType]
    BY <1>2, <1>3 DEF FirstDir
  <1>5. Nowhere \in ByteType /\ [dentry |-> 0, pos |-> 0] \in ByteType
    BY FirstPlaces DEF ByteType
  <1>6. NoBytes \in [0 .. bytes_per_cluster - 1 -> ByteType]
    BY <1>5 DEF NoBytes
  <1>7. [NoBytes EXCEPT ![0] = [dentry |-> 0, pos |-> 0]]
          \in [0 .. bytes_per_cluster - 1 -> ByteType]
    BY <1>5, <1>6
  <1>8. FirstData(there) \in DataType
    BY <1>6, <1>7 DEF FirstData, DataType
  <1> QED
    BY <1>1, <1>4, <1>8

\* It holds no file, or the archive in one cluster.
LEMMA FirstFiles ==
  ASSUME Small, NEW archive, archive \notin {Deleted}, NEW there, there = (archive # Unused)
  PROVE  \E N \in Counts, P \in Paths :
           /\ Files(FirstFat(there), FirstDir(there, archive), N, P)
           /\ Bytes(FirstDir(there, archive), FirstData(there), N, P)
  <1> PICK fat, d, da : /\ fat = FirstFat(there) /\ d = FirstDir(there, archive)
                        /\ da = FirstData(there)
    OBVIOUS
  <1> PICK N, P : /\ N = [e \in Dentries |-> IF e = 0 /\ there THEN 1 ELSE 0]
                  /\ P = [e \in Dentries |-> [i \in Nat |-> 2]]
    OBVIOUS
  <1>1. N \in Counts /\ P \in Paths
    BY FirstPlaces DEF Counts, Paths
  <1>2. \A e \in Dentries : \A i \in Nat : P[e][i] = 2
    OBVIOUS
  <1>3. there => fat[2] = EndOfChain /\ da[2][0] = [dentry |-> 0, pos |-> 0]
    BY FirstPlaces DEF FirstFat, FirstData, NoBytes
  <1>4. ASSUME NEW e \in Dentries
        PROVE  /\ e = 0 /\ there => HasChain(d, e) /\ N[e] = 1 /\ d[e].first = 2 /\ d[e].size = 1
               /\ ~(e = 0 /\ there) => d[e].name = Unused /\ N[e] = 0
    <2>1. CASE e = 0 /\ there
      <3>1. d[e] = [name |-> archive, first |-> 2, size |-> 1] /\ N[e] = 1
        BY <2>1 DEF FirstDir
      <3>2. archive \notin {Unused, Deleted}
        BY <2>1
      <3>3. d[e].name = archive /\ d[e].first = 2 /\ d[e].size = 1
        BY <3>1
      <3>4. HasChain(d, e)
        BY <3>2, <3>3 DEF HasChain
      <3> QED
        BY <2>1, <3>1, <3>3, <3>4
    <2>2. CASE ~(e = 0 /\ there)
      BY <2>2 DEF FirstDir, Vacant
    <2> QED
      BY <2>1, <2>2
  <1>5. ASSUME NEW e \in Dentries
        PROVE  Chain(fat, N[e], P[e])
    <2>1. N[e] \in Nat /\ P[e] \in [Nat -> Clusters]
      BY <1>1 DEF Counts, Paths
    <2>2. N[e] = 0 \/ (N[e] = 1 /\ there)
      BY <1>4
    <2>3. \A i \in 0 .. N[e] - 1 : i = 0 /\ i + 1 = N[e] /\ fat[P[e][i]] = EndOfChain
      BY <1>2, <1>3, <2>2
    <2> QED
      BY <2>1, <2>3 DEF Chain
  <1>6. \A e \in Dentries : IF HasChain(d, e) THEN N[e] # 0 /\ P[e][0] = d[e].first
                            ELSE N[e] = 0
    BY <1>2, <1>4 DEF HasChain
  <1>7. Apart(N, P)
    <2>1. ASSUME NEW e \in Dentries, NEW i \in 0 .. N[e] - 1
          PROVE  e = 0
      BY <1>4
    <2> QED
      BY <2>1 DEF Apart
  <1>8. Files(fat, d, N, P)
    BY <1>1, <1>5, <1>6, <1>7 DEF Files
  <1>9. ASSUME NEW e \in Dentries, d[e].name \notin {Unused, Deleted}
        PROVE  HasBytes(da, N[e], P[e], e, d[e].size)
    <2>1. e = 0 /\ there /\ N[e] = 1 /\ d[e].size = 1
      BY <1>4, <1>9
    <2>2. ASSUME NEW pos \in 0 .. d[e].size - 1
          PROVE  /\ pos \div bytes_per_cluster < N[e]
                 /\ da[P[e][pos \div bytes_per_cluster]][pos % bytes_per_cluster]
                      = [dentry |-> e, pos |-> pos]
      <3>1. pos = 0
        BY <2>1
      <3>2. pos \div bytes_per_cluster = 0 /\ pos % bytes_per_cluster = 0
        BY <3>1, NoPosition
      <3> QED
        BY <1>2, <1>3, <2>1, <3>1, <3>2
    <2> QED
      BY <2>2 DEF HasBytes
  <1>10. Bytes(d, da, N, P)
    BY <1>9 DEF Bytes
  <1> QED
    BY <1>1, <1>8, <1>10

\* The invariant holds at first.
LEMMA InitInvariant ==
  ASSUME Ordinary, Init
  PROVE  IInv
  <1>1. PICK archive \in Names \cup {Unused}, cached \in CachedAtMount :
          LET there == archive # Unused
              Row == [i \in 0 .. bytes_per_cluster - 1 |-> Nowhere]
          IN  /\ there => ShortName(archive) = archive
              /\ volume = Mounted([t \in Table |->
                                     IF t < 2 \/ (t = 2 /\ there) THEN EndOfChain
                                     ELSE Free], cached)
              /\ dir = [e \in Dentries |->
                          IF e = 0 /\ there
                          THEN [name |-> archive, first |-> 2, size |-> 1] ELSE Vacant]
              /\ data = [c \in Clusters |->
                           IF c = 2 /\ there
                           THEN [Row EXCEPT ![0] = [dentry |-> 0, pos |-> 0]]
                           ELSE Row]
              /\ inode = [h \in Handles |-> Closed] /\ result = "ok" /\ damage = "none"
    BY Zenon DEF Init
  <1> PICK there : there = (archive # Unused)
    OBVIOUS
  <1>2. /\ volume = Mounted(FirstFat(there), cached) /\ dir = FirstDir(there, archive)
        /\ data = FirstData(there) /\ inode = [h \in Handles |-> Closed]
        /\ result = "ok" /\ damage = "none" /\ (there => ShortName(archive) = archive)
    BY <1>1, Zenon DEF FirstFat, FirstDir, FirstData, NoBytes
  <1>3. archive = Unused \/ (archive \in Names /\ ShortName(archive) = archive)
    BY <1>2
  <1>4. archive \notin {Deleted}
    BY RealNames DEF Unused, Deleted
  <1>5. Small /\ cached = 0
    BY DEF Ordinary
  <1> PICK fat : fat = FirstFat(there)
    OBVIOUS
  <1>6. fat \in Tables /\ dir \in [Dentries -> DentryType] /\ data \in DataType
    BY <1>2, <1>3, FirstTypes, Zenon
  <1>7. volume = Vol(fat, 0) /\ 0 \in Sectors
    BY <1>2, <1>5, MountedVolume
  <1>8. volume.fat = fat
    BY <1>7 DEF Vol
  <1>9. Consistent
    BY <1>6, <1>7, <1>8, Zenon DEF Consistent
  <1>10. Closed \in InodeType /\ ~Closed.open
    BY FirstPlaces DEF Closed, InodeType
  <1>11. inode \in [Handles -> InodeType] /\ \A h \in Handles : ~inode[h].open
    BY <1>2, <1>10
  <1>12. HandlesAgree
    BY <1>11, Zenon DEF HandlesAgree
  <1>13. result \in {"ok", "ENOENT", "EDQUOT"}
         /\ damage \in {"none", "overread", "directory overwritten"}
    BY <1>2
  <1>14. Typed
    BY <1>6, <1>11, <1>13, Zenon DEF Typed, DataType
  <1>15. \E N \in Counts, P \in Paths :
           Files(volume.fat, dir, N, P) /\ Bytes(dir, data, N, P)
    BY <1>2, <1>4, <1>5, <1>8, FirstFiles, Zenon
  <1> QED
    BY <1>9, <1>12, <1>14, <1>15 DEF IInv

-----------------------------------------------------------------------------
(* Every step                                                              *)

\* Every call keeps the invariant.
LEMMA Steps ==
  ASSUME Ordinary, IInv, NEW N \in Counts, NEW P \in Paths, FilesNow(N, P), Next
  PROVE  Good' /\ FilesNext(N, P)
  <1>1. Good
    BY DEF IInv, Good
  <1>2. ASSUME NEW h \in Handles, NEW name \in Names, NEW create \in BOOLEAN,
               NEW truncate \in BOOLEAN, sys_open(h, name, create, truncate)
        PROVE  Good' /\ FilesNext(N, P)
    BY <1>1, <1>2, OpenStep, Zenon
  <1>3. ASSUME NEW h \in Handles, sys_close(h)
        PROVE  Good' /\ FilesNext(N, P)
    BY <1>1, <1>3, CloseStep, Zenon
  <1>4. ASSUME NEW h \in Handles, NEW off \in 0 .. MaxSize, NEW n \in 1 .. MaxWrite,
               FAT16_write(h, off, n)
        PROVE  Good' /\ FilesNext(N, P)
    BY <1>1, <1>4, WriteStep, Zenon
  <1>5. ASSUME NEW h \in Handles, NEW off \in 0 .. MaxSize, NEW n \in 1 .. MaxWrite,
               FAT16_read(h, off, n)
        PROVE  Good' /\ FilesNext(N, P)
    BY <1>1, <1>5, ReadStep, Zenon
  <1>6. ASSUME NEW name \in Names, sys_unlink(name)
        PROVE  Good' /\ FilesNext(N, P)
    BY <1>1, <1>6, UnlinkStep, Zenon
  <1>7. ASSUME FAT16_mount
        PROVE  Good' /\ FilesNext(N, P)
    BY <1>1, <1>7, MountStep, Zenon
  <1> QED
    BY <1>2, <1>3, <1>4, <1>5, <1>6, <1>7, Zenon DEF Next, Call

\* Every step keeps the invariant.
LEMMA NextInvariant ==
  ASSUME Ordinary, IInv, [Next]_vars
  PROVE  IInv'
  <1>1. CASE Next
    <2>1. PICK N \in Counts, P \in Paths : FilesNow(N, P)
      BY DEF IInv, FilesNow
    <2>2. Good' /\ FilesNext(N, P)
      BY <1>1, <2>1, Steps, Zenon
    <2> QED
      BY <2>2, Zenon DEF IInv, Good, FilesNext
  <1>2. CASE UNCHANGED vars
    BY <1>2 DEF vars, IInv, Typed, Consistent, HandlesAgree, IsLive
  <1> QED
    BY <1>1, <1>2

-----------------------------------------------------------------------------
(* What the properties say of the files                                    *)

\* The clusters that a walk from the entry finds are those of the file.
ClustersIn(fat, d, e) == {Nth(fat, d[e].first, n) : n \in 0 .. ClusterCount} \cap Clusters
OrphansIn(fat, d) ==
  {c \in Clusters : fat[c] # Free}
    \ UNION {ClustersIn(fat, d, e) :
               e \in {f \in Dentries : d[f].name \notin {Unused, Deleted}}}

\* The clusters a walk finds for an entry are those on its path.
LEMMA ClustersOwned ==
  ASSUME Small, NEW fat \in Tables, NEW d, NEW N, NEW P, Files(fat, d, N, P),
         NEW e \in Dentries, d[e].name \notin {Unused, Deleted}
  PROVE  /\ ClustersIn(fat, d, e) = Own(N[e], P[e])
         /\ d[e].first # 0 => Nth(fat, d[e].first, ClusterCount) = EndOfChain
         /\ \A i \in 0 .. N[e] - 1 : Nth(fat, d[e].first, i) = P[e][i]
  <1> PICK n, p, first : n = N[e] /\ p = P[e] /\ first = d[e].first
    OBVIOUS
  <1>1. Chain(fat, n, p) /\ n \in Nat /\ p \in [Nat -> Clusters]
    BY DEF Files, Chain
  <1>2. ClusterCount \in Nat /\ ClusterCount \in 0 .. ClusterCount /\ n <= ClusterCount
    BY <1>1, ConstantTypes, ChainShort
  <1>3. EndOfChain \notin Clusters /\ 0 \notin Clusters
    BY MarksDiffer DEF Clusters
  <1>4. CASE first = 0
    <2>1. n = 0
      BY <1>4 DEF Files, HasChain
    <2>2. \A k \in 0 .. ClusterCount : Nth(fat, first, k) = 0
      BY <1>4, NthNone
    <2>3. ClustersIn(fat, d, e) = {}
      BY <1>3, <2>2 DEF ClustersIn
    <2>4. Own(n, p) = {}
      BY <2>1 DEF Own
    <2> QED
      BY <1>4, <2>1, <2>3, <2>4
  <1>5. CASE first # 0
    <2>1. n # 0 /\ first = p[0]
      BY <1>5 DEF Files, HasChain
    <2>2. \A k \in 0 .. ClusterCount :
            Nth(fat, first, k) = IF k < n THEN p[k] ELSE EndOfChain
      BY <1>1, <2>1, NthChain
    <2>3. \A i \in 0 .. n - 1 : i \in 0 .. ClusterCount /\ i < n /\ p[i] \in Clusters
      BY <1>1, <1>2
    <2>4. \A i \in 0 .. n - 1 : Nth(fat, first, i) = p[i]
      BY <2>2, <2>3
    <2>5. Nth(fat, first, ClusterCount) = EndOfChain
      BY <1>1, <1>2, <2>2
    <2>6. ClustersIn(fat, d, e) = Own(n, p)
      <3>1. ASSUME NEW c \in ClustersIn(fat, d, e)
            PROVE  c \in Own(n, p)
        <4>1. PICK k \in 0 .. ClusterCount : c = Nth(fat, first, k)
          BY DEF ClustersIn
        <4>2. c \in Clusters
          BY DEF ClustersIn
        <4>3. k < n /\ c = p[k]
          BY <1>3, <2>2, <4>1, <4>2
        <4>4. k \in 0 .. n - 1
          BY <1>1, <1>2, <4>3
        <4> QED
          BY <4>3, <4>4 DEF Own
      <3>2. ASSUME NEW c \in Own(n, p)
            PROVE  c \in ClustersIn(fat, d, e)
        <4>1. PICK i \in 0 .. n - 1 : c = p[i]
          BY DEF Own
        <4> QED
          BY <2>3, <2>4, <4>1 DEF ClustersIn
      <3> QED
        BY <3>1, <3>2
    <2> QED
      BY <2>4, <2>5, <2>6
  <1> QED
    BY <1>4, <1>5

UnusedOf(fat, N, P) == {c \in Clusters : fat[c] # Free /\ ~Used(N, P, c)}

\* Clusters in use that no entry leads to are those on no path.
LEMMA OrphansUnused ==
  ASSUME Small, NEW fat \in Tables, NEW d, NEW N, NEW P, Files(fat, d, N, P)
  PROVE  OrphansIn(fat, d) = UnusedOf(fat, N, P)
  <1>1. \A e \in Dentries : d[e].name \notin {Unused, Deleted} =>
          ClustersIn(fat, d, e) = Own(N[e], P[e])
    BY ClustersOwned
  <1>2. \A e \in Dentries : N[e] # 0 => d[e].name \notin {Unused, Deleted}
    BY DEF Files, HasChain
  <1>3. ASSUME NEW c \in Clusters
        PROVE  Used(N, P, c) <=> c \in UNION {ClustersIn(fat, d, e) :
                 e \in {f \in Dentries : d[f].name \notin {Unused, Deleted}}}
    <2>1. ASSUME NEW e \in Dentries, NEW i \in 0 .. N[e] - 1, P[e][i] = c
          PROVE  d[e].name \notin {Unused, Deleted} /\ c \in ClustersIn(fat, d, e)
      <3>1. d[e].name \notin {Unused, Deleted}
        BY <1>2
      <3>2. c \in Own(N[e], P[e])
        BY <2>1 DEF Own
      <3> QED
        BY <1>1, <3>1, <3>2
    <2>2. ASSUME NEW e \in Dentries, d[e].name \notin {Unused, Deleted},
                 c \in ClustersIn(fat, d, e)
          PROVE  \E i \in 0 .. N[e] - 1 : P[e][i] = c
      BY <1>1, <2>2 DEF Own
    <2> QED
      BY <2>1, <2>2 DEF Used
  <1> QED
    BY <1>3 DEF OrphansIn, UnusedOf

-----------------------------------------------------------------------------
(* The theorems                                                            *)

\* The invariant holds for every card of an ordinary number of clusters, as
\* long as no open file is unlinked.
THEOREM Invariance ==
  ASSUME Ordinary
  PROVE  Spec => []IInv
  <1>1. Init => IInv
    BY InitInvariant
  <1>2. IInv /\ [Next]_vars => IInv'
    BY NextInvariant
  <1> QED
    BY <1>1, <1>2, PTL DEF Spec

\* The invariant gives the types,
LEMMA TypesFollow ==
  ASSUME IInv
  PROVE  TypeOK
  <1>1. Typed /\ Consistent
    BY DEF IInv
  <1>2. PICK s \in Sectors : volume = Vol(volume.fat, s)
    BY <1>1 DEF Consistent
  <1> PICK fat \in Tables : fat = volume.fat
    BY <1>1 DEF Consistent
  <1>3. fat \in [Table -> {Free, EndOfChain} \cup Clusters]
    BY DEF Tables
  <1>4. \A i \in Slots : s * FAT_SECTOR_CACHE_SIZE + i \in Table
    BY PlaceEntry
  <1>5. volume.cache = [i \in Slots |-> fat[s * FAT_SECTOR_CACHE_SIZE + i]] /\ volume.cached = s
    BY <1>2 DEF Vol
  <1>6. volume.cache \in [Slots -> {Free, EndOfChain} \cup Clusters]
    BY <1>3, <1>4, <1>5
  <1>7. volume.fat \in [Table -> {Free, EndOfChain} \cup Clusters]
        /\ volume.cached \in 0 .. SectorsPerFat - 1
    BY <1>3, <1>5 DEF Sectors
  <1> QED
    BY <1>1, <1>6, <1>7, Zenon DEF TypeOK, Typed, DentryType, ByteType, InodeType

\* The table, the cache, the directory, the bytes and the inodes keep their
\* types: what FAT16_mark_cluster and adjust_allocated_clusters write into the
\* table is a mark or the number of a cluster, whatever sector is cached.
THEOREM TypeCorrect ==
  ASSUME Ordinary
  PROVE  Spec => []TypeOK
  <1>1. IInv => TypeOK
    BY TypesFollow
  <1>2. Spec => []IInv
    BY Invariance
  <1> QED
    BY <1>1, <1>2, PTL

\* that no two files share a cluster,
LEMMA DisjointFollows ==
  ASSUME Ordinary, IInv
  PROVE  ChainsDisjoint
  <1>1. PICK N \in Counts, P \in Paths : Files(volume.fat, dir, N, P)
    BY DEF IInv
  <1>2. Small /\ volume.fat \in Tables
    BY DEF IInv, Consistent, Ordinary
  <1>3. ASSUME NEW e \in Dentries, dir[e].name \notin {Unused, Deleted}
        PROVE  /\ ClustersOf(e) = Own(N[e], P[e])
               /\ dir[e].first # 0 => Nth(volume.fat, dir[e].first, ClusterCount) = EndOfChain
    <2>1. /\ ClustersIn(volume.fat, dir, e) = Own(N[e], P[e])
          /\ dir[e].first # 0 => Nth(volume.fat, dir[e].first, ClusterCount) = EndOfChain
      BY <1>1, <1>2, <1>3, ClustersOwned
    <2> QED
      BY <2>1 DEF ClustersOf, ClustersIn
  <1>4. ASSUME NEW e \in Dentries, NEW f \in Dentries \ {e}
        PROVE  Own(N[e], P[e]) \cap Own(N[f], P[f]) = {}
    BY <1>1 DEF Files, Apart, Own
  <1>5. ASSUME NEW e \in Dentries, IsLive(e), dir[e].first # 0
        PROVE  /\ Nth(volume.fat, dir[e].first, ClusterCount) = EndOfChain
               /\ \A f \in Dentries \ {e} :
                    IsLive(f) => ClustersOf(e) \cap ClustersOf(f) = {}
    BY <1>3, <1>4, <1>5 DEF IsLive
  <1> QED
    BY <1>5 DEF ChainsDisjoint

\* Whatever is created, written, deleted and mounted again: the chain of every
\* file ends, and no two files share a cluster.
THEOREM ChainsCorrect ==
  ASSUME Ordinary
  PROVE  Spec => []ChainsDisjoint
  <1>1. IInv => ChainsDisjoint
    BY DisjointFollows
  <1>2. Spec => []IInv
    BY Invariance
  <1> QED
    BY <1>1, <1>2, PTL

\* and that a file reads back what was written to it.
LEMMA ReadBackFollows ==
  ASSUME Ordinary, RootSector \notin Clusters, IInv
  PROVE  ReadBack
  <1>1. PICK N \in Counts, P \in Paths :
          Files(volume.fat, dir, N, P) /\ Bytes(dir, data, N, P)
    BY DEF IInv
  <1>2. Small /\ volume.fat \in Tables /\ Typed /\ HandlesAgree
    BY DEF IInv, Consistent, Ordinary
  <1>3. ASSUME NEW e \in Dentries, IsLive(e), NEW pos \in 0 .. dir[e].size - 1
        PROVE  /\ ByteAt(dir[e].first, pos) = [dentry |-> e, pos |-> pos]
               /\ dir[e].first \in Clusters
    <2>1. dir[e].name \notin {Unused, Deleted} /\ dir[e].size \in Nat /\ dir[e].first \in {0} \cup Clusters
      BY <1>2, <1>3, SizeTypes DEF IsLive
    <2>2. pos \in Nat
      BY <2>1
    <2> PICK x, i : x \in Nat /\ x = pos \div bytes_per_cluster /\ i = pos % bytes_per_cluster
      BY <2>2, ConstantTypes, Places
    <2>3. x < N[e] /\ data[P[e][x]][i] = [dentry |-> e, pos |-> pos]
      BY <1>1, <2>1 DEF Bytes, HasBytes
    <2>4. x \in 0 .. N[e] - 1 /\ P[e][x] \in Clusters /\ N[e] # 0
      BY <2>3 DEF Counts, Paths
    <2>5. Nth(volume.fat, dir[e].first, x) = P[e][x]
      BY <1>1, <1>2, <2>1, <2>4, ClustersOwned
    <2>6. ByteAt(dir[e].first, pos) = data[P[e][x]][i]
      BY <2>4, <2>5 DEF ByteAt
    <2>7. dir[e].first # 0
      BY <1>1, <2>4 DEF Files, HasChain
    <2> QED
      BY <2>1, <2>3, <2>6, <2>7
  <1>4. ASSUME NEW h \in Handles, inode[h].open, NEW pos \in 0 .. inode[h].size - 1
        PROVE  /\ ~IsRoot(h)
               /\ ByteAt(inode[h].first, pos) = [dentry |-> inode[h].dentry, pos |-> pos]
    <2> PICK e \in Dentries : e = inode[h].dentry
      BY <1>2, SizeTypes
    <2>1. /\ IsLive(e) /\ inode[h].size <= dir[e].size
          /\ inode[h].size > 0 => inode[h].first = dir[e].first
      BY <1>2, <1>4 DEF HandlesAgree
    <2>2. inode[h].size \in Nat /\ dir[e].size \in Nat
      BY <1>2, SizeTypes
    <2>3. pos \in 0 .. dir[e].size - 1 /\ inode[h].first = dir[e].first
      BY <2>1, <2>2
    <2>4. ByteAt(dir[e].first, pos) = [dentry |-> e, pos |-> pos] /\ dir[e].first \in Clusters
      BY <1>3, <2>1, <2>3
    <2> QED
      BY <2>3, <2>4 DEF IsRoot
  <1> QED
    BY <1>3, <1>4 DEF ReadBack

\* Every byte of a file is read back as it was written, by those who open the
\* file and by those who have it open, however stale their inodes are, as long
\* as the sector of the root directory has the number of no cluster.
THEOREM ReadBackCorrect ==
  ASSUME Ordinary, RootSector \notin Clusters
  PROVE  Spec => []ReadBack
  <1>1. IInv => ReadBack
    BY ReadBackFollows
  <1>2. Spec => []IInv
    BY Invariance
  <1> QED
    BY <1>1, <1>2, PTL

\* A call that succeeds leaves no more orphans than there were.
LEMMA NoneLostStep ==
  ASSUME Ordinary, IInv, [Next]_vars
  PROVE  [Orphans' \subseteq Orphans \/ result' # "ok"]_vars
  <1>1. Small /\ volume.fat \in Tables
    BY DEF IInv, Consistent, Ordinary
  <1>2. IInv'
    BY NextInvariant
  <1> PICK fat, fat2, d2 : /\ fat \in Tables /\ fat2 \in Tables
                           /\ fat = volume.fat /\ fat2 = volume'.fat /\ d2 = dir'
    BY <1>1, <1>2 DEF IInv, Consistent
  <1>3. Orphans = OrphansIn(fat, dir) /\ Orphans' = OrphansIn(fat2, d2)
    BY DEF Orphans, OrphansIn, ClustersOf, ClustersIn, IsLive
  <1>4. CASE Next /\ result' = "ok"
    <2>1. PICK N \in Counts, P \in Paths : FilesNow(N, P)
      BY DEF IInv, FilesNow
    <2>2. FilesNext(N, P)
      BY <1>4, <2>1, Steps, Zenon
    <2>3. PICK N2 \in Counts, P2 \in Paths :
            Files(volume'.fat, dir', N2, P2) /\ NoneLost(N, P, N2, P2)
      BY <2>2 DEF FilesNext
    <2>4. Files(fat, dir, N, P) /\ Files(fat2, d2, N2, P2)
      BY <2>1, <2>3 DEF FilesNow
    <2>5. OrphansIn(fat, dir) = UnusedOf(fat, N, P)
      BY <1>1, <2>4, OrphansUnused
    <2>6. OrphansIn(fat2, d2) = UnusedOf(fat2, N2, P2)
      BY <1>1, <2>4, OrphansUnused
    <2>7. \A c \in Clusters : fat2[c] # Free /\ ~Used(N2, P2, c)
                                => fat[c] # Free /\ ~Used(N, P, c)
      BY <1>4, <2>3 DEF NoneLost
    <2> QED
      BY <1>3, <2>5, <2>6, <2>7 DEF UnusedOf
  <1> QED
    BY <1>4

\* A call that succeeds leaves no cluster in use that was not and belongs to no
\* file: deleting a file frees its whole chain, and a write that finds room
\* links every cluster that it marks.
THEOREM LeaksCorrect ==
  ASSUME Ordinary
  PROVE  Spec => LeaksOnlyOnFailure
  <1>1. IInv /\ [Next]_vars => [Orphans' \subseteq Orphans \/ result' # "ok"]_vars
    BY NoneLostStep
  <1>2. Spec => []IInv
    BY Invariance
  <1> QED
    BY <1>1, <1>2, PTL DEF Spec, LeaksOnlyOnFailure
=============================================================================
