---------------------------- MODULE LoaderProofs ----------------------------
(***************************************************************************)
(* For every set of executables and every library that a linker makes, any *)
(* size of the process table and of the first buffer of an image: memory   *)
(* is left behind by failed spawns only, and, of executables that keep the *)
(* rules, a process finds its program as it was linked.                    *)
(*                                                                         *)
(* The first part is about the two loops of the loader: the image after    *)
(* the first segments, and a look-up after its first steps.  The second    *)
(* follows the table and the heap through the system calls.                *)
(***************************************************************************)
EXTENDS Loader, TLAPS, FiniteSetTheorems, WellFoundedInduction

-----------------------------------------------------------------------------
(* The two loops                                                           *)

\* A set of natural numbers has a least one.
LEMMA Least ==
  ASSUME NEW S \in SUBSET Nat, S # {}
  PROVE  Min(S) \in S /\ \A m \in S : Min(S) <= m
  <1>1. PICK n \in S : \A m \in S : <<m, n>> \notin OpToRel(<, Nat)
    BY NatLessThanWellFounded, WFMin
  <1>2. \A m \in S : ~(m < n)
    BY <1>1 DEF OpToRel
  <1>3. \A m \in S : n <= m
    BY <1>2
  <1> QED
    BY <1>3 DEF Min

\* Induction up to n, with the set of the numbers that are known.
LEMMA Climb ==
  ASSUME NEW n \in Nat, NEW S, 0 \in S, \A k \in 1 .. n : k - 1 \in S => k \in S
  PROVE  0 .. n \subseteq S
  <1> DEFINE Rest == (0 .. n) \ S
  <1>1. ASSUME Rest # {}
        PROVE  FALSE
    <2>1. Rest \in SUBSET Nat
      OBVIOUS
    <2> HIDE DEF Rest
    <2>2. Min(Rest) \in Rest /\ \A m \in Rest : Min(Rest) <= m
      BY <1>1, <2>1, Least
    <2>3. PICK m \in Rest : \A i \in Rest : m <= i
      BY <2>2
    <2>4. m \in 1 .. n /\ m \notin S /\ m - 1 \in 0 .. n
      BY <2>3 DEF Rest
    <2>5. m - 1 \notin Rest
      BY <2>3, <2>4
    <2> QED
      BY <2>4, <2>5 DEF Rest
  <1> QED
    BY <1>1

\* The image after the first i segments, for i up to n.
Fills(g, p, n) ==
  g = [i \in 0 .. n |-> IF i = 0 THEN Buffer ELSE Copied(g[i - 1], p, i)]

\* Where a look-up of the name is after k steps, for k up to n.
Follows(g, name, n) ==
  g = [k \in 0 .. n |-> IF k = 0 THEN Bucket(name) ELSE NextOf(g[k - 1], name)]

\* Such functions exist: one of n - 1 steps can take another.
LEMMA PagesExist ==
  ASSUME NEW p, NEW n \in Nat
  PROVE  \E g : Fills(g, p, n)
  <1> DEFINE S == {m \in Nat : \E g : Fills(g, p, m)}
  <1>1. 0 \in S
    <2> DEFINE h == [i \in 0 .. 0 |-> Buffer]
    <2>1. h = [i \in 0 .. 0 |-> IF i = 0 THEN Buffer ELSE Copied(h[i - 1], p, i)]
      OBVIOUS
    <2> HIDE DEF h
    <2>2. Fills(h, p, 0)
      BY <2>1 DEF Fills
    <2> QED
      BY <2>2
  <1>2. ASSUME NEW m \in 1 .. n, m - 1 \in S
        PROVE  m \in S
    <2>1. PICK g : Fills(g, p, m - 1)
      BY <1>2
    <2> DEFINE h == [i \in 0 .. m |-> IF i = m THEN Copied(g[m - 1], p, m) ELSE g[i]]
    <2>2. ASSUME NEW i \in 0 .. m
          PROVE  h[i] = IF i = 0 THEN Buffer ELSE Copied(h[i - 1], p, i)
      <3>1. CASE i = m
        BY <3>1
      <3>2. CASE i # m
        <4>1. i \in 0 .. m - 1 /\ h[i] = g[i] /\ (i # 0 => h[i - 1] = g[i - 1])
          BY <3>2
        <4>2. g[i] = IF i = 0 THEN Buffer ELSE Copied(g[i - 1], p, i)
          BY <2>1, <4>1 DEF Fills
        <4> QED
          BY <4>1, <4>2
      <3> QED
        BY <3>1, <3>2
    <2>3. h = [i \in 0 .. m |-> h[i]]
      OBVIOUS
    <2> HIDE DEF h
    <2>4. Fills(h, p, m)
      BY <2>2, <2>3 DEF Fills
    <2> QED
      BY <2>4
  <1> HIDE DEF S
  <1>3. 0 .. n \subseteq S
    BY <1>1, <1>2, Climb
  <1> QED
    BY <1>3 DEF S

\* There is a walk of any length along the chain of a name.
LEMMA WalkExists ==
  ASSUME NEW name, NEW n \in Nat
  PROVE  \E g : Follows(g, name, n)
  <1> DEFINE S == {m \in Nat : \E g : Follows(g, name, m)}
  <1>1. 0 \in S
    <2> DEFINE h == [k \in 0 .. 0 |-> Bucket(name)]
    <2>1. h = [k \in 0 .. 0 |-> IF k = 0 THEN Bucket(name) ELSE NextOf(h[k - 1], name)]
      OBVIOUS
    <2> HIDE DEF h
    <2>2. Follows(h, name, 0)
      BY <2>1 DEF Follows
    <2> QED
      BY <2>2
  <1>2. ASSUME NEW m \in 1 .. n, m - 1 \in S
        PROVE  m \in S
    <2>1. PICK g : Follows(g, name, m - 1)
      BY <1>2
    <2> DEFINE h == [k \in 0 .. m |-> IF k = m THEN NextOf(g[m - 1], name) ELSE g[k]]
    <2>2. ASSUME NEW k \in 0 .. m
          PROVE  h[k] = IF k = 0 THEN Bucket(name) ELSE NextOf(h[k - 1], name)
      <3>1. CASE k = m
        BY <3>1
      <3>2. CASE k # m
        <4>1. k \in 0 .. m - 1 /\ h[k] = g[k] /\ (k # 0 => h[k - 1] = g[k - 1])
          BY <3>2
        <4>2. g[k] = IF k = 0 THEN Bucket(name) ELSE NextOf(g[k - 1], name)
          BY <2>1, <4>1 DEF Follows
        <4> QED
          BY <4>1, <4>2
      <3> QED
        BY <3>1, <3>2
    <2>3. h = [k \in 0 .. m |-> h[k]]
      OBVIOUS
    <2> HIDE DEF h
    <2>4. Follows(h, name, m)
      BY <2>2, <2>3 DEF Follows
    <2> QED
      BY <2>4
  <1> HIDE DEF S
  <1>3. 0 .. n \subseteq S
    BY <1>1, <1>2, Climb
  <1> QED
    BY <1>3 DEF S

\* So the loops of the loader are such functions.
LEMMA PagesFill ==
  ASSUME NEW p \in Programs
  PROVE  /\ Len(p.segments) \in Nat /\ DOMAIN p.segments = 1 .. Len(p.segments)
         /\ Pages(p)[0] = Buffer
         /\ \A i \in 1 .. Len(p.segments) : Pages(p)[i] = Copied(Pages(p)[i - 1], p, i)
  <1>1. Len(p.segments) \in Nat /\ DOMAIN p.segments = 1 .. Len(p.segments)
    BY LoaderAssumption
  <1>2. PICK g : Fills(g, p, Len(p.segments))
    BY <1>1, PagesExist
  <1>3. Fills(Pages(p), p, Len(p.segments))
    BY <1>2 DEF Fills, Pages
  <1>4. Pages(p)[0] = Buffer
    BY <1>1, <1>3 DEF Fills
  <1>5. ASSUME NEW i \in 1 .. Len(p.segments)
        PROVE  Pages(p)[i] = Copied(Pages(p)[i - 1], p, i)
    BY <1>1, <1>3 DEF Fills
  <1> QED
    BY <1>1, <1>4, <1>5

\* The walk of the model is one.
LEMMA WalkFollows ==
  ASSUME NEW name
  PROVE  LET n == Len(Library.dynsym)
         IN  /\ n \in Nat
             /\ Walk(name)[0] = Bucket(name)
             /\ \A k \in 1 .. n : Walk(name)[k] = NextOf(Walk(name)[k - 1], name)
  <1> DEFINE n == Len(Library.dynsym)
  <1>1. n \in Nat
    BY LoaderAssumption
  <1>2. PICK g : Follows(g, name, n)
    BY <1>1, WalkExists
  <1>3. Follows(Walk(name), name, n)
    BY <1>2 DEF Follows, Walk
  <1>4. Walk(name)[0] = Bucket(name)
    BY <1>1, <1>3 DEF Follows
  <1>5. ASSUME NEW k \in 1 .. n
        PROVE  Walk(name)[k] = NextOf(Walk(name)[k - 1], name)
    BY <1>1, <1>3 DEF Follows
  <1> QED
    BY <1>1, <1>4, <1>5

-----------------------------------------------------------------------------
(* What the loops make                                                     *)

\* What a segment of an executable has.
LEMMA SegmentTypes ==
  ASSUME NEW p \in Programs, NEW k \in DOMAIN p.segments
  PROVE  LET s == p.segments[k]
         IN  s.paddr \in Nat /\ s.filesz \in Nat /\ s.memsz \in Nat /\ s.filesz <= s.memsz
  <1>1. /\ p.segments \in Seq([paddr : Nat, filesz : Nat, memsz : Nat])
        /\ p.segments[k].filesz <= p.segments[k].memsz
    BY LoaderAssumption
  <1> DEFINE Segments == [paddr : Nat, filesz : Nat, memsz : Nat]
             q == p.segments
  <1>2. p.segments[k] \in Segments
    <2>1. q \in Seq(Segments) /\ k \in DOMAIN q
      BY <1>1
    <2> HIDE DEF Segments, q
    <2>2. q[k] \in Segments
      BY <2>1
    <2> QED
      BY <2>2 DEF q
  <1> QED
    BY <1>1, <1>2

\* What the assumptions say of each constant.
LEMMA ConstantTypes ==
  /\ INITIAL_PROCESS_COUNT \in Nat \ {0} /\ bufsz \in Nat \ {0} /\ MaxSpawns \in Nat \ {0}
  /\ MaxMoves \in Nat /\ Cells \subseteq Nat /\ Slots \subseteq Nat
  BY LoaderAssumption DEF Cells, Slots

\* The buffer is as long as it was asked for, and reaches the end of each segment.
LEMMA ImageHolds ==
  ASSUME NEW p \in Programs
  PROVE  \A k \in DOMAIN p.segments :
           p.segments[k].paddr + p.segments[k].memsz <= load_pages_to_ram(p).size
  <1> DEFINE n == Len(p.segments)
             end(k) == p.segments[k].paddr + p.segments[k].memsz
             S == {i \in 0 .. n : /\ Pages(p)[i].size \in Nat
                                  /\ \A k \in 1 .. i : end(k) <= Pages(p)[i].size}
  <1>1. n \in Nat /\ DOMAIN p.segments = 1 .. n
    BY PagesFill
  <1>2. 0 \in S
    <2>0. Pages(p)[0] = Buffer
      BY PagesFill
    <2>1. Pages(p)[0].size = bufsz
      BY <2>0 DEF Buffer
    <2> QED
      BY <1>1, <2>1, ConstantTypes
  <1>3. ASSUME NEW i \in 1 .. n, i - 1 \in S
        PROVE  i \in S
    <2> DEFINE before == Pages(p)[i - 1].size
               after == Pages(p)[i].size
    <2>1. end(i) \in Nat
      BY <1>1, SegmentTypes
    <2>2. before \in Nat /\ \A k \in 1 .. i - 1 : end(k) <= before
      BY <1>3
    <2>0. Pages(p)[i] = Copied(Pages(p)[i - 1], p, i)
      BY PagesFill
    <2>3. after = IF end(i) >= before THEN before + p.segments[i].paddr + p.segments[i].memsz
                  ELSE before
      BY <2>0 DEF Copied, Grows
    <2>4. before + p.segments[i].paddr + p.segments[i].memsz = before + end(i)
      BY <1>1, <2>2, SegmentTypes
    <2>5. \A k \in 1 .. i : end(k) \in Nat
      BY <1>1, SegmentTypes
    <2> HIDE DEF before, after, end
    <2>6. after \in Nat /\ before <= after /\ end(i) <= after
      BY <2>1, <2>2, <2>3, <2>4
    <2>7. ASSUME NEW k \in 1 .. i
          PROVE  end(k) <= after
      <3>1. CASE k = i
        BY <2>6, <3>1
      <3>2. CASE k # i
        <4>1. k \in 1 .. i - 1
          BY <3>2
        <4>2. end(k) \in Nat /\ end(k) <= before
          BY <2>2, <2>5, <4>1
        <4> QED
          BY <2>2, <2>6, <4>2
      <3> QED
        BY <3>1, <3>2
    <2> USE DEF after, end
    <2> QED
      BY <2>6, <2>7
  <1> HIDE DEF S, n
  <1>4. n \in S
    BY <1>1, <1>2, <1>3, Climb
  <1> QED
    BY <1>1, <1>4 DEF S, n, load_pages_to_ram

\* A cell of one segment's file holds its byte, whichever segments were read
\* after it; one of no file is as the buffer was.
LEMMA ImageFilled ==
  ASSUME NEW p \in Programs, NEW a \in Cells
  PROVE  LET cell == load_pages_to_ram(p).cell
         IN  /\ \A k \in DOMAIN p.segments :
                  InFile(p.segments[k], a) => cell[a] = Byte(k, a - p.segments[k].paddr)
             /\ (\A k \in DOMAIN p.segments : ~InFile(p.segments[k], a)) =>
                  cell[a] = IF a < bufsz THEN Zero ELSE Junk
  <1> DEFINE n == Len(p.segments)
             in(k) == InFile(p.segments[k], a)
             byte(k) == Byte(k, a - p.segments[k].paddr)
             is(i) == Pages(p)[i].cell[a]
             first == IF a < bufsz THEN Zero ELSE Junk
             S == {i \in 0 .. n : /\ \A k \in 1 .. i : in(k) => is(i) = byte(k)
                                  /\ (\A k \in 1 .. i : ~in(k)) => is(i) = first}
  <1>1. n \in Nat /\ DOMAIN p.segments = 1 .. n
    BY PagesFill
  <1>2. 0 \in S
    <2>0. Pages(p)[0] = Buffer
      BY PagesFill
    <2>1. is(0) = first
      BY <2>0 DEF Buffer
    <2> HIDE DEF is, in, byte, first
    <2> QED
      BY <1>1, <2>1
  <1>3. ASSUME NEW i \in 1 .. n, i - 1 \in S
        PROVE  i \in S
    <2>0. Pages(p)[i] = Copied(Pages(p)[i - 1], p, i)
      BY PagesFill
    <2>1. is(i) = IF in(i) THEN byte(i) ELSE is(i - 1)
      BY <2>0 DEF Copied
    <2>2. ASSUME NEW k \in 1 .. i, k # i, in(k)
          PROVE  ~in(i)
      <3>1. Linked(p) /\ k \in DOMAIN p.segments /\ i \in DOMAIN p.segments
        BY <1>1, LinkerAssumption
      <3>2. ~(Covers(p.segments[k], a) /\ Covers(p.segments[i], a))
        BY <2>2, <3>1 DEF Linked
      <3>3. ASSUME NEW j \in DOMAIN p.segments, in(j)
            PROVE  Covers(p.segments[j], a)
        BY <3>3, SegmentTypes, ConstantTypes DEF InFile, Covers
      <3> QED
        BY <2>2, <3>1, <3>2, <3>3
    <2> HIDE DEF is, in, byte, first
    <2>3. ASSUME NEW k \in 1 .. i, in(k)
          PROVE  is(i) = byte(k)
      BY <1>3, <2>1, <2>2, <2>3
    <2>4. ASSUME \A k \in 1 .. i : ~in(k)
          PROVE  is(i) = first
      BY <1>3, <2>1, <2>4
    <2> QED
      BY <2>3, <2>4
  <1> HIDE DEF S, n
  <1>4. n \in S
    BY <1>1, <1>2, <1>3, Climb
  <1> QED
    BY <1>1, <1>4 DEF S, n, load_pages_to_ram

\* A look-up of a name that the library has ends at an entry of that name: it is
\* on the chain of the name's bucket, and the look-up goes on until one is found.
LEMMA LookUpFinds ==
  ASSUME NEW name, \E e \in Entries : Desired(e, name)
  PROVE  \E e \in Entries : Desired(e, name) /\ get_dyn(name) = Library.dynsym[e].value
  <1> DEFINE N == Len(Library.dynsym)
             W == Walk(name)
  <1>1. PICK e \in Entries : Desired(e, name)
    OBVIOUS
  <1>2. PICK n \in Entries : \E path \in [1 .. n -> Entries] :
             /\ path[1] = Bucket(name) /\ path[n] = e
             /\ \A k \in 1 .. n - 1 : path[k + 1] = Library.hash.chain[path[k]]
    BY <1>1, LinkerAssumption, ZenonT(60) DEF Hashed, Desired
  <1>2a. PICK path \in [1 .. n -> Entries] :
             /\ path[1] = Bucket(name) /\ path[n] = e
             /\ \A k \in 1 .. n - 1 : path[k + 1] = Library.hash.chain[path[k]]
    BY <1>2
  <1>3. N \in Nat /\ Entries = 1 .. N /\ STN_UNDEF \notin Entries
    BY WalkFollows DEF Entries, STN_UNDEF
  <1> DEFINE S == {i \in 0 .. N : /\ W[i] \in Entries
                                  /\ Desired(W[i], name) \/ (i < n /\ W[i] = path[i + 1])}
  <1>4. 0 \in S
    <2>1. W[0] = path[1] /\ path[1] \in Entries
      BY <1>2a, <1>3, WalkFollows
    <2> QED
      BY <1>3, <2>1
  <1>5. ASSUME NEW i \in 1 .. N, i - 1 \in S
        PROVE  i \in S
    <2>1. W[i] = NextOf(W[i - 1], name)
      BY WalkFollows
    <2> HIDE DEF W, N
    <2>2. W[i - 1] \in Entries
      BY <1>5
    <2>3. CASE Desired(W[i - 1], name)
      BY <2>1, <2>2, <2>3 DEF NextOf
    <2>4. CASE ~Desired(W[i - 1], name)
      <3>1. W[i] = Library.hash.chain[W[i - 1]]
        BY <1>3, <2>1, <2>2, <2>4 DEF NextOf
      <3>2. i - 1 < n /\ W[i - 1] = path[i]
        BY <1>5, <2>4
      <3>3. i # n
        BY <1>1, <1>2a, <2>4, <3>2
      <3>4. i \in 1 .. n - 1 /\ i + 1 \in 1 .. n
        BY <1>3, <3>2, <3>3
      <3>5. W[i] = path[i + 1] /\ path[i + 1] \in Entries
        BY <1>2a, <3>1, <3>2, <3>4
      <3> QED
        BY <1>3, <3>4, <3>5
    <2> QED
      BY <2>3, <2>4
  <1> HIDE DEF S, W, N
  <1>6. N \in S
    <2>1. N \in Nat
      BY <1>3
    <2>2. \A i \in 1 .. N : i - 1 \in S => i \in S
      BY <1>5
    <2>3. 0 .. N \subseteq S
      BY <1>4, <2>1, <2>2, Climb
    <2> QED
      BY <2>1, <2>3
  <1>7. W[N] \in Entries /\ Desired(W[N], name)
    BY <1>3, <1>6 DEF S
  <1> QED
    BY <1>3, <1>7 DEF get_dyn, W, N

-----------------------------------------------------------------------------
(* What a process finds                                                    *)

\* An executable that keeps the rules.
Proper(p) == p \in Programs /\ ~NotExecutable(p) /\ Permitted(p, "none")

\* What the rules say of an executable.
LEMMA ProperFacts ==
  ASSUME NEW p, Proper(p), Rules = AllRules
  PROVE  /\ p \in Programs /\ Linked(p)
         /\ retrieve_dynlib_name(p).status = "OK" /\ ~LibraryMissing(p)
         /\ \A r \in Imports(p) : \E i \in Entries : Desired(i, r.name)
         /\ \A i \in DOMAIN p.segments :
              LET s == p.segments[i]
              IN  s.filesz = s.memsz \/ s.paddr + s.memsz <= bufsz
  <1>1. \A rule \in AllRules : Keeps(rule)
    BY DEF Keeps
  <1>2. Keeps("one library") /\ Keeps("known symbols") /\ Keeps("early bss")
    BY <1>1 DEF AllRules
  <1>3. p \in Programs /\ ~NotExecutable(p) /\ Permitted(p, "none")
    BY DEF Proper
  <1>4. Linked(p)
    BY <1>3, LinkerAssumption
  <1> QED
    BY <1>2, <1>3, <1>4 DEF Permitted

\* Cells that no import is at are those of the image without relocations.
LEMMA ImageElsewhere ==
  ASSUME NEW p, NEW a \in Cells, \A r \in Imports(p) : r.offset # a
  PROVE  Image(p)[a] = load_pages_to_ram(p).cell[a]
  <1>1. /\ ~ \E r \in p.rel_dyn : r.offset = a
        /\ ~ \E r \in p.rel_plt : r.offset = a
    BY DEF Imports
  <1>2. resolve_dyn_relocations(p, load_pages_to_ram(p).cell)[a] = load_pages_to_ram(p).cell[a]
    BY <1>1 DEF resolve_dyn_relocations
  <1> QED
    BY <1>2 DEF Image

\* Text, data and bss.
LEMMA SegmentsLoaded ==
  ASSUME NEW p, Proper(p), Rules = AllRules, NEW k \in DOMAIN p.segments,
         NEW a \in Cells, Covers(p.segments[k], a), \A r \in Imports(p) : r.offset # a
  PROVE  Image(p)[a] = IF a - p.segments[k].paddr < p.segments[k].filesz
                       THEN Byte(k, a - p.segments[k].paddr) ELSE Zero
  <1> DEFINE s == p.segments[k]
             cell == load_pages_to_ram(p).cell
  <1>1. p \in Programs /\ Linked(p) /\ (s.filesz = s.memsz \/ s.paddr + s.memsz <= bufsz)
    BY ProperFacts
  <1>2. Image(p)[a] = cell[a]
    BY ImageElsewhere
  <1>3. /\ \A j \in DOMAIN p.segments :
             InFile(p.segments[j], a) => cell[a] = Byte(j, a - p.segments[j].paddr)
        /\ (\A j \in DOMAIN p.segments : ~InFile(p.segments[j], a)) =>
             cell[a] = IF a < bufsz THEN Zero ELSE Junk
    BY <1>1, ImageFilled
  <1>4. /\ s.paddr \in Nat /\ s.filesz \in Nat /\ s.memsz \in Nat /\ s.filesz <= s.memsz
        /\ a \in Nat /\ bufsz \in Nat
    BY <1>1, SegmentTypes, ConstantTypes
  <1>5. a >= s.paddr /\ a < s.paddr + s.memsz
    BY <1>4 DEF Covers
  <1>6. InFile(s, a) <=> a - s.paddr < s.filesz
    BY <1>4, <1>5 DEF InFile
  <1>7. CASE InFile(s, a)
    BY <1>2, <1>3, <1>6, <1>7
  <1>8. CASE ~InFile(s, a)
    <2>1. ASSUME NEW j \in DOMAIN p.segments, j # k
          PROVE  ~InFile(p.segments[j], a)
      <3>1. ~Covers(p.segments[j], a)
        BY <1>1, <2>1 DEF Linked
      <3>2. LET t == p.segments[j]
            IN  t.paddr \in Nat /\ t.filesz \in Nat /\ t.memsz \in Nat /\ t.filesz <= t.memsz
        BY <1>1, SegmentTypes
      <3> QED
        BY <1>4, <3>1, <3>2 DEF Covers, InFile
    <2>2. \A j \in DOMAIN p.segments : ~InFile(p.segments[j], a)
      BY <1>8, <2>1
    <2>3. a < bufsz
      BY <1>1, <1>4, <1>5, <1>6, <1>8
    <2> QED
      BY <1>2, <1>3, <1>6, <1>8, <2>2, <2>3
  <1> QED
    BY <1>7, <1>8

\* Imports: each is the only one at its place, and its name is found.
LEMMA ImportsResolved ==
  ASSUME NEW p, Proper(p), Rules = AllRules, NEW r \in Imports(p)
  PROVE  /\ Links(p)
         /\ \E e \in Entries :
              /\ Library.dynsym[e].name = r.name
              /\ r \in p.rel_plt =>
                   Image(p)[r.offset] = FromLibrary(file_begin, Library.dynsym[e].value)
              /\ r \in p.rel_dyn =>
                   Image(p)[r.offset] = FromStaticBase(Library.dynsym[e].value)
  <1> DEFINE cell == load_pages_to_ram(p).cell
             a == r.offset
  <1>1. Linked(p) /\ retrieve_dynlib_name(p).status = "OK"
    BY ProperFacts
  <1>2. Links(p)
    BY <1>1 DEF Linked, Links
  <1>3. \E i \in Entries : Desired(i, r.name)
    BY ProperFacts
  <1>4. PICK e \in Entries : Desired(e, r.name) /\ get_dyn(r.name) = Library.dynsym[e].value
    BY <1>3, LookUpFinds
  <1>5. a \in Cells /\ \A s \in Imports(p) : s.offset = a => s = r
    BY <1>1 DEF Linked
  <1>6. Image(p)[a] =
          IF \E s \in p.rel_dyn : s.offset = a
          THEN FromStaticBase(get_dyn((CHOOSE s \in p.rel_dyn : s.offset = a).name))
          ELSE IF \E s \in p.rel_plt : s.offset = a
          THEN FromLibrary(file_begin, get_dyn((CHOOSE s \in p.rel_plt : s.offset = a).name))
          ELSE cell[a]
    <2> HIDE DEF a
    <2> QED
      BY <1>2, <1>5 DEF Image, resolve_dyn_relocations
  <1>7. ASSUME r \in p.rel_dyn
        PROVE  Image(p)[a] = FromStaticBase(get_dyn(r.name))
    <2>1. (CHOOSE s \in p.rel_dyn : s.offset = a) = r
      BY <1>5, <1>7 DEF Imports
    <2> QED
      BY <1>6, <1>7, <2>1
  <1>8. ASSUME r \in p.rel_plt
        PROVE  Image(p)[a] = FromLibrary(file_begin, get_dyn(r.name))
    <2>1. (CHOOSE s \in p.rel_plt : s.offset = a) = r
      BY <1>5, <1>8 DEF Imports
    <2>2. ~ \E s \in p.rel_dyn : s.offset = a
      BY <1>1, <1>5, <1>8 DEF Imports, Linked
    <2> QED
      BY <1>6, <1>8, <2>1, <2>2
  <1> QED
    BY <1>2, <1>4, <1>7, <1>8 DEF Desired

-----------------------------------------------------------------------------
(* The table                                                               *)

Table == process = [i \in Slots |-> process[i]]
Used == Slots \ Empty

\* The invariant behind the types: the counter is no less than the entries in
\* use, and the buffer of a process is the one its program was read into.
TypeInv ==
  /\ Table
  /\ TypeOK
  /\ \A i \in Slots : Live(i) =>
       /\ process[i].program \in Programs
       /\ process[i].size = load_pages_to_ram(process[i].program).size
  /\ Cardinality(Used) <= processes_count

\* The places in use can be counted.
LEMMA UsedFinite == IsFiniteSet(Used) /\ Cardinality(Used) \in Nat
  <1>1. IsFiniteSet(Slots)
    BY FS_Interval, ConstantTypes DEF Slots
  <1>2. IsFiniteSet(Used)
    BY <1>1, FS_Subset DEF Used
  <1> QED
    BY <1>2, FS_CardinalityType

\* One entry changes.
LEMMA EntryChanges ==
  ASSUME Table, NEW i \in Slots, NEW e, process' = [process EXCEPT ![i] = e]
  PROVE  /\ Table'
         /\ process'[i] = e
         /\ \A j \in Slots : j # i => process'[j] = process[j]
  BY DEF Table

\* The entry that is taken is one that was blank.
LEMMA EntryTaken ==
  ASSUME Empty # {}
  PROVE  Min(Empty) \in Slots /\ process[Min(Empty)].pstate = "blank"
  <1>1. Empty \in SUBSET Nat
    BY ConstantTypes DEF Empty
  <1>2. Min(Empty) \in Empty
    BY <1>1, Least
  <1> QED
    BY <1>2 DEF Empty

-----------------------------------------------------------------------------
(* Types                                                                   *)

\* The blocks of a page, and those a failed load loses, are of known kinds.
LEMMA KindsOfPage ==
  ASSUME NEW p, NEW failed
  PROVE  /\ PageBlocks(p) \subseteq Kinds /\ LostByLoad(p, failed) \subseteq Kinds
         /\ PageBlocks(p) \cup {"stack"} \subseteq Kinds
         /\ PageBlocks(p) \cup {"stack", "fdtable", "children"} \subseteq Kinds
  BY DEF PageBlocks, LostByLoad, Kinds

\* The counters.
LEMMA CounterTypes ==
  ASSUME TypeOK
  PROVE  /\ processes_count \in 0 .. INITIAL_PROCESS_COUNT + 1
         /\ spawned \in 0 .. MaxSpawns /\ file_begin \in 0 .. MaxMoves
  BY DEF TypeOK

\* The count is not below the places in use.
LEMMA CounterBound ==
  ASSUME TypeInv
  PROVE  TypeOK /\ Cardinality(Used) <= processes_count /\ processes_count \in Nat
  <1>1. TypeOK /\ Cardinality(Used) <= processes_count
    BY DEF TypeInv
  <1>2. processes_count \in 0 .. INITIAL_PROCESS_COUNT + 1
    BY <1>1, CounterTypes
  <1> QED
    BY <1>1, <1>2, ConstantTypes

\* What a system call that returns adds to the heap.
LEMMA ReturnTypes ==
  ASSUME TypeOK, NEW rc \in {"-1", "ENOEXEC", "pid"}, NEW kinds \in SUBSET Kinds,
         spawned < MaxSpawns, spawned' = spawned + 1, Returns(rc, kinds)
  PROVE  /\ heap' \subseteq Blocks /\ spawned' \in 0 .. MaxSpawns
         /\ result' \in {"ok", "pid", "-1", "ENOEXEC"}
         /\ damage' \in {"none", "null", "junk freed"}
  <1>1. spawned' \in 1 .. MaxSpawns /\ spawned' \in 0 .. MaxSpawns
    BY ConstantTypes, CounterTypes
  <1>2. Block(spawned', kinds) \subseteq Blocks
    BY <1>1 DEF Block, Blocks
  <1>3. heap \subseteq Blocks /\ damage \in {"none", "null", "junk freed"}
    BY DEF TypeOK
  <1> QED
    BY <1>1, <1>2, <1>3 DEF Returns

\* A chain of two comparisons.
LEMMA AtMost ==
  ASSUME NEW c \in Nat, NEW m \in Nat, NEW n \in 0 .. INITIAL_PROCESS_COUNT + 1,
         c <= m, m <= n
  PROVE  c <= n
  BY ConstantTypes

\* The table as it was.
LEMMA TypesStay ==
  ASSUME TypeInv, process' = process, processes_count' \in 0 .. INITIAL_PROCESS_COUNT + 1,
         processes_count <= processes_count',
         heap' \subseteq Blocks, file_begin' \in 0 .. MaxMoves, spawned' \in 0 .. MaxSpawns,
         result' \in {"ok", "pid", "-1", "ENOEXEC"}, damage' \in {"none", "null", "junk freed"}
  PROVE  TypeInv'
  <1>1. Used' = Used
    BY DEF Used, Empty
  <1>2. Cardinality(Used') <= processes_count'
    <2>1. Cardinality(Used) <= processes_count /\ processes_count \in Nat
      BY CounterBound
    <2>2. Cardinality(Used) \in Nat
      BY UsedFinite
    <2>3. Cardinality(Used') = Cardinality(Used)
      BY <1>1
    <2>4. Cardinality(Used) <= processes_count'
      BY <2>1, <2>2, AtMost
    <2> QED
      BY <2>3, <2>4
  <1>3. Table'
    BY DEF TypeInv, Table
  <1>4. TypeOK'
    BY DEF TypeInv, TypeOK, Live
  <1>5. (\A i \in Slots : Live(i) =>
           /\ process[i].program \in Programs
           /\ process[i].size = load_pages_to_ram(process[i].program).size)'
    BY DEF TypeInv, Live
  <1> QED
    BY <1>2, <1>3, <1>4, <1>5 DEF TypeInv

\* One entry of it becomes e.
LEMMA TypesChange ==
  ASSUME TypeInv, NEW i \in Slots, NEW e, process' = [process EXCEPT ![i] = e],
         e.pstate \in {"blank", "new", "ready", "terminated"},
         e.pstate = "ready" => e.program \in Programs
                               /\ e.size = load_pages_to_ram(e.program).size,
         processes_count' \in 0 .. INITIAL_PROCESS_COUNT + 1,
         Cardinality(Used') <= processes_count',
         heap' \subseteq Blocks, file_begin' \in 0 .. MaxMoves, spawned' \in 0 .. MaxSpawns,
         result' \in {"ok", "pid", "-1", "ENOEXEC"}, damage' \in {"none", "null", "junk freed"}
  PROVE  TypeInv'
  <1>1. /\ Table'
        /\ process'[i] = e
        /\ \A j \in Slots : j # i => process'[j] = process[j]
    BY EntryChanges DEF TypeInv
  <1>2. ASSUME NEW j \in Slots
        PROVE  /\ process'[j].pstate \in {"blank", "new", "ready", "terminated"}
               /\ Live(j)' => /\ process'[j].program \in Programs
                              /\ process'[j].size = load_pages_to_ram(process'[j].program).size
    <2>1. CASE j = i
      BY <1>1, <2>1 DEF Live
    <2>2. CASE j # i
      BY <1>1, <2>2 DEF TypeInv, TypeOK, Live
    <2> QED
      BY <2>1, <2>2
  <1>3. ASSUME NEW j \in Slots, Live(j)'
        PROVE  \A k \in DOMAIN process'[j].program.segments :
                 process'[j].program.segments[k].paddr + process'[j].program.segments[k].memsz
                   <= process'[j].size
    <2>1. process'[j].program \in Programs
      BY <1>2, <1>3
    <2> DEFINE p == process'[j].program
    <2> HIDE DEF p
    <2>2. p \in Programs /\ process'[j].size = load_pages_to_ram(p).size
      BY <1>2, <1>3, <2>1 DEF p
    <2>3. \A k \in DOMAIN p.segments :
            p.segments[k].paddr + p.segments[k].memsz <= process'[j].size
      BY <2>2, ImageHolds
    <2> QED
      BY <2>3 DEF p
  <1>4. TypeOK'
    BY <1>2, <1>3 DEF TypeOK
  <1> QED
    BY <1>1, <1>2, <1>4 DEF TypeInv

\* spawn takes an entry, and counts it.
LEMMA TypesPlaced ==
  ASSUME TypeInv, NEW p \in Programs, NEW failed \in Allocations, spawned < MaxSpawns,
         spawned' = spawned + 1, file_begin' = file_begin, spawn_placed(p, failed)
  PROVE  TypeInv'
  <1> DEFINE i == Min(Empty)
  <1>1. i \in Slots /\ process[i].pstate = "blank"
    BY EntryTaken DEF spawn_placed
  <1> DEFINE short == failed \in {"fdtable", "children"}
             e == IF short THEN [pstate |-> "new"] ELSE NewProcess(p)
  <1>2. process' = [process EXCEPT ![i] = e] /\ processes_count' = processes_count + 1
    BY DEF spawn_placed
  <1>3. /\ e.pstate \in {"blank", "new", "ready", "terminated"}
        /\ e.pstate = "ready" => e.program \in Programs
                                 /\ e.size = load_pages_to_ram(e.program).size
    BY DEF NewProcess
  <1>4. processes_count' \in 0 .. INITIAL_PROCESS_COUNT + 1
    <2>1. scheduler_can_populate_process
      BY DEF spawn_placed
    <2> HIDE DEF e
    <2> QED
      BY <1>2, <2>1, ConstantTypes, CounterBound DEF scheduler_can_populate_process
  <1>5. /\ heap' \subseteq Blocks /\ spawned' \in 0 .. MaxSpawns
        /\ result' \in {"ok", "pid", "-1", "ENOEXEC"}
        /\ damage' \in {"none", "null", "junk freed"}
    <2>1. \E rc \in {"-1", "pid"}, kinds \in SUBSET Kinds : Returns(rc, kinds)
      BY KindsOfPage DEF spawn_placed
    <2> QED
      BY <2>1, ReturnTypes DEF TypeInv
  <1> HIDE DEF e, i
  <1>6. Cardinality(Used') <= processes_count'
    <2>1. process'[i] = e /\ \A j \in Slots : j # i => process'[j] = process[j]
      BY <1>1, <1>2, EntryChanges DEF TypeInv
    <2>2. Used' \subseteq Used \cup {i}
      BY <2>1 DEF Used, Empty
    <2>3. i \notin Used
      BY <1>1 DEF Used, Empty
    <2>4. Cardinality(Used \cup {i}) = Cardinality(Used) + 1 /\ IsFiniteSet(Used \cup {i})
      BY <2>3, UsedFinite, FS_AddElement
    <2>5. Cardinality(Used') <= Cardinality(Used \cup {i}) /\ Cardinality(Used') \in Nat
      BY <2>2, <2>4, FS_Subset, FS_CardinalityType
    <2>6. Cardinality(Used) <= processes_count /\ processes_count \in Nat
      BY CounterBound
    <2> QED
      BY <1>2, <2>4, <2>5, <2>6, UsedFinite
  <1>7. file_begin' \in 0 .. MaxMoves
    BY DEF TypeInv, TypeOK
  <1> QED
    BY <1>1, <1>2, <1>3, <1>4, <1>5, <1>6, <1>7, TypesChange

\* A spawn keeps the types.
LEMMA TypesSpawn ==
  ASSUME TypeInv, NEW p \in Programs, NEW failed \in Allocations,
         sys_spawn_process(p, failed)
  PROVE  TypeInv'
  <1>1. spawned < MaxSpawns /\ spawned' = spawned + 1 /\ file_begin' = file_begin
    BY DEF sys_spawn_process
  <1>2. /\ processes_count \in 0 .. INITIAL_PROCESS_COUNT + 1 /\ TypeOK
        /\ spawned' \in 0 .. MaxSpawns /\ file_begin' \in 0 .. MaxMoves
    BY <1>1, ConstantTypes, CounterTypes, CounterBound
  <1>3. CASE spawn_rejected(p, failed)
    <2>1. process' = process /\ processes_count' = processes_count
      BY <1>3 DEF spawn_rejected
    <2>2. \E rc \in {"-1", "ENOEXEC"}, kinds \in SUBSET Kinds : Returns(rc, kinds)
      BY <1>3, KindsOfPage DEF spawn_rejected
    <2>3. /\ heap' \subseteq Blocks
          /\ result' \in {"ok", "pid", "-1", "ENOEXEC"}
          /\ damage' \in {"none", "null", "junk freed"}
      BY <1>1, <1>2, <2>2, ReturnTypes
    <2>4. processes_count <= processes_count'
      BY <1>2, <2>1, ConstantTypes
    <2> QED
      BY <1>2, <2>1, <2>3, <2>4, TypesStay
  <1>4. CASE spawn_undefined(p, failed)
    <2>1. /\ process' = process /\ processes_count' = processes_count
          /\ heap' = heap /\ result' = result /\ damage' = "null"
      BY <1>4 DEF spawn_undefined
    <2>2. processes_count <= processes_count'
      BY <1>2, <2>1, ConstantTypes
    <2>3. heap' \subseteq Blocks /\ result' \in {"ok", "pid", "-1", "ENOEXEC"}
      BY <1>2, <2>1 DEF TypeOK
    <2> QED
      BY <1>2, <2>1, <2>2, <2>3, TypesStay
  <1>5. CASE spawn_refused(p, failed)
    <2>1. /\ process' = process
          /\ \/ processes_count' = processes_count
             \/ scheduler_can_populate_process /\ processes_count' = processes_count + 1
      BY <1>5 DEF spawn_refused
    <2>2. \E rc \in {"-1", "ENOEXEC"}, kinds \in SUBSET Kinds : Returns(rc, kinds)
      BY <1>5, KindsOfPage DEF spawn_refused
    <2>3. /\ heap' \subseteq Blocks
          /\ result' \in {"ok", "pid", "-1", "ENOEXEC"}
          /\ damage' \in {"none", "null", "junk freed"}
      BY <1>1, <1>2, <2>2, ReturnTypes
    <2>4. /\ processes_count <= processes_count'
          /\ processes_count' \in 0 .. INITIAL_PROCESS_COUNT + 1
      BY <1>2, <2>1, ConstantTypes DEF scheduler_can_populate_process
    <2> QED
      BY <1>2, <2>1, <2>3, <2>4, TypesStay
  <1>6. CASE spawn_placed(p, failed)
    BY <1>1, <1>6, TypesPlaced
  <1> QED
    BY <1>3, <1>4, <1>5, <1>6 DEF sys_spawn_process

\* An exit keeps them.
LEMMA TypesKill ==
  ASSUME TypeInv, NEW i \in Slots, sys_kill(i)
  PROVE  TypeInv'
  <1>1. /\ processes_count' = processes_count /\ file_begin' = file_begin
        /\ spawned' = spawned
    BY DEF sys_kill
  <1>2. /\ processes_count' \in 0 .. INITIAL_PROCESS_COUNT + 1
        /\ spawned' \in 0 .. MaxSpawns /\ file_begin' \in 0 .. MaxMoves
        /\ processes_count <= processes_count' /\ Cardinality(Used) <= processes_count'
    BY <1>1, CounterTypes, CounterBound
  <1>3. heap \subseteq Blocks /\ result \in {"ok", "pid", "-1", "ENOEXEC"}
        /\ damage \in {"none", "null", "junk freed"}
    BY DEF TypeInv, TypeOK
  <1>4. CASE process[i].static_base = "junk"
    <2>1. /\ process' = process /\ heap' = heap /\ result' = result
          /\ damage' = "junk freed"
      BY <1>4 DEF sys_kill
    <2> QED
      BY <1>2, <1>3, <2>1, TypesStay
  <1>5. CASE process[i].static_base # "junk"
    <2> DEFINE e == [pstate |-> "terminated"]
    <2>1. /\ process' = [process EXCEPT ![i] = e] /\ heap' \subseteq heap
          /\ result' = "ok" /\ damage' = damage
      BY <1>5 DEF sys_kill
    <2>2. e.pstate = "terminated"
      OBVIOUS
    <2> HIDE DEF e
    <2>3. Used' = Used
      <3>1. process'[i] = e /\ \A j \in Slots : j # i => process'[j] = process[j]
        BY <2>1, EntryChanges DEF TypeInv
      <3> QED
        BY <2>2, <3>1 DEF sys_kill, Live, Used, Empty
    <2>4. Cardinality(Used') <= processes_count'
      BY <1>2, <2>3
    <2> QED
      BY <1>2, <1>3, <2>1, <2>2, <2>4, TypesChange
  <1> QED
    BY <1>4, <1>5

\* A wait keeps them.
LEMMA TypesWait ==
  ASSUME TypeInv, NEW i \in Slots, sys_wait(i)
  PROVE  TypeInv'
  <1>1. /\ process' = [process EXCEPT ![i] = Blank] /\ process[i].pstate = "terminated"
        /\ processes_count' = processes_count - 1 /\ result' = "ok"
        /\ heap' = heap /\ file_begin' = file_begin /\ spawned' = spawned
        /\ damage' = damage
    BY DEF sys_wait
  <1>2. spawned' \in 0 .. MaxSpawns /\ file_begin' \in 0 .. MaxMoves
    BY <1>1, CounterTypes, CounterBound
  <1>3. heap' \subseteq Blocks /\ damage' \in {"none", "null", "junk freed"}
    BY <1>1 DEF TypeInv, TypeOK
  <1>4. process'[i] = Blank /\ \A j \in Slots : j # i => process'[j] = process[j]
    BY <1>1, EntryChanges DEF TypeInv
  <1>5. i \in Used /\ Used' = Used \ {i}
    BY <1>1, <1>4 DEF Used, Empty, Blank
  <1>6. Cardinality(Used') = Cardinality(Used) - 1 /\ Cardinality(Used') \in Nat
    <2>1. IsFiniteSet(Used \ {i}) /\ Cardinality(Used \ {i}) = Cardinality(Used) - 1
      BY <1>5, UsedFinite, FS_RemoveElement
    <2>2. Cardinality(Used \ {i}) \in Nat
      BY <2>1, FS_CardinalityType
    <2> QED
      BY <1>5, <2>1, <2>2
  <1>7. /\ Cardinality(Used') <= processes_count'
        /\ processes_count' \in 0 .. INITIAL_PROCESS_COUNT + 1
    <2>1. /\ Cardinality(Used) <= processes_count
          /\ processes_count \in 0 .. INITIAL_PROCESS_COUNT + 1
      BY CounterBound, CounterTypes
    <2>2. processes_count' = processes_count - 1
      BY <1>1
    <2> QED
      BY <1>6, <2>1, <2>2, UsedFinite, ConstantTypes
  <1> QED
    BY <1>1, <1>2, <1>3, <1>7, TypesChange DEF Blank

\* A move of the library keeps them.
LEMMA TypesWrite ==
  ASSUME TypeInv, ramfs_write
  PROVE  TypeInv'
  <1>1. /\ file_begin < MaxMoves /\ file_begin' = file_begin + 1 /\ result' = "ok"
        /\ process' = process /\ processes_count' = processes_count /\ heap' = heap
        /\ spawned' = spawned /\ damage' = damage
    BY DEF ramfs_write
  <1>2. /\ processes_count' \in 0 .. INITIAL_PROCESS_COUNT + 1
        /\ spawned' \in 0 .. MaxSpawns /\ processes_count <= processes_count'
    BY <1>1, CounterTypes, CounterBound
  <1>3. file_begin' \in 0 .. MaxMoves
    BY <1>1, CounterTypes, CounterBound, ConstantTypes
  <1>4. heap' \subseteq Blocks /\ damage' \in {"none", "null", "junk freed"}
    BY <1>1 DEF TypeInv, TypeOK
  <1> QED
    BY <1>1, <1>2, <1>3, <1>4, TypesStay

\* Types, for every set of executables, kept rules or not: spawn, kill and wait keep
\* the counter of processes within the table and one more, and the buffer of an image
\* ends behind its last segment (load_pages_to_ram).
THEOREM TypeCorrect == Spec => []TypeOK
  <1>1. Init => TypeInv
    <2> SUFFICES ASSUME Init PROVE TypeInv
      OBVIOUS
    <2>1. /\ process = [i \in Slots |-> Blank] /\ processes_count = 0 /\ heap = {}
          /\ file_begin = 0 /\ spawned = 0 /\ result = "ok" /\ damage = "none"
      BY DEF Init
    <2>2. \A i \in Slots : process[i].pstate = "blank"
      BY <2>1 DEF Blank
    <2>3. Used = {} /\ \A i \in Slots : ~Live(i)
      BY <2>2 DEF Used, Empty, Live
    <2>4. Cardinality(Used) <= processes_count
      BY <2>1, <2>3, FS_EmptySet
    <2>5. 0 \in 0 .. INITIAL_PROCESS_COUNT + 1 /\ 0 \in 0 .. MaxMoves /\ 0 \in 0 .. MaxSpawns
      BY ConstantTypes
    <2>6. Table
      BY <2>1 DEF Table
    <2>7. TypeOK
      BY <2>1, <2>2, <2>3, <2>5 DEF TypeOK
    <2> QED
      BY <2>3, <2>4, <2>6, <2>7 DEF TypeInv
  <1>2. TypeInv /\ [Next]_vars => TypeInv'
    <2> SUFFICES ASSUME TypeInv, [Next]_vars PROVE TypeInv'
      OBVIOUS
    <2>1. CASE UNCHANGED vars
      <3>1. /\ process' = process /\ processes_count' = processes_count /\ heap' = heap
            /\ file_begin' = file_begin /\ spawned' = spawned /\ result' = result
            /\ damage' = damage
        BY <2>1 DEF vars
      <3> QED
        BY <3>1 DEF TypeInv, TypeOK, Table, Live, Used, Empty
    <2>2. ASSUME NEW p \in Programs, NEW failed \in Allocations, sys_spawn_process(p, failed)
          PROVE  TypeInv'
      BY <2>2, TypesSpawn
    <2>3. ASSUME NEW i \in Slots, sys_kill(i)
          PROVE  TypeInv'
      BY <2>3, TypesKill
    <2>4. ASSUME NEW i \in Slots, sys_wait(i)
          PROVE  TypeInv'
      BY <2>4, TypesWait
    <2>5. CASE ramfs_write
      BY <2>5, TypesWrite
    <2> QED
      BY <2>1, <2>2, <2>3, <2>4, <2>5 DEF Next
  <1>3. TypeInv => TypeOK
    BY DEF TypeInv
  <1> QED
    BY <1>1, <1>2, <1>3, PTL DEF Spec

-----------------------------------------------------------------------------
(* Memory that is left behind                                              *)

\* A block with an owner belongs to a process that lives.
LEMMA OwnedBy ==
  ASSUME NEW x
  PROVE  x \in Owned <=> \E i \in Slots : Live(i) /\ x \in BlocksOf(i)
  BY DEF Owned

\* A step that leaves the table and the heap.
LEMMA OwnedStays ==
  ASSUME process' = process, heap' = heap
  PROVE  Unreachable' = Unreachable
  BY DEF Unreachable, Owned, BlocksOf, Live

\* What a spawn that returns a process allocates is all the process's.
LEMMA PlacedOwned ==
  ASSUME Table, NEW p \in Programs, NEW failed \in Allocations,
         failed \notin {"fdtable", "children"}, spawned' = spawned + 1,
         spawn_placed(p, failed)
  PROVE  Unreachable' \subseteq Unreachable
  <1> DEFINE e == NewProcess(p)
             new == Block(spawned', PageBlocks(p) \cup {"stack", "fdtable", "children"})
  <1>1. PICK i \in Slots : i = Min(Empty) /\ process[i].pstate = "blank"
    BY EntryTaken DEF spawn_placed
  <1>2. process' = [process EXCEPT ![i] = e] /\ heap' = heap \cup new
    BY <1>1 DEF spawn_placed, Returns
  <1>3. e.pstate = "ready" /\ e.spawn = spawned' /\ e.program = p
    BY DEF NewProcess
  <1> HIDE DEF e
  <1>4. process'[i] = e /\ \A j \in Slots : j # i => process'[j] = process[j]
    BY <1>1, <1>2, EntryChanges
  <1>5. Live(i)' /\ BlocksOf(i)' = new
    BY <1>3, <1>4 DEF Live, BlocksOf
  <1>6. ASSUME NEW j \in Slots, Live(j)
        PROVE  Live(j)' /\ BlocksOf(j)' = BlocksOf(j)
    <2>1. j # i
      BY <1>1, <1>6 DEF Live
    <2> QED
      BY <1>4, <1>6, <2>1 DEF Live, BlocksOf
  <1> HIDE DEF new
  <1>7. ASSUME NEW x \in heap', x \notin Owned'
        PROVE  x \in heap /\ x \notin Owned
    <2>1. \A j \in Slots : Live(j)' => x \notin BlocksOf(j)'
      BY <1>7 DEF Owned
    <2>2. x \notin new
      BY <1>1, <1>5, <2>1
    <2>3. x \notin Owned
      BY <1>6, <2>1, OwnedBy
    <2> QED
      BY <1>2, <1>7, <2>2, <2>3
  <1> QED
    BY <1>7 DEF Unreachable

\* What a process that ends has is all freed.
LEMMA KillOwned ==
  ASSUME Table, NEW i \in Slots, sys_kill(i)
  PROVE  Unreachable' \subseteq Unreachable
  <1>1. CASE process[i].static_base = "junk"
    BY <1>1, OwnedStays DEF sys_kill
  <1>2. CASE process[i].static_base # "junk"
    <2> DEFINE e == [pstate |-> "terminated"]
    <2>1. /\ process' = [process EXCEPT ![i] = e]
          /\ heap' = heap \ Block(process[i].spawn, Kinds)
      BY <1>2 DEF sys_kill, Released
    <2>2. process'[i] = e /\ \A j \in Slots : j # i => process'[j] = process[j]
      BY <2>1, EntryChanges
    <2>3. BlocksOf(i) \subseteq Block(process[i].spawn, Kinds)
      BY KindsOfPage DEF BlocksOf, Block
    <2>4. ASSUME NEW j \in Slots, Live(j), j # i
          PROVE  Live(j)' /\ BlocksOf(j)' = BlocksOf(j)
      BY <2>2, <2>4 DEF Live, BlocksOf
    <2>5. ASSUME NEW x \in heap', x \notin Owned'
          PROVE  x \in heap /\ x \notin Owned
      <3>1. \A j \in Slots : Live(j)' => x \notin BlocksOf(j)'
        BY <2>5 DEF Owned
      <3>2. x \in heap /\ x \notin BlocksOf(i)
        BY <2>1, <2>3, <2>5
      <3> QED
        BY <2>4, <3>1, <3>2, OwnedBy
    <2> QED
      BY <2>5 DEF Unreachable
  <1> QED
    BY <1>1, <1>2

\* A wait loses no block.
LEMMA WaitOwned ==
  ASSUME Table, NEW i \in Slots, sys_wait(i)
  PROVE  Unreachable' \subseteq Unreachable
  <1>1. /\ process' = [process EXCEPT ![i] = Blank] /\ heap' = heap
        /\ process[i].pstate = "terminated"
    BY DEF sys_wait
  <1>2. \A j \in Slots : j # i => process'[j] = process[j]
    BY <1>1, EntryChanges
  <1>3. ASSUME NEW j \in Slots, Live(j)
        PROVE  Live(j)' /\ BlocksOf(j)' = BlocksOf(j)
    BY <1>1, <1>2, <1>3 DEF Live, BlocksOf
  <1>4. Owned \subseteq Owned'
    <2>1. ASSUME NEW x \in Owned
          PROVE  x \in Owned'
      <3>1. PICK j \in Slots : Live(j) /\ x \in BlocksOf(j)
        BY <2>1, OwnedBy
      <3> QED
        BY <1>3, <3>1 DEF Owned
    <2> QED
      BY <2>1
  <1> QED
    BY <1>1, <1>4 DEF Unreachable

\* A spawn loses blocks only when it fails half-way, after the page was made.
LEMMA SpawnOwned ==
  ASSUME Table, NEW p \in Programs, NEW failed \in Allocations,
         sys_spawn_process(p, failed)
  PROVE  \/ Unreachable' \subseteq Unreachable
         \/ /\ result' \in {"ENOEXEC", "-1"}
            /\ failed # "executable" /\ ~NotExecutable(p)
  <1>1. Block(spawned', {}) = {} /\ spawned' = spawned + 1
    BY DEF Block, sys_spawn_process
  <1>2. CASE spawn_rejected(p, failed)
    <2>1. CASE failed = "executable" \/ NotExecutable(p)
      <3>1. process' = process /\ heap' = heap
        BY <1>1, <1>2, <2>1 DEF spawn_rejected, Returns, Loads
      <3> QED
        BY <3>1, OwnedStays
    <2>2. CASE failed # "executable" /\ ~NotExecutable(p)
      BY <1>2, <2>2 DEF spawn_rejected, Returns
    <2> QED
      BY <2>1, <2>2
  <1>3. CASE spawn_undefined(p, failed)
    BY <1>3, OwnedStays DEF spawn_undefined
  <1>4. CASE spawn_refused(p, failed)
    BY <1>4 DEF spawn_refused, Loads, Returns
  <1>5. CASE spawn_placed(p, failed)
    <2>1. CASE failed \in {"fdtable", "children"}
      BY <1>5, <2>1 DEF spawn_placed, Loads, Returns
    <2>2. CASE failed \notin {"fdtable", "children"}
      BY <1>1, <1>5, <2>2, PlacedOwned
    <2> QED
      BY <2>1, <2>2
  <1> QED
    BY <1>2, <1>3, <1>4, <1>5 DEF sys_spawn_process

\* For every set of executables, kept rules or not: memory that no process owns is
\* left behind only by a spawn that fails after its file was found to be executable
\* (load_exec, create_blank_process); what a process has, sys_kill frees.
THEOREM LostCorrect == Spec => LostByFailedSpawnOnly
  <1>1. Init => Table
    BY DEF Init, Table
  <1> DEFINE Step ==
        \/ Unreachable' \subseteq Unreachable
        \/ /\ result' \in {"ENOEXEC", "-1"}
           /\ \E p \in Programs, failed \in Allocations \ {"executable"} :
                ~NotExecutable(p) /\ sys_spawn_process(p, failed)
  <1>2. Table /\ [Next]_vars => Table' /\ [Step]_vars
    <2> SUFFICES ASSUME Table, [Next]_vars PROVE Table' /\ (Step \/ UNCHANGED vars)
      OBVIOUS
    <2>1. CASE UNCHANGED vars
      BY <2>1 DEF vars, Table
    <2>2. ASSUME NEW p \in Programs, NEW failed \in Allocations, sys_spawn_process(p, failed)
          PROVE  Table' /\ Step
      <3>1. Table'
        <4>1. CASE process' = process
          BY <4>1 DEF Table
        <4>2. CASE spawn_placed(p, failed)
          <5>1. PICK e : process' = [process EXCEPT ![Min(Empty)] = e]
            BY <4>2 DEF spawn_placed
          <5>2. Min(Empty) \in Slots
            BY <4>2, EntryTaken DEF spawn_placed
          <5> QED
            BY <5>1, <5>2, EntryChanges
        <4> QED
          BY <2>2, <4>1, <4>2 DEF sys_spawn_process, spawn_rejected, spawn_undefined, spawn_refused
      <3>2. \/ Unreachable' \subseteq Unreachable
            \/ /\ result' \in {"ENOEXEC", "-1"}
               /\ failed \in Allocations \ {"executable"} /\ ~NotExecutable(p)
        BY <2>2, SpawnOwned
      <3> QED
        BY <2>2, <3>1, <3>2
    <2>3. ASSUME NEW i \in Slots, sys_kill(i)
          PROVE  Table' /\ Step
      <3>1. Unreachable' \subseteq Unreachable
        BY <2>3, KillOwned
      <3>2. process' = process \/ process' = [process EXCEPT ![i] = [pstate |-> "terminated"]]
        BY <2>3 DEF sys_kill
      <3>3. Table'
        BY <3>2 DEF Table
      <3> QED
        BY <3>1, <3>3
    <2>4. ASSUME NEW i \in Slots, sys_wait(i)
          PROVE  Table' /\ Step
      <3>1. Unreachable' \subseteq Unreachable
        BY <2>4, WaitOwned
      <3>2. Table'
        BY <2>4, EntryChanges DEF sys_wait
      <3> QED
        BY <3>1, <3>2
    <2>5. CASE ramfs_write
      <3>1. process' = process /\ heap' = heap
        BY <2>5 DEF ramfs_write
      <3> QED
        BY <3>1, OwnedStays DEF Table
    <2> HIDE DEF Step
    <2> QED
      BY <2>1, <2>2, <2>3, <2>4, <2>5 DEF Next
  <1>3. [Step]_vars => [\/ Unreachable' \subseteq Unreachable
                        \/ /\ result' \in {"ENOEXEC", "-1"}
                           /\ \E p \in Programs, failed \in Allocations \ {"executable"} :
                                ~NotExecutable(p) /\ sys_spawn_process(p, failed)]_vars
    OBVIOUS
  <1> QED
    BY <1>1, <1>2, <1>3, PTL DEF Spec, LostByFailedSpawnOnly

-----------------------------------------------------------------------------
(* Programs as they were linked                                            *)

\* What is known of the process at i: its image and its blocks, which nothing but
\* its end touches.
Loaded(i) ==
  LET p == process[i].program
  IN  /\ Proper(p)
      /\ process[i].cell = Image(p) /\ process[i].static_base = StaticBase(p)
      /\ process[i].spawn \in 1 .. spawned
      /\ BlocksOf(i) \subseteq heap

\* The invariant behind LoadedAsLinked: no two processes are of one spawn, so that
\* the end of one frees nothing of the other.
LoadInv ==
  /\ Table /\ spawned \in Nat /\ damage = "none"
  /\ \A i \in Slots : Live(i) => Loaded(i)
  /\ \A i, j \in Slots : Live(i) /\ Live(j) /\ i # j => process[i].spawn # process[j].spawn

\* The invariant says that what runs is what was linked.
LEMMA LoadInvHolds ==
  ASSUME LoadInv, Rules = AllRules
  PROVE  LoadedAsLinked
  <1> DEFINE ValueOf(name) ==
               {Library.dynsym[k].value : k \in {e \in Entries : Library.dynsym[e].name = name}}
  <1>1. ASSUME NEW i \in Slots, Live(i)
        PROVE  LET p == process[i].program
                   cell == process[i].cell
               IN  /\ BlocksOf(i) \subseteq heap
                   /\ \A k \in DOMAIN p.segments : \A a \in Cells :
                        Covers(p.segments[k], a) /\ (\A r \in Imports(p) : r.offset # a) =>
                          cell[a] = IF a - p.segments[k].paddr < p.segments[k].filesz
                                    THEN Byte(k, a - p.segments[k].paddr) ELSE Zero
                   /\ \A r \in p.rel_plt : \E v \in ValueOf(r.name) :
                        cell[r.offset] = FromLibrary(file_begin, v)
                   /\ \A r \in p.rel_dyn : \E v \in ValueOf(r.name) :
                        cell[r.offset] = FromStaticBase(v)
                   /\ Imports(p) # {} => process[i].static_base = "static base"
    <2> DEFINE p == process[i].program
               cell == process[i].cell
    <2>1. /\ BlocksOf(i) \subseteq heap /\ Proper(p) /\ cell = Image(p)
          /\ process[i].static_base = StaticBase(p)
      BY <1>1 DEF LoadInv, Loaded
    <2> HIDE DEF p, cell
    <2>2. \A k \in DOMAIN p.segments : \A a \in Cells :
            Covers(p.segments[k], a) /\ (\A r \in Imports(p) : r.offset # a) =>
              cell[a] = IF a - p.segments[k].paddr < p.segments[k].filesz
                        THEN Byte(k, a - p.segments[k].paddr) ELSE Zero
      BY <2>1, SegmentsLoaded
    <2>3. ASSUME NEW r \in Imports(p)
          PROVE  /\ Links(p)
                 /\ \E e \in Entries :
                      /\ Library.dynsym[e].name = r.name
                      /\ r \in p.rel_plt =>
                           cell[r.offset] = FromLibrary(file_begin, Library.dynsym[e].value)
                      /\ r \in p.rel_dyn =>
                           cell[r.offset] = FromStaticBase(Library.dynsym[e].value)
      BY <2>1, ImportsResolved
    <2>4. ASSUME NEW r \in p.rel_plt
          PROVE  \E v \in ValueOf(r.name) : cell[r.offset] = FromLibrary(file_begin, v)
      BY <2>3 DEF Imports
    <2>5. ASSUME NEW r \in p.rel_dyn
          PROVE  \E v \in ValueOf(r.name) : cell[r.offset] = FromStaticBase(v)
      BY <2>3 DEF Imports
    <2>6. Imports(p) # {} => process[i].static_base = "static base"
      BY <2>1, <2>3 DEF StaticBase
    <2> QED
      BY <2>1, <2>2, <2>4, <2>5, <2>6 DEF p, cell
  <1>2. damage = "none"
    BY DEF LoadInv
  <1> QED
    BY <1>1, <1>2 DEF LoadedAsLinked

\* A spawn that keeps the rules follows no null, and what it loads is proper.
LEMMA SpawnPermitted ==
  ASSUME Rules = AllRules, NEW p \in Programs, NEW failed \in Allocations,
         Permitted(p, failed), ~NotExecutable(p)
  PROVE  Proper(p) /\ ~FollowsNull(p, failed)
  <1>1. Keeps("memory for the image") /\ Keeps("one library")
    BY DEF Keeps, AllRules
  <1>2. Permitted(p, "none")
    BY DEF Permitted
  <1>3. failed \notin {"image", "extension", "page"}
    BY <1>1 DEF Permitted
  <1>4. retrieve_dynlib_name(p).status = "OK" /\ ~LibraryMissing(p)
    BY <1>1 DEF Permitted
  <1>5. p.dynamic # <<>>
    <2>1. HasStrtab(p)
      BY <1>4 DEF retrieve_dynlib_name
    <2>2. PICK i \in DOMAIN p.dynamic : p.dynamic[i].tag = "STRTAB"
      BY <2>1 DEF HasStrtab
    <2>3. DOMAIN <<>> = {}
      OBVIOUS
    <2> QED
      BY <2>2, <2>3
  <1> QED
    BY <1>2, <1>3, <1>4, <1>5 DEF Proper, FollowsNull

\* The table, the library and the damage as they were, the heap not smaller.
LEMMA LoadStays ==
  ASSUME LoadInv, process' = process, file_begin' = file_begin, damage' = damage,
         heap \subseteq heap', spawned' \in Nat, spawned <= spawned'
  PROVE  LoadInv'
  <1>1. ASSUME NEW i \in Slots, Live(i)'
        PROVE  Loaded(i)'
    <2>1. Loaded(i)
      BY <1>1 DEF LoadInv, Live
    <2>2. process'[i].spawn \in 1 .. spawned'
      <3>1. process[i].spawn \in 1 .. spawned
        BY <2>1 DEF Loaded
      <3> QED
        BY <3>1 DEF LoadInv
    <2>3. Image(process[i].program)' = Image(process[i].program)
      BY DEF Image, resolve_dyn_relocations
    <2> QED
      BY <2>1, <2>2, <2>3 DEF Loaded, BlocksOf
  <1> QED
    BY <1>1 DEF LoadInv, Table, Live

\* An entry becomes one that is not a process, and the heap loses nothing of others.
LEMMA LoadEnds ==
  ASSUME LoadInv, NEW i \in Slots, NEW e, process' = [process EXCEPT ![i] = e],
         e.pstate # "ready", file_begin' = file_begin, damage' = damage,
         spawned' \in Nat, spawned <= spawned',
         \A j \in Slots : j # i /\ Live(j) => BlocksOf(j) \subseteq heap'
  PROVE  LoadInv'
  <1>1. /\ Table'
        /\ process'[i] = e
        /\ \A j \in Slots : j # i => process'[j] = process[j]
    BY EntryChanges DEF LoadInv
  <1>2. ASSUME NEW j \in Slots, Live(j)'
        PROVE  j # i /\ process'[j] = process[j] /\ Live(j)
    BY <1>1, <1>2 DEF Live
  <1>3. ASSUME NEW j \in Slots, Live(j)'
        PROVE  Loaded(j)'
    <2>1. Loaded(j) /\ process'[j] = process[j] /\ BlocksOf(j) \subseteq heap'
      BY <1>2, <1>3 DEF LoadInv
    <2>2. process[j].spawn \in 1 .. spawned'
      <3>1. process[j].spawn \in 1 .. spawned
        BY <2>1 DEF Loaded
      <3> QED
        BY <3>1 DEF LoadInv
    <2> DEFINE p == process[j].program
    <2>3. PICK q : q = p
      OBVIOUS
    <2>4. Image(q)' = Image(q)
      BY DEF Image, resolve_dyn_relocations
    <2>5. /\ Proper(q) /\ process[j].cell = Image(q) /\ process[j].static_base = StaticBase(q)
      BY <2>1, <2>3 DEF Loaded
    <2>6. BlocksOf(j)' \subseteq heap'
      BY <2>1 DEF BlocksOf
    <2> QED
      BY <2>1, <2>2, <2>3, <2>4, <2>5, <2>6 DEF Loaded
  <1>4. ASSUME NEW j \in Slots, NEW k \in Slots, Live(j)', Live(k)', j # k
        PROVE  process'[j].spawn # process'[k].spawn
    BY <1>2, <1>4 DEF LoadInv
  <1> QED
    BY <1>1, <1>3, <1>4 DEF LoadInv

\* A spawn gives a process its image and its blocks, and a number of its own.
LEMMA LoadPlaced ==
  ASSUME LoadInv, NEW p, Proper(p), NEW failed \in Allocations,
         failed \notin {"fdtable", "children"}, spawned' = spawned + 1,
         file_begin' = file_begin, spawn_placed(p, failed)
  PROVE  LoadInv'
  <1> DEFINE e == NewProcess(p)
             new == Block(spawned', PageBlocks(p) \cup {"stack", "fdtable", "children"})
  <1>1. PICK i \in Slots : i = Min(Empty) /\ process[i].pstate = "blank"
    BY EntryTaken DEF spawn_placed
  <1>2. /\ process' = [process EXCEPT ![i] = e] /\ heap' = heap \cup new
        /\ damage' = damage
    BY <1>1 DEF spawn_placed, Returns
  <1>3. /\ e.pstate = "ready" /\ e.spawn = spawned' /\ e.program = p
        /\ e.cell = Image(p) /\ e.static_base = StaticBase(p)
    BY DEF NewProcess
  <1> HIDE DEF e
  <1>4. /\ Table'
        /\ process'[i] = e
        /\ \A j \in Slots : j # i => process'[j] = process[j]
    BY <1>1, <1>2, EntryChanges DEF LoadInv
  <1>5. spawned' \in Nat /\ spawned' \in 1 .. spawned' /\ ~(spawned' \in 1 .. spawned)
    BY DEF LoadInv
  <1>6. ASSUME NEW q
        PROVE  Image(q)' = Image(q)
    BY DEF Image, resolve_dyn_relocations
  <1>7. Loaded(i)'
    <2>1. BlocksOf(i)' \subseteq heap'
      BY <1>2, <1>3, <1>4 DEF BlocksOf
    <2> QED
      BY <1>3, <1>4, <1>5, <1>6, <2>1 DEF Loaded
  <1>8. ASSUME NEW j \in Slots, j # i, Live(j)'
        PROVE  Loaded(j)' /\ Live(j) /\ process'[j].spawn # spawned'
    <2>1. process'[j] = process[j] /\ Live(j)
      BY <1>4, <1>8 DEF Live
    <2>2. Loaded(j)
      BY <2>1 DEF LoadInv
    <2>3. process[j].spawn \in 1 .. spawned
      BY <2>2 DEF Loaded
    <2>4. process[j].spawn \in 1 .. spawned' /\ process[j].spawn # spawned'
      BY <1>5, <2>3 DEF LoadInv
    <2>5. BlocksOf(j)' \subseteq heap'
      BY <1>2, <2>1, <2>2 DEF BlocksOf, Loaded
    <2>6. PICK q : q = process[j].program
      OBVIOUS
    <2>7. Proper(q) /\ process[j].cell = Image(q) /\ process[j].static_base = StaticBase(q)
      BY <2>2, <2>6 DEF Loaded
    <2> QED
      BY <1>6, <2>1, <2>4, <2>5, <2>6, <2>7 DEF Loaded
  <1>9. process'[i].spawn = spawned'
    BY <1>3, <1>4
  <1>10. ASSUME NEW j \in Slots, NEW k \in Slots, Live(j)', Live(k)', j # k
         PROVE  process'[j].spawn # process'[k].spawn
    <2>1. CASE j = i
      BY <1>8, <1>9, <1>10, <2>1
    <2>2. CASE k = i
      BY <1>8, <1>9, <1>10, <2>2
    <2>3. CASE j # i /\ k # i
      BY <1>4, <1>8, <1>10, <2>3 DEF LoadInv
    <2> QED
      BY <2>1, <2>2, <2>3
  <1>11. damage' = "none"
    BY <1>2 DEF LoadInv
  <1> QED
    BY <1>4, <1>5, <1>7, <1>8, <1>10, <1>11 DEF LoadInv

\* A spawn keeps it.
LEMMA LoadSpawn ==
  ASSUME LoadInv, Rules = AllRules, NEW p \in Programs, NEW failed \in Allocations,
         sys_spawn_process(p, failed)
  PROVE  LoadInv'
  <1>1. /\ spawned' = spawned + 1 /\ file_begin' = file_begin /\ Permitted(p, failed)
        /\ spawned' \in Nat /\ spawned <= spawned'
    BY DEF sys_spawn_process, LoadInv
  <1>2. ~NotExecutable(p) => Proper(p) /\ ~FollowsNull(p, failed)
    BY <1>1, SpawnPermitted
  <1>3. CASE spawn_rejected(p, failed)
    <2>1. process' = process /\ heap \subseteq heap' /\ damage' = damage
      BY <1>3 DEF spawn_rejected, Returns
    <2> QED
      BY <1>1, <2>1, LoadStays
  <1>4. CASE spawn_undefined(p, failed)
    BY <1>2, <1>4 DEF spawn_undefined
  <1>5. CASE spawn_refused(p, failed)
    <2>1. process' = process /\ heap \subseteq heap' /\ damage' = damage
      BY <1>5 DEF spawn_refused, Returns
    <2> QED
      BY <1>1, <2>1, LoadStays
  <1>6. CASE spawn_placed(p, failed)
    <2>1. CASE failed \in {"fdtable", "children"}
      <3>1. PICK i \in Slots : i = Min(Empty) /\ process[i].pstate = "blank"
        BY <1>6, EntryTaken DEF spawn_placed
      <3> DEFINE e == [pstate |-> "new"]
      <3>2. /\ process' = [process EXCEPT ![i] = e] /\ heap \subseteq heap'
            /\ damage' = damage /\ e.pstate # "ready"
        BY <1>6, <2>1, <3>1 DEF spawn_placed, Returns
      <3> HIDE DEF e
      <3>3. \A j \in Slots : j # i /\ Live(j) => BlocksOf(j) \subseteq heap'
        BY <3>2 DEF LoadInv, Loaded
      <3> QED
        BY <1>1, <3>2, <3>3, LoadEnds
    <2>2. CASE failed \notin {"fdtable", "children"}
      <3>1. Proper(p)
        BY <1>2, <1>6 DEF spawn_placed, Loads
      <3> QED
        BY <1>1, <1>6, <2>2, <3>1, LoadPlaced
    <2> QED
      BY <2>1, <2>2
  <1> QED
    BY <1>3, <1>4, <1>5, <1>6 DEF sys_spawn_process

\* An exit keeps it.
LEMMA LoadKill ==
  ASSUME LoadInv, Rules = AllRules, NEW i \in Slots, sys_kill(i)
  PROVE  LoadInv'
  <1>0. spawned \in Nat /\ spawned <= spawned
    BY DEF LoadInv
  <1>1. /\ Live(i) /\ spawned' = spawned /\ file_begin' = file_begin
        /\ spawned' \in Nat /\ spawned <= spawned'
    BY <1>0 DEF sys_kill
  <1>2. process[i].static_base # "junk"
    <2>1. Proper(process[i].program) /\ process[i].static_base = StaticBase(process[i].program)
      BY <1>1 DEF LoadInv, Loaded
    <2>2. retrieve_dynlib_name(process[i].program).status = "OK"
      BY <2>1, ProperFacts
    <2> QED
      BY <2>1, <2>2 DEF StaticBase
  <1> DEFINE e == [pstate |-> "terminated"]
  <1>3. /\ process' = [process EXCEPT ![i] = e] /\ e.pstate # "ready"
        /\ heap' = heap \ Block(process[i].spawn, Kinds) /\ damage' = damage
    BY <1>2 DEF sys_kill, Released
  <1> HIDE DEF e
  <1>4. ASSUME NEW j \in Slots, j # i, Live(j)
        PROVE  BlocksOf(j) \subseteq heap'
    <2>1. BlocksOf(j) \subseteq heap /\ process[j].spawn # process[i].spawn
      BY <1>1, <1>4 DEF LoadInv, Loaded
    <2>2. \A x \in BlocksOf(j) : x.spawn = process[j].spawn
      BY DEF BlocksOf, Block
    <2>3. \A x \in Block(process[i].spawn, Kinds) : x.spawn = process[i].spawn
      BY DEF Block
    <2> QED
      BY <1>3, <2>1, <2>2, <2>3
  <1> QED
    BY <1>1, <1>3, <1>4, LoadEnds

\* A wait keeps it.
LEMMA LoadWait ==
  ASSUME LoadInv, NEW i \in Slots, sys_wait(i)
  PROVE  LoadInv'
  <1>1. /\ process' = [process EXCEPT ![i] = Blank] /\ heap' = heap /\ damage' = damage
        /\ spawned' = spawned /\ file_begin' = file_begin
        /\ spawned' \in Nat /\ spawned <= spawned'
    BY DEF sys_wait, LoadInv
  <1>2. \A j \in Slots : j # i /\ Live(j) => BlocksOf(j) \subseteq heap'
    BY <1>1 DEF LoadInv, Loaded
  <1>3. Blank.pstate # "ready"
    BY DEF Blank
  <1> QED
    BY <1>1, <1>2, <1>3, LoadEnds

\* So does a move of the library, which under the rules no living process sees.
LEMMA LoadWrite ==
  ASSUME LoadInv, Rules = AllRules, ramfs_write
  PROVE  LoadInv'
  <1>1. Keeps("library stays")
    BY DEF Keeps, AllRules
  <1>2. \A i \in Slots : ~Live(i)
    BY <1>1 DEF ramfs_write
  <1>3. process' = process /\ spawned' = spawned /\ damage' = damage
    BY DEF ramfs_write
  <1> QED
    BY <1>2, <1>3 DEF LoadInv, Table, Live

\* Of executables that keep the rules, and a library that stays: a process finds its
\* program as the linker meant it for as long as it runs, its memory is its own, and
\* neither load_exec nor sys_kill uses a pointer that leads nowhere.
THEOREM LoadedCorrect ==
  ASSUME Rules = AllRules
  PROVE  Spec => []LoadedAsLinked
  <1>1. Init => LoadInv
    <2> SUFFICES ASSUME Init PROVE LoadInv
      OBVIOUS
    <2>1. \A i \in Slots : ~Live(i)
      BY DEF Init, Live, Blank
    <2> QED
      BY <2>1 DEF Init, LoadInv, Table
  <1>2. LoadInv /\ [Next]_vars => LoadInv'
    <2> SUFFICES ASSUME LoadInv, [Next]_vars PROVE LoadInv'
      OBVIOUS
    <2>1. CASE UNCHANGED vars
      <3>1. /\ process' = process /\ heap' = heap /\ file_begin' = file_begin
            /\ spawned' = spawned /\ damage' = damage
            /\ spawned' \in Nat /\ spawned <= spawned'
        BY <2>1 DEF vars, LoadInv
      <3> QED
        BY <3>1, LoadStays
    <2>2. ASSUME NEW p \in Programs, NEW failed \in Allocations, sys_spawn_process(p, failed)
          PROVE  LoadInv'
      BY <2>2, LoadSpawn
    <2>3. ASSUME NEW i \in Slots, sys_kill(i)
          PROVE  LoadInv'
      BY <2>3, LoadKill
    <2>4. ASSUME NEW i \in Slots, sys_wait(i)
          PROVE  LoadInv'
      BY <2>4, LoadWait
    <2>5. CASE ramfs_write
      BY <2>5, LoadWrite
    <2> QED
      BY <2>1, <2>2, <2>3, <2>4, <2>5 DEF Next
  <1>3. LoadInv => LoadedAsLinked
    BY LoadInvHolds
  <1> QED
    BY <1>1, <1>2, <1>3, PTL DEF Spec
=============================================================================
