---------------------------- MODULE FilesProofs ----------------------------
(***************************************************************************)
(* For every number of processes, descriptors, pipes and inodes, every set *)
(* of paths and every size of files and pipes, of programs that keep the   *)
(* rules: descriptors and Files are neither lost nor leaked, the           *)
(* directories list exactly the files there are, nothing is used after it  *)
(* was freed, and a read returns what was written.                         *)
(*                                                                         *)
(* The parts of the invariant are operators on the tree t, the processes   *)
(* ps, the Files os and the pipes ts, so that what a call does to each     *)
(* part is a lemma about values.                                           *)
(***************************************************************************)
EXTENDS Files, TLAPS, FiniteSetTheorems, WellFoundedInduction

-----------------------------------------------------------------------------
(* The inductive invariant                                                 *)

InodeTypes ==
  [kind : {"unborn", "reg", "dir", "freed"}, parent : Inodes \cup {Null},
   size : 0 .. MaxSize, bytes : [Positions -> Positions \cup {Nothing}],
   entries : Seq([name : Names, inode : Inodes])]

\* The k-th entry of a directory is the only one of its inode, which knows the
\* directory.  Entries are in the order of addresses, so there is room for k before.
EntryFits(t, dir, k) ==
  LET i == t[dir].entries[k].inode
  IN  /\ t[dir].kind = "dir" /\ i # Root /\ k <= i
      /\ t[i].kind \in {"reg", "dir"} /\ t[i].parent = dir
      /\ \A l \in DOMAIN t[dir].entries : t[dir].entries[l].inode = i => l = k

\* An inode is in the directory it knows.
Listed(t, i) ==
  /\ t[i].parent \in Inodes
  /\ \E k \in DOMAIN t[t[i].parent].entries : t[t[i].parent].entries[k].inode = i

Tree(t) ==
  /\ t \in [Inodes -> InodeTypes]
  /\ t[Root].kind = "dir" /\ t[Root].parent = Null
  /\ \A i, j \in Inodes : i < j /\ t[i].kind = "unborn" => t[j].kind = "unborn"
  /\ \A dir \in Inodes : \A k \in DOMAIN t[dir].entries : EntryFits(t, dir, k)
  /\ \A i \in Inodes : t[i].kind \in {"reg", "dir"} /\ i # Root => Listed(t, i)
  /\ \A i \in Inodes : \A k \in 0 .. t[i].size - 1 : t[i].bytes[k] = k

-----------------------------------------------------------------------------
(* Numbers                                                                 *)

\* A set of natural numbers has a least one.
LEMMA Least ==
  ASSUME NEW S \in SUBSET Nat, S # {}
  PROVE  Min(S) \in S /\ \A m \in S : Min(S) <= m
  <1>1. PICK n \in S : \A m \in S : <<m, n>> \notin OpToRel(<, Nat)
    BY NatLessThanWellFounded, WFMin
  <1>2. \A m \in S : ~(m < n)
    BY <1>1 DEF OpToRel
  <1>3. \A m \in S : n <= m
    BY <1>2
  <1> QED
    BY <1>3 DEF Min

\* Induction up to n, with the set of the numbers that are known.
LEMMA Climb ==
  ASSUME NEW n \in Nat, NEW S, 0 \in S, \A k \in 1 .. n : k - 1 \in S => k \in S
  PROVE  0 .. n \subseteq S
  <1> DEFINE Rest == (0 .. n) \ S
  <1>1. ASSUME Rest # {}
        PROVE  FALSE
    <2>1. Rest \in SUBSET Nat
      OBVIOUS
    <2> HIDE DEF Rest
    <2>2. Min(Rest) \in Rest /\ \A m \in Rest : Min(Rest) <= m
      BY <1>1, <2>1, Least
    <2>3. PICK m \in Rest : \A i \in Rest : m <= i
      BY <2>2
    <2>4. m \in 1 .. n /\ m \notin S /\ m - 1 \in 0 .. n
      BY <2>3 DEF Rest
    <2>5. m - 1 \notin Rest
      BY <2>3, <2>4
    <2> QED
      BY <2>4, <2>5 DEF Rest
  <1> QED
    BY <1>1

\* What the assumptions say of each constant.
LEMMA ConstantTypes ==
  /\ MaxInode \in Nat \ {0} /\ MaxSize \in Nat \ {0}
  /\ MaxPid \in Nat \ {0} /\ MaxPipe \in Nat \ {0} /\ MaxTransfer \in Nat \ {0}
  /\ MaxSent \in Nat \ {0}
  /\ MAX_OPEN_FILE_DESCRIPTORS \in Nat /\ MAX_OPEN_FILE_DESCRIPTORS >= 3
  BY RamFsAssumption, FilesAssumption

\* Inodes are numbers, and no mark is one.
LEMMA InodeNumbers ==
  /\ Inodes \subseteq Nat /\ Root \in Inodes /\ Root = 1
  /\ Null \notin Inodes /\ NotFound \notin Inodes /\ Fault \notin Inodes
  /\ Fault # Null /\ Fault # NotFound /\ NotFound # Null
  BY ConstantTypes DEF Inodes, Root, Null, NotFound, Fault

-----------------------------------------------------------------------------
(* The tree                                                                *)

\* What the types say of one inode.
LEMMA InodeFields ==
  ASSUME NEW t, Tree(t), NEW i \in Inodes
  PROVE  /\ t[i] \in InodeTypes
         /\ t[i].kind \in {"unborn", "reg", "dir", "freed"}
         /\ t[i].parent \in Inodes \cup {Null}
         /\ t[i].size \in Nat /\ t[i].size <= MaxSize
         /\ t[i].bytes \in [Positions -> Positions \cup {Nothing}]
         /\ t[i].entries \in Seq([name : Names, inode : Inodes])
         /\ Len(t[i].entries) \in Nat /\ DOMAIN t[i].entries = 1 .. Len(t[i].entries)
         /\ \A k \in DOMAIN t[i].entries : t[i].entries[k].inode \in Inodes
                                           /\ t[i].entries[k].name \in Names
  <1>1. t[i] \in InodeTypes
    BY DEF Tree
  <1>2. /\ t[i].kind \in {"unborn", "reg", "dir", "freed"}
        /\ t[i].parent \in Inodes \cup {Null}
        /\ t[i].bytes \in [Positions -> Positions \cup {Nothing}]
        /\ t[i].entries \in Seq([name : Names, inode : Inodes])
    BY <1>1 DEF InodeTypes
  <1>3. t[i].size \in 0 .. MaxSize
    BY <1>1 DEF InodeTypes
  <1>4. t[i].size \in Nat /\ t[i].size <= MaxSize
    BY <1>3, ConstantTypes
  <1> DEFINE E == [name : Names, inode : Inodes]
             s == t[i].entries
  <1>5. s \in Seq(E)
    BY <1>2
  <1> HIDE DEF s
  <1>6. Len(s) \in Nat /\ DOMAIN s = 1 .. Len(s)
    BY <1>5
  <1>7. ASSUME NEW k \in DOMAIN s
        PROVE  s[k].inode \in Inodes /\ s[k].name \in Names
    <2> HIDE DEF E
    <2>1. s[k] \in E
      BY <1>5
    <2> QED
      BY <2>1 DEF E
  <1> QED
    BY <1>1, <1>2, <1>4, <1>6, <1>7 DEF s

\* What a directory lists is there.
LEMMA LookupFinds ==
  ASSUME NEW t, Tree(t), NEW dir \in Inodes, NEW name
  PROVE  LET i == ramfs_lookup(t, dir, name)
         IN  \/ i = Null
             \/ /\ i \in Inodes /\ i # Root /\ t[i].kind \in {"reg", "dir"}
                /\ t[i].parent = dir
  <1> DEFINE found == {k \in DOMAIN t[dir].entries : t[dir].entries[k].name = name}
             i == t[dir].entries[Min(found)].inode
  <1>1. CASE found = {}
    BY <1>1 DEF ramfs_lookup
  <1>2. CASE found # {}
    <2>1. DOMAIN t[dir].entries \subseteq Nat
      BY InodeFields
    <2>2. found \in SUBSET Nat
      BY <2>1
    <2> HIDE DEF found
    <2>3. Min(found) \in found
      BY <1>2, <2>2, Least
    <2>4. Min(found) \in DOMAIN t[dir].entries
      BY <2>3 DEF found
    <2>5. i \in Inodes
      BY <2>4, InodeFields
    <2>6. EntryFits(t, dir, Min(found))
      BY <2>4 DEF Tree
    <2>7. i # Root /\ t[i].kind \in {"reg", "dir"} /\ t[i].parent = dir
      BY <2>6 DEF EntryFits
    <2>8. ramfs_lookup(t, dir, name) = i
      BY <1>2, <2>7 DEF ramfs_lookup, Gone, found
    <2> QED
      BY <2>5, <2>7, <2>8
  <1> QED
    BY <1>1, <1>2

Directories(t) == {i \in Inodes : t[i].kind = "dir"}
Ends(t) == Directories(t) \cup {NotFound, Null, Fault}

\* An inode that is there, but the root, is in a directory.
LEMMA ParentIsDirectory ==
  ASSUME NEW t, Tree(t), NEW i \in Inodes, t[i].kind \in {"reg", "dir"}
  PROVE  t[i].parent \in Directories(t) \cup {Null}
  <1>1. CASE i = Root
    BY <1>1 DEF Tree
  <1>2. CASE i # Root
    <2>1. Listed(t, i)
      BY <1>2 DEF Tree
    <2>2. PICK k \in DOMAIN t[t[i].parent].entries : t[i].parent \in Inodes
      BY <2>1 DEF Listed
    <2>3. EntryFits(t, t[i].parent, k)
      BY <2>2 DEF Tree
    <2> QED
      BY <2>2, <2>3 DEF EntryFits, Directories
  <1> QED
    BY <1>1, <1>2

\* A component of a path leads from a directory to one, or nowhere.
LEMMA DescendLeads ==
  ASSUME NEW t, Tree(t), NEW at \in Ends(t), NEW name
  PROVE  Descend(t, at, name) \in Ends(t)
  <1>1. CASE at \notin Inodes
    BY <1>1, InodeNumbers DEF Descend, Ends, Directories
  <1>2. CASE at \in Inodes
    <2>1. t[at].kind = "dir" /\ at \notin {NotFound, Null, Fault} /\ ~Gone(t, at)
      BY <1>2, InodeNumbers DEF Ends, Directories, Gone
    <2>2. t[at].parent \in Ends(t)
      BY <1>2, <2>1, ParentIsDirectory DEF Ends
    <2>3. \/ ramfs_lookup(t, at, name) = Null
          \/ ramfs_lookup(t, at, name) \in Inodes
      BY <1>2, LookupFinds
    <2> QED
      BY <1>2, <2>1, <2>2, <2>3 DEF Descend, Ends, Directories, IsDir
  <1> QED
    BY <1>1, <1>2

\* The walk is a function of that kind: one of n - 1 components can go on.
WalksTo(g, t, pwd, path, n) ==
  g = [k \in 0 .. n |-> IF k = 0 THEN IF path.absolute THEN Root ELSE pwd
                        ELSE Descend(t, g[k - 1], path.dirs[k])]

\* There is a path walk of any length.
LEMMA WalkExists ==
  ASSUME NEW t, NEW pwd, NEW path, NEW n \in Nat
  PROVE  \E g : WalksTo(g, t, pwd, path, n)
  <1> DEFINE start == IF path.absolute THEN Root ELSE pwd
             S == {m \in Nat : \E g : WalksTo(g, t, pwd, path, m)}
  <1>1. 0 \in S
    <2> DEFINE h == [k \in 0 .. 0 |-> start]
    <2>1. h = [k \in 0 .. 0 |-> IF k = 0 THEN start ELSE Descend(t, h[k - 1], path.dirs[k])]
      OBVIOUS
    <2> HIDE DEF h
    <2>2. WalksTo(h, t, pwd, path, 0)
      BY <2>1 DEF WalksTo
    <2> QED
      BY <2>2
  <1>2. ASSUME NEW m \in 1 .. n, m - 1 \in S
        PROVE  m \in S
    <2>1. PICK g : WalksTo(g, t, pwd, path, m - 1)
      BY <1>2
    <2> HIDE DEF start
    <2> DEFINE h == [k \in 0 .. m |-> IF k = m THEN Descend(t, g[m - 1], path.dirs[m]) ELSE g[k]]
    <2>2. ASSUME NEW k \in 0 .. m
          PROVE  h[k] = IF k = 0 THEN start ELSE Descend(t, h[k - 1], path.dirs[k])
      <3>1. CASE k = m
        BY <3>1
      <3>2. CASE k # m
        <4>1. k \in 0 .. m - 1 /\ h[k] = g[k] /\ (k # 0 => h[k - 1] = g[k - 1])
          BY <3>2
        <4>2. g[k] = IF k = 0 THEN start ELSE Descend(t, g[k - 1], path.dirs[k])
          BY <2>1, <4>1 DEF WalksTo, start
        <4> QED
          BY <4>1, <4>2
      <3> QED
        BY <3>1, <3>2
    <2>3. h = [k \in 0 .. m |-> h[k]]
      OBVIOUS
    <2> HIDE DEF h
    <2>4. WalksTo(h, t, pwd, path, m)
      BY <2>2, <2>3 DEF WalksTo, start
    <2> QED
      BY <2>4
  <1> HIDE DEF S
  <1>3. 0 .. n \subseteq S
    BY <1>1, <1>2, Climb
  <1> QED
    BY <1>3 DEF S

\* So a path leads to a directory, or nowhere.
LEMMA WalkLeads ==
  ASSUME NEW t, Tree(t), NEW pwd \in Directories(t), NEW path, Len(path.dirs) \in Nat
  PROVE  get_parent_directory(t, pwd, path) \in Ends(t)
  <1> DEFINE n == Len(path.dirs)
             w == Walk(t, pwd, path)
             S == {k \in 0 .. n : w[k] \in Ends(t)}
  <1>1. PICK g : WalksTo(g, t, pwd, path, n)
    BY WalkExists
  <1>2. WalksTo(w, t, pwd, path, n)
    BY <1>1 DEF WalksTo, Walk
  <1> HIDE DEF w
  <1>3. w[0] = IF path.absolute THEN Root ELSE pwd
    BY <1>2 DEF WalksTo
  <1>4. \A k \in 1 .. n : w[k] = Descend(t, w[k - 1], path.dirs[k])
    BY <1>2 DEF WalksTo
  <1>5. 0 \in S
    <2>1. Root \in Directories(t)
      BY InodeNumbers DEF Tree, Directories
    <2> QED
      BY <1>3, <2>1 DEF Ends
  <1>6. ASSUME NEW k \in 1 .. n, k - 1 \in S
        PROVE  k \in S
    BY <1>4, <1>6, DescendLeads
  <1> HIDE DEF S
  <1>7. 0 .. n \subseteq S
    BY <1>5, <1>6, Climb
  <1> QED
    BY <1>7 DEF S, w, get_parent_directory

\* The file that a path names is there, in the directory the path leads to.
LEMMA FileFound ==
  ASSUME NEW t, Tree(t), NEW pwd \in Directories(t), NEW parent \in Ends(t), NEW name
  PROVE  LET i == get_file(t, pwd, parent, name)
         IN  \/ i \in {Null, Fault}
             \/ /\ i \in Inodes /\ t[i].kind \in {"reg", "dir"}
                /\ name # ".." => /\ i # Root /\ parent \in Directories(t)
                                  /\ t[i].parent = parent
                                  /\ i = ramfs_lookup(t, parent, name)
  <1> DEFINE i == get_file(t, pwd, parent, name)
  <1>1. CASE parent = Fault
    BY <1>1 DEF get_file
  <1>2. CASE parent \in {NotFound, Null}
    <2>1. ~Gone(t, parent) /\ ~Gone(t, pwd) /\ parent # Fault
      BY <1>2, InodeNumbers DEF Gone, Directories
    <2>2. i = IF name = ".." THEN t[pwd].parent ELSE Null
      BY <1>2, <2>1 DEF get_file
    <2>3. t[pwd].parent \in Directories(t) \cup {Null}
      BY ParentIsDirectory DEF Directories
    <2> QED
      BY <2>2, <2>3 DEF Directories
  <1>3. CASE parent \in Directories(t)
    <2>1. ~Gone(t, parent) /\ parent \notin {Fault, NotFound, Null} /\ parent \in Inodes
      BY <1>3, InodeNumbers DEF Gone, Directories
    <2>2. i = IF name = ".." THEN t[parent].parent ELSE ramfs_lookup(t, parent, name)
      BY <2>1 DEF get_file
    <2>3. t[parent].parent \in Directories(t) \cup {Null}
      BY <1>3, ParentIsDirectory DEF Directories
    <2>4. \/ ramfs_lookup(t, parent, name) = Null
          \/ /\ ramfs_lookup(t, parent, name) \in Inodes
             /\ ramfs_lookup(t, parent, name) # Root
             /\ t[ramfs_lookup(t, parent, name)].kind \in {"reg", "dir"}
             /\ t[ramfs_lookup(t, parent, name)].parent = parent
      BY <2>1, LookupFinds
    <2> QED
      BY <1>3, <2>2, <2>3, <2>4 DEF Directories
  <1> QED
    BY <1>1, <1>2, <1>3 DEF Ends

\* The address of a new inode is behind all that were ever used.
LEMMA NewInode ==
  ASSUME NEW t, Tree(t), Unborn(t) # {}
  PROVE  LET new == Min(Unborn(t))
         IN  /\ new \in Inodes /\ t[new].kind = "unborn" /\ new # Root
             /\ \A i \in Inodes : t[i].kind # "unborn" => i < new
             /\ \A i \in Inodes : i < new => t[i].kind # "unborn"
  <1>1. Unborn(t) \in SUBSET Nat
    BY InodeNumbers DEF Unborn
  <1>2. Min(Unborn(t)) \in Unborn(t) /\ \A m \in Unborn(t) : Min(Unborn(t)) <= m
    BY <1>1, Least
  <1>3. PICK new \in Inodes : /\ new = Min(Unborn(t)) /\ t[new].kind = "unborn"
                              /\ \A m \in Unborn(t) : new <= m
    BY <1>2 DEF Unborn
  <1>4. ASSUME NEW i \in Inodes, t[i].kind # "unborn"
        PROVE  i < new
    <2>1. ~(new < i) /\ i # new
      BY <1>3, <1>4 DEF Tree
    <2> QED
      BY <2>1, InodeNumbers
  <1>5. ASSUME NEW i \in Inodes, i < new
        PROVE  t[i].kind # "unborn"
    <2>1. i \notin Unborn(t)
      BY <1>3, <1>5, InodeNumbers
    <2> QED
      BY <2>1 DEF Unborn
  <1>6. new # Root
    BY <1>3 DEF Tree
  <1> QED
    BY <1>3, <1>4, <1>5, <1>6

\* A new file: the tree with it, and the rest of the inodes as they were.
LEMMA CreateKeeps ==
  ASSUME NEW t, Tree(t), NEW dir \in Directories(t), Unborn(t) # {}, NEW name \in Names,
         NEW kind \in {"reg", "dir"}
  PROVE  LET new == Min(Unborn(t))
             u == ramfs_create_file(t, dir, name, kind)
         IN  /\ Tree(u) /\ u[new].kind = kind /\ u[new].size = 0
             /\ \A i \in Inodes : i # new => u[i].kind = t[i].kind /\ u[i].size = t[i].size
  <1>1. PICK new \in Inodes :
             /\ new = Min(Unborn(t)) /\ t[new].kind = "unborn" /\ new # Root
             /\ \A i \in Inodes : t[i].kind # "unborn" => i < new
             /\ \A i \in Inodes : i < new => t[i].kind # "unborn"
    BY NewInode
  <1> DEFINE u == ramfs_create_file(t, dir, name, kind)
             e == [name |-> name, inode |-> new]
             made == [Fresh EXCEPT !.kind = kind, !.parent = dir]
             old == t[dir].entries
             longer == Append(old, e)
             grown == [t[dir] EXCEPT !.entries = longer]
  <1>2. dir \in Inodes /\ t[dir].kind = "dir" /\ dir # new
    BY <1>1 DEF Directories
  <1>3. u = [t EXCEPT ![new] = made, ![dir].entries = Append(@, e)]
    BY <1>1 DEF ramfs_create_file
  <1>4. t \in [Inodes -> InodeTypes] /\ t[dir] \in InodeTypes
    BY <1>2 DEF Tree
  <1>5. /\ DOMAIN u = Inodes /\ u[new] = made /\ u[dir] = grown
        /\ \A i \in Inodes : i # new /\ i # dir => u[i] = t[i]
    BY <1>1, <1>2, <1>3, <1>4
  <1>6. /\ made.kind = kind /\ made.parent = dir /\ made.size = 0 /\ made.entries = <<>>
        /\ made \in InodeTypes
    <2>1. 0 \in 0 .. MaxSize /\ <<>> \in Seq([name : Names, inode : Inodes])
      BY ConstantTypes
    <2> QED
      BY <1>2, <2>1 DEF Fresh, InodeTypes
  <1>7. /\ old \in Seq([name : Names, inode : Inodes]) /\ Len(old) \in Nat
        /\ DOMAIN old = 1 .. Len(old)
    BY <1>2, InodeFields
  <1>8. /\ longer \in Seq([name : Names, inode : Inodes])
        /\ DOMAIN longer = 1 .. Len(old) + 1
        /\ longer[Len(old) + 1] = e /\ \A k \in 1 .. Len(old) : longer[k] = old[k]
    <2> DEFINE E == [name : Names, inode : Inodes]
    <2>1. e \in E
      OBVIOUS
    <2>2. old \in Seq(E)
      BY <1>7
    <2> HIDE DEF E, old, e
    <2>3. longer \in Seq(E) /\ Len(longer) = Len(old) + 1
      BY <2>1, <2>2
    <2>4. DOMAIN longer = 1 .. Len(longer)
      BY <2>3
    <2>5. longer[Len(old) + 1] = e /\ \A k \in 1 .. Len(old) : longer[k] = old[k]
      BY <2>1, <2>2
    <2> QED
      BY <2>3, <2>4, <2>5 DEF E
  <1>9. /\ grown.kind = "dir" /\ grown.parent = t[dir].parent /\ grown.size = t[dir].size
        /\ grown.bytes = t[dir].bytes /\ grown.entries = longer /\ grown \in InodeTypes
    <2> HIDE DEF longer
    <2> QED
      BY <1>2, <1>4, <1>8 DEF InodeTypes
  <1>10. e.inode = new
    OBVIOUS
  <1> HIDE DEF u, made, grown, e, longer
  <1>11. ASSUME NEW i \in Inodes, i # new
         PROVE  /\ u[i].kind = t[i].kind /\ u[i].size = t[i].size /\ u[i].parent = t[i].parent
                /\ u[i].bytes = t[i].bytes
                /\ DOMAIN t[i].entries \subseteq DOMAIN u[i].entries
                /\ \A k \in DOMAIN t[i].entries : u[i].entries[k] = t[i].entries[k]
    <2>1. CASE i = dir
      BY <1>2, <1>5, <1>7, <1>8, <1>9, <2>1
    <2>2. CASE i # dir
      BY <1>5, <1>11, <2>2
    <2> QED
      BY <2>1, <2>2
  <1>12. u \in [Inodes -> InodeTypes]
    <2>1. \A i \in Inodes : u[i] \in InodeTypes
      BY <1>4, <1>5, <1>6, <1>9
    <2>2. u = [i \in Inodes |-> u[i]]
      BY <1>3, <1>4 DEF u
    <2> QED
      BY <2>1, <2>2
  <1>13. u[Root].kind = "dir" /\ u[Root].parent = Null
    BY <1>1, <1>11, InodeNumbers DEF Tree
  <1>14. ASSUME NEW i \in Inodes, NEW j \in Inodes, i < j, u[i].kind = "unborn"
         PROVE  u[j].kind = "unborn"
    <2>1. i # new
      BY <1>5, <1>6, <1>14
    <2>2. t[i].kind = "unborn"
      BY <1>11, <1>14, <2>1
    <2>3. new < i
      BY <1>1, <2>1, <2>2, InodeNumbers
    <2>4. j # new
      BY <1>1, <1>14, <2>3, InodeNumbers
    <2> QED
      BY <1>11, <1>14, <2>2, <2>4 DEF Tree
  <1>15. ASSUME NEW d \in Inodes, NEW k \in DOMAIN t[d].entries, d # new
         PROVE  /\ EntryFits(t, d, k) /\ t[d].entries[k].inode \in Inodes
                /\ t[d].entries[k].inode # new
    <2>1. EntryFits(t, d, k) /\ t[d].entries[k].inode \in Inodes
      BY InodeFields DEF Tree
    <2> QED
      BY <1>1, <2>1 DEF EntryFits
  <1>16. ASSUME NEW d \in Inodes, NEW k \in DOMAIN u[d].entries
         PROVE  EntryFits(u, d, k)
    <2>1. d # new
      BY <1>5, <1>6, <1>16
    <2>2. CASE k \in DOMAIN t[d].entries
      <3> DEFINE i == t[d].entries[k].inode
      <3>1. /\ t[d].kind = "dir" /\ i # Root /\ k <= i /\ t[i].kind \in {"reg", "dir"}
            /\ t[i].parent = d /\ i \in Inodes /\ i # new
            /\ \A l \in DOMAIN t[d].entries : t[d].entries[l].inode = i => l = k
        BY <1>15, <2>1, <2>2 DEF EntryFits
      <3>2. u[d].entries[k].inode = i /\ u[d].kind = "dir"
        BY <1>11, <2>1, <2>2, <3>1
      <3>3. u[i].kind \in {"reg", "dir"} /\ u[i].parent = d
        BY <1>11, <3>1
      <3>4. ASSUME NEW l \in DOMAIN u[d].entries, u[d].entries[l].inode = i
            PROVE  l = k
        <4>1. CASE l \in DOMAIN t[d].entries
          BY <1>11, <2>1, <3>1, <3>4, <4>1
        <4>2. CASE l \notin DOMAIN t[d].entries
          <5>1. d = dir
            BY <1>5, <2>1, <4>2
          <5>2. l = Len(old) + 1
            BY <1>5, <1>7, <1>8, <1>9, <4>2, <5>1
          <5> QED
            BY <1>5, <1>8, <1>9, <1>10, <3>1, <3>4, <5>1, <5>2
        <4> QED
          BY <4>1, <4>2
      <3> HIDE DEF i
      <3> QED
        BY <3>1, <3>2, <3>3, <3>4 DEF EntryFits
    <2>3. CASE k \notin DOMAIN t[d].entries
      <3>1. d = dir
        BY <1>5, <2>1, <2>3
      <3>2. k = Len(old) + 1
        BY <1>5, <1>7, <1>8, <1>9, <2>3, <3>1
      <3>3. u[d].entries[k].inode = new
        BY <1>5, <1>8, <1>9, <1>10, <3>1, <3>2
      <3>4. k <= new
        <4>1. CASE Len(old) = 0
          BY <3>2, <4>1, InodeNumbers DEF Inodes
        <4>2. CASE Len(old) # 0
          <5>1. Len(old) \in DOMAIN t[dir].entries
            BY <1>7, <4>2
          <5>2. EntryFits(t, dir, Len(old))
            BY <1>2, <5>1 DEF Tree
          <5> DEFINE i == t[dir].entries[Len(old)].inode
          <5>3. i \in Inodes /\ Len(old) <= i /\ t[i].kind \in {"reg", "dir"}
            BY <1>2, <1>15, <5>1, <5>2 DEF EntryFits
          <5>4. i < new
            BY <1>1, <5>3
          <5> HIDE DEF i
          <5>5. i \in Nat /\ new \in Nat
            BY <5>3, InodeNumbers
          <5> QED
            BY <1>7, <3>2, <5>3, <5>4, <5>5
        <4> QED
          BY <4>1, <4>2
      <3>5. u[new].kind \in {"reg", "dir"} /\ u[new].parent = d /\ u[d].kind = "dir"
        BY <1>5, <1>6, <1>9, <3>1
      <3>6. ASSUME NEW l \in DOMAIN u[d].entries, u[d].entries[l].inode = new
            PROVE  l = k
        <4>1. l \notin DOMAIN t[d].entries
          BY <1>11, <1>15, <2>1, <3>6
        <4> QED
          BY <1>5, <1>7, <1>8, <1>9, <3>1, <3>2, <4>1
      <3> QED
        BY <1>1, <3>3, <3>4, <3>5, <3>6 DEF EntryFits
    <2> QED
      BY <2>2, <2>3
  <1>17. ASSUME NEW i \in Inodes, u[i].kind \in {"reg", "dir"}, i # Root
         PROVE  Listed(u, i)
    <2>1. CASE i = new
      <3>1. u[i].parent = dir /\ Len(old) + 1 \in DOMAIN u[dir].entries
        BY <1>5, <1>6, <1>7, <1>8, <1>9, <2>1
      <3>2. u[dir].entries[Len(old) + 1].inode = i
        BY <1>5, <1>8, <1>9, <1>10, <2>1
      <3> QED
        BY <1>2, <3>1, <3>2 DEF Listed
    <2>2. CASE i # new
      <3>1. t[i].kind \in {"reg", "dir"} /\ u[i].parent = t[i].parent
        BY <1>11, <1>17, <2>2
      <3>2. Listed(t, i)
        BY <1>17, <3>1 DEF Tree
      <3> DEFINE d == t[i].parent
      <3>3. PICK k \in DOMAIN t[d].entries : d \in Inodes /\ t[d].entries[k].inode = i
        BY <3>2 DEF Listed
      <3>4. d # new
        <4>1. EntryFits(t, d, k)
          BY <3>3 DEF Tree
        <4> QED
          BY <1>1, <4>1 DEF EntryFits
      <3> HIDE DEF d
      <3>5. k \in DOMAIN u[d].entries /\ u[d].entries[k].inode = i
        BY <1>11, <3>3, <3>4
      <3> USE DEF d
      <3> QED
        BY <3>1, <3>3, <3>5 DEF Listed
    <2> QED
      BY <2>1, <2>2
  <1>18. ASSUME NEW i \in Inodes, NEW k \in 0 .. u[i].size - 1
         PROVE  u[i].bytes[k] = k
    <2>1. CASE i = new
      BY <1>5, <1>6, <1>18, <2>1
    <2>2. CASE i # new
      <3>1. u[i].size = t[i].size /\ u[i].bytes = t[i].bytes
        BY <1>11, <2>2
      <3> QED
        BY <1>18, <3>1 DEF Tree
    <2> QED
      BY <2>1, <2>2
  <1>19. Tree(u)
    BY <1>12, <1>13, <1>14, <1>16, <1>17, <1>18 DEF Tree
  <1> QED
    BY <1>1, <1>5, <1>6, <1>11, <1>19 DEF u

\* The last file of a directory goes, if nothing is in it.
LEMMA UnlinkKeeps ==
  ASSUME NEW t, Tree(t), NEW i \in Inodes, i # Root, t[i].kind \in {"reg", "dir"},
         NEW dir \in Directories(t), t[i].parent = dir,
         Last(t[dir].entries).inode = i, t[i].entries = <<>>
  PROVE  LET u == ramfs_unlink(t, dir, i)
         IN  Tree(u) /\ \A j \in Inodes : j # i => u[j].kind = t[j].kind
  <1> DEFINE u == ramfs_unlink(t, dir, i)
             freed == [Fresh EXCEPT !.kind = "freed"]
             old == t[dir].entries
             n == Len(old)
             shorter == Front(old)
             pruned == [t[dir] EXCEPT !.entries = shorter]
  <1>1. PICK at \in DOMAIN t[dir].entries : t[dir].entries[at].inode = i
    <2>1. Listed(t, i)
      BY DEF Tree
    <2> QED
      BY <2>1 DEF Listed
  <1>2. dir \in Inodes /\ t[dir].kind = "dir" /\ dir # i
    <2>1. DOMAIN <<>> = {}
      OBVIOUS
    <2> QED
      BY <1>1, <2>1 DEF Directories
  <1>3. n \in Nat /\ n >= 1 /\ DOMAIN old = 1 .. n /\ old[n].inode = i
    <2>1. n \in Nat /\ DOMAIN old = 1 .. n
      BY <1>2, InodeFields
    <2>2. n >= 1
      BY <1>1, <2>1
    <2> QED
      BY <2>1, <2>2 DEF Last
  <1>4. /\ shorter \in Seq([name : Names, inode : Inodes])
        /\ DOMAIN shorter = 1 .. n - 1 /\ \A k \in 1 .. n - 1 : shorter[k] = old[k]
    <2> DEFINE E == [name : Names, inode : Inodes]
    <2>1. old \in Seq(E)
      BY <1>2, InodeFields
    <2> HIDE DEF E, old
    <2>2. shorter = SubSeq(old, 1, n - 1)
      BY DEF Front
    <2>3. shorter = [k \in 1 .. n - 1 |-> old[k]]
      BY <1>3, <2>2
    <2>4. shorter \in Seq(E)
      <3>1. \A k \in 1 .. n - 1 : old[k] \in E
        BY <1>3, <2>1
      <3>2. n - 1 \in Nat
        BY <1>3
      <3> QED
        BY <2>3, <3>1, <3>2
    <2> QED
      BY <2>3, <2>4 DEF E
  <1>5. u = [t EXCEPT ![i] = freed, ![dir].entries = Front(@)]
    BY DEF ramfs_unlink
  <1>6. t \in [Inodes -> InodeTypes] /\ t[dir] \in InodeTypes
    BY <1>2 DEF Tree
  <1>7. /\ DOMAIN u = Inodes /\ u[i] = freed /\ u[dir] = pruned
        /\ \A j \in Inodes : j # i /\ j # dir => u[j] = t[j]
    BY <1>2, <1>5, <1>6
  <1>8. /\ freed.kind = "freed" /\ freed.size = 0 /\ freed.entries = <<>>
        /\ freed \in InodeTypes
    <2>1. 0 \in 0 .. MaxSize /\ <<>> \in Seq([name : Names, inode : Inodes])
      BY ConstantTypes
    <2> QED
      BY <2>1 DEF Fresh, InodeTypes
  <1>9. /\ pruned.kind = "dir" /\ pruned.parent = t[dir].parent
        /\ pruned.size = t[dir].size /\ pruned.bytes = t[dir].bytes
        /\ pruned.entries = shorter /\ pruned \in InodeTypes
    <2> HIDE DEF shorter
    <2> QED
      BY <1>2, <1>4, <1>6 DEF InodeTypes
  <1> HIDE DEF u, freed, pruned, shorter
  <1>10. ASSUME NEW j \in Inodes, j # i
         PROVE  /\ u[j].kind = t[j].kind /\ u[j].size = t[j].size /\ u[j].parent = t[j].parent
                /\ u[j].bytes = t[j].bytes
                /\ DOMAIN u[j].entries \subseteq DOMAIN t[j].entries
                /\ \A k \in DOMAIN u[j].entries : u[j].entries[k] = t[j].entries[k]
    <2>1. CASE j = dir
      BY <1>2, <1>3, <1>4, <1>7, <1>9, <2>1
    <2>2. CASE j # dir
      BY <1>7, <1>10, <2>2
    <2> QED
      BY <2>1, <2>2
  <1>11. u \in [Inodes -> InodeTypes]
    <2>1. \A j \in Inodes : u[j] \in InodeTypes
      BY <1>6, <1>7, <1>8, <1>9
    <2>2. u = [j \in Inodes |-> u[j]]
      BY <1>5, <1>6
    <2> QED
      BY <2>1, <2>2
  <1>12. u[Root].kind = "dir" /\ u[Root].parent = Null
    BY <1>10, InodeNumbers DEF Tree
  <1>13. ASSUME NEW j \in Inodes, NEW k \in Inodes, j < k, u[j].kind = "unborn"
         PROVE  u[k].kind = "unborn"
    <2>1. j # i
      BY <1>7, <1>8, <1>13
    <2>2. t[j].kind = "unborn"
      BY <1>10, <1>13, <2>1
    <2>3. t[k].kind = "unborn"
      BY <1>13, <2>2 DEF Tree
    <2> QED
      BY <1>10, <2>3
  <1>14. ASSUME NEW d \in Inodes, NEW k \in DOMAIN u[d].entries
         PROVE  EntryFits(u, d, k)
    <2>1. d # i
      <3>1. DOMAIN <<>> = {}
        OBVIOUS
      <3> QED
        BY <1>7, <1>8, <1>14, <3>1
    <2> DEFINE j == t[d].entries[k].inode
    <2>2. k \in DOMAIN t[d].entries /\ u[d].entries[k].inode = j
      BY <1>10, <2>1
    <2>3. /\ t[d].kind = "dir" /\ j # Root /\ k <= j /\ t[j].kind \in {"reg", "dir"}
          /\ t[j].parent = d /\ j \in Inodes
          /\ \A l \in DOMAIN t[d].entries : t[d].entries[l].inode = j => l = k
      BY <2>2, InodeFields DEF Tree, EntryFits
    <2>4. j # i
      <3>1. CASE d = dir
        <4>1. k \in 1 .. n - 1
          BY <1>4, <1>7, <1>9, <3>1
        <4>2. k # n /\ n \in DOMAIN t[d].entries
          BY <1>3, <3>1, <4>1
        <4> QED
          BY <1>3, <2>3, <3>1, <4>2
      <3>2. CASE d # dir
        BY <2>3, <3>2
      <3> QED
        BY <3>1, <3>2
    <2> HIDE DEF j
    <2>5. u[d].kind = "dir" /\ u[j].kind \in {"reg", "dir"} /\ u[j].parent = d
      BY <1>10, <2>1, <2>3, <2>4
    <2>6. ASSUME NEW l \in DOMAIN u[d].entries, u[d].entries[l].inode = j
          PROVE  l = k
      BY <1>10, <2>1, <2>3, <2>6
    <2> QED
      BY <2>2, <2>3, <2>5, <2>6 DEF EntryFits
  <1>15. ASSUME NEW j \in Inodes, u[j].kind \in {"reg", "dir"}, j # Root
         PROVE  Listed(u, j)
    <2>1. j # i
      BY <1>7, <1>8, <1>15
    <2>2. t[j].kind \in {"reg", "dir"} /\ u[j].parent = t[j].parent
      BY <1>10, <1>15, <2>1
    <2>3. Listed(t, j)
      BY <1>15, <2>2 DEF Tree
    <2> DEFINE d == t[j].parent
    <2>4. PICK k \in DOMAIN t[d].entries : d \in Inodes /\ t[d].entries[k].inode = j
      BY <2>3 DEF Listed
    <2> HIDE DEF d
    <2>5. k \in DOMAIN u[d].entries /\ u[d].entries[k].inode = j
      <3>1. CASE d = dir
        <4>1. k \in 1 .. n - 1
          BY <1>3, <2>1, <2>4, <3>1
        <4> QED
          BY <1>4, <1>7, <1>9, <2>4, <3>1, <4>1
      <3>2. CASE d = i
        <4>1. DOMAIN <<>> = {}
          OBVIOUS
        <4> QED
          BY <2>4, <3>2, <4>1
      <3>3. CASE d # dir /\ d # i
        BY <1>7, <2>4, <3>3
      <3> QED
        BY <3>1, <3>2, <3>3
    <2> USE DEF d
    <2> QED
      BY <2>2, <2>4, <2>5 DEF Listed
  <1>16. ASSUME NEW j \in Inodes, NEW k \in 0 .. u[j].size - 1
         PROVE  u[j].bytes[k] = k
    <2>1. CASE j = i
      BY <1>7, <1>8, <1>16, <2>1
    <2>2. CASE j # i
      <3>1. u[j].size = t[j].size /\ u[j].bytes = t[j].bytes
        BY <1>10, <2>2
      <3> QED
        BY <1>16, <3>1 DEF Tree
    <2> QED
      BY <2>1, <2>2
  <1>17. Tree(u)
    BY <1>11, <1>12, <1>13, <1>14, <1>15, <1>16 DEF Tree
  <1> QED
    BY <1>10, <1>17 DEF u

\* Size and bytes change, the rest of an inode does not.
Rewritten(t, i, size, bytes) == [t EXCEPT ![i].size = size, ![i].bytes = bytes]
\* Rewriting the bytes of an inode keeps the tree.
LEMMA BytesChange ==
  ASSUME NEW t, Tree(t), NEW i \in Inodes, NEW size \in 0 .. MaxSize,
         NEW bytes \in [Positions -> Positions \cup {Nothing}],
         \A k \in 0 .. size - 1 : bytes[k] = k
  PROVE  LET u == Rewritten(t, i, size, bytes)
         IN  /\ Tree(u) /\ u[i].size = size
             /\ \A j \in Inodes : u[j].kind = t[j].kind
             /\ \A j \in Inodes : j # i => u[j].size = t[j].size
  <1> DEFINE r == [t[i] EXCEPT !.size = size, !.bytes = bytes]
             u == Rewritten(t, i, size, bytes)
  <1>1. t \in [Inodes -> InodeTypes] /\ t[i] \in InodeTypes
    BY DEF Tree
  <1>2. /\ u = [j \in Inodes |-> u[j]] /\ u[i] = r
        /\ \A j \in Inodes : j # i => u[j] = t[j]
    BY <1>1 DEF Rewritten
  <1>3. /\ r.size = size /\ r.bytes = bytes /\ r.kind = t[i].kind /\ r.parent = t[i].parent
        /\ r.entries = t[i].entries /\ r \in InodeTypes
    BY <1>1 DEF InodeTypes
  <1> HIDE DEF r, u
  <1>4. ASSUME NEW j \in Inodes
        PROVE  /\ u[j].kind = t[j].kind /\ u[j].parent = t[j].parent
               /\ u[j].entries = t[j].entries /\ u[j] \in InodeTypes
    BY <1>1, <1>2, <1>3
  <1>5. u \in [Inodes -> InodeTypes]
    BY <1>2, <1>4
  <1>6. u[Root].kind = "dir" /\ u[Root].parent = Null
    BY <1>4, InodeNumbers DEF Tree
  <1>7. \A j, k \in Inodes : j < k /\ u[j].kind = "unborn" => u[k].kind = "unborn"
    BY <1>4 DEF Tree
  <1>8. ASSUME NEW d \in Inodes, NEW k \in DOMAIN u[d].entries
        PROVE  EntryFits(u, d, k)
    <2>1. EntryFits(t, d, k) /\ t[d].entries[k].inode \in Inodes
      BY <1>4, InodeFields DEF Tree
    <2> QED
      BY <1>4, <2>1 DEF EntryFits
  <1>9. ASSUME NEW j \in Inodes, u[j].kind \in {"reg", "dir"}, j # Root
        PROVE  Listed(u, j)
    <2>1. Listed(t, j)
      BY <1>4, <1>9 DEF Tree
    <2> QED
      BY <1>4, <2>1 DEF Listed
  <1>10. ASSUME NEW j \in Inodes, NEW k \in 0 .. u[j].size - 1
         PROVE  u[j].bytes[k] = k
    BY <1>2, <1>3, <1>10 DEF Tree
  <1> QED
    BY <1>2, <1>3, <1>4, <1>5, <1>6, <1>7, <1>8, <1>9, <1>10 DEF Tree, u

\* A file loses its contents.
Emptied(t, i) == [t EXCEPT ![i].size = 0]
\* Truncating a file keeps the tree.
LEMMA TruncKeeps ==
  ASSUME NEW t, Tree(t), NEW i \in Inodes
  PROVE  /\ Tree(Emptied(t, i))
         /\ \A j \in Inodes : Emptied(t, i)[j].kind = t[j].kind
  <1> DEFINE u == Emptied(t, i)
  <1> DEFINE b == t[i].bytes
  <1>1. t \in [Inodes -> InodeTypes] /\ t[i] \in InodeTypes
    BY DEF Tree
  <1>2. b \in [Positions -> Positions \cup {Nothing}]
    BY InodeFields
  <1>3. u = [t EXCEPT ![i].size = 0, ![i].bytes = b]
    BY <1>1 DEF InodeTypes, Emptied
  <1>8. \A j \in Inodes : u[j].kind = t[j].kind
    BY <1>1 DEF Emptied
  <1> HIDE DEF b
  <1>4. PICK size \in 0 .. MaxSize : size = 0
    BY ConstantTypes
  <1>5. \A k \in 0 .. size - 1 : b[k] = k
    BY <1>4
  <1>6. u = Rewritten(t, i, size, b)
    BY <1>3, <1>4 DEF Rewritten
  <1>7. Tree(Rewritten(t, i, size, b))
    BY <1>2, <1>5, BytesChange
  <1> QED
    BY <1>6, <1>7, <1>8

\* The greater one of two numbers.
LEMMA MaxOfTwo ==
  ASSUME NEW a \in Int, NEW b \in Int
  PROVE  Max({a, b}) = IF a >= b THEN a ELSE b
  BY DEF Max

\* The lesser one of two numbers.
LEMMA MinOfTwo ==
  ASSUME NEW a \in Int, NEW b \in Int
  PROVE  Min({a, b}) = IF a <= b THEN a ELSE b
  BY DEF Min

\* The least of three, two of which are in order.
LEMMA MinOfThree ==
  ASSUME NEW a \in Int, NEW b \in Int, NEW c \in Int, b <= c
  PROVE  Min({a, b, c}) = IF a <= b THEN a ELSE b
  BY DEF Min

\* A run of positions.
LEMMA RunIs ==
  ASSUME NEW first \in Nat, NEW n \in Nat
  PROVE  /\ Len(Run(first, n)) = n
         /\ \A j \in 1 .. n : Run(first, n)[j] = first + j - 1
  BY DEF Run

\* Bytes that are written at the end are the ones that belong there.
LEMMA WriteKeeps ==
  ASSUME NEW t, Tree(t), NEW i \in Inodes, NEW n \in Nat, t[i].size + n <= MaxSize,
         NEW u, u = ramfs_write(t, i, Run(t[i].size, n), t[i].size)
  PROVE  /\ Tree(u) /\ u[i].size = t[i].size + n
         /\ \A j \in Inodes : u[j].kind = t[j].kind
         /\ \A j \in Inodes : j # i => u[j].size = t[j].size
  <1> DEFINE offset == t[i].size
             run == Run(offset, n)
             old == t[i].bytes
             new == [k \in Positions |-> IF k - offset \in 0 .. Len(run) - 1
                                         THEN run[k - offset + 1] ELSE old[k]]
  <1>1. t \in [Inodes -> InodeTypes] /\ t[i] \in InodeTypes
    BY DEF Tree
  <1>2. /\ offset \in Nat /\ offset <= MaxSize /\ MaxSize \in Nat
        /\ old \in [Positions -> Positions \cup {Nothing}]
        /\ \A k \in 0 .. offset - 1 : old[k] = k
    BY InodeFields, ConstantTypes DEF Tree
  <1>3. /\ Len(run) = n /\ \A j \in 1 .. n : run[j] = offset + j - 1
    BY <1>2, RunIs
  <1>4. u = [t EXCEPT ![i].size = offset + n, ![i].bytes = new]
    <2>1. u = [t EXCEPT ![i].size = @ + Len(run),
                        ![i].bytes = [k \in Positions |->
                          IF k - offset \in 0 .. Len(run) - 1
                          THEN run[k - offset + 1] ELSE @[k]]]
      BY DEF ramfs_write
    <2> HIDE DEF run
    <2> QED
      BY <1>1, <1>3, <2>1 DEF InodeTypes
  <1> HIDE DEF run, old, offset
  <1>5. ASSUME NEW k \in Positions
        PROVE  new[k] = IF k >= offset /\ k < offset + n THEN k ELSE old[k]
    <2>1. k \in Nat
      BY ConstantTypes DEF Positions
    <2>2. k - offset \in 0 .. Len(run) - 1 <=> k >= offset /\ k < offset + n
      BY <1>2, <1>3, <2>1
    <2>3. k >= offset /\ k < offset + n => run[k - offset + 1] = k
      <3>1. k >= offset /\ k < offset + n => k - offset + 1 \in 1 .. n
        BY <1>2, <2>1
      <3> QED
        BY <1>2, <1>3, <2>1, <3>1
    <2> QED
      BY <2>2, <2>3
  <1>6. new \in [Positions -> Positions \cup {Nothing}]
    <2>1. \A k \in Positions : new[k] \in Positions \cup {Nothing}
      BY <1>2, <1>5
    <2> HIDE DEF new
    <2>2. new = [k \in Positions |-> new[k]]
      BY DEF new
    <2> QED
      BY <2>1, <2>2
  <1> HIDE DEF new
  <1>7. PICK size \in 0 .. MaxSize : size = offset + n
    <2>1. offset + n \in 0 .. MaxSize
      BY <1>2 DEF offset
    <2> QED
      BY <2>1
  <1>8. ASSUME NEW k \in 0 .. size - 1
        PROVE  new[k] = k
    <2>1. k \in Positions /\ k \in Nat
      BY <1>2, <1>8, <1>7 DEF Positions, offset
    <2>2. k < offset => k \in 0 .. offset - 1
      BY <1>2, <2>1
    <2> QED
      BY <1>2, <1>5, <1>8, <1>7, <2>1, <2>2
  <1>9. u = Rewritten(t, i, size, new)
    BY <1>4, <1>7 DEF Rewritten
  <1>10. /\ Tree(u) /\ u[i].size = size
         /\ \A j \in Inodes : u[j].kind = t[j].kind
         /\ \A j \in Inodes : j # i => u[j].size = t[j].size
    BY <1>6, <1>8, <1>9, BytesChange
  <1> QED
    BY <1>7, <1>10 DEF offset

\* A read returns the bytes that belong at its position, and as many as there are.
LEMMA ReadReturns ==
  ASSUME NEW t, Tree(t), NEW i \in Inodes, NEW n \in Nat, NEW pos \in Nat
  PROVE  ramfs_read(t, i, n, pos) = Run(pos, Min({n, Max({t[i].size - pos, 0})}))
  <1> DEFINE size == t[i].size
             last == Min({pos + n, size, MaxSize})
             count == Max({last - pos, 0})
             some == Min({n, Max({size - pos, 0})})
  <1>1. size \in Nat /\ size <= MaxSize /\ MaxSize \in Nat
        /\ \A k \in 0 .. size - 1 : t[i].bytes[k] = k
    BY InodeFields, ConstantTypes DEF Tree
  <1>2. last = IF pos + n <= size THEN pos + n ELSE size
    <2> HIDE DEF size
    <2> QED
      BY <1>1, MinOfThree
  <1>3. ramfs_read(t, i, n, pos) = [k \in 1 .. count |-> t[i].bytes[pos + k - 1]]
    BY DEF ramfs_read
  <1> HIDE DEF size, last
  <1>4. count = IF last >= pos THEN last - pos ELSE 0
    BY <1>1, <1>2, MaxOfTwo
  <1>5. some = IF size - pos >= 0 THEN (IF n <= size - pos THEN n ELSE size - pos) ELSE 0
    <2>1. PICK rest \in Int : rest = size - pos
      BY <1>1
    <2>2. Max({rest, 0}) = IF rest >= 0 THEN rest ELSE 0
      BY MaxOfTwo
    <2>3. PICK left \in Int : left = Max({rest, 0})
      BY <2>2
    <2>4. Min({n, left}) = IF n <= left THEN n ELSE left
      BY MinOfTwo
    <2>5. some = Min({n, left})
      BY <2>1, <2>3
    <2> HIDE DEF some
    <2> QED
      BY <1>1, <2>1, <2>2, <2>3, <2>4, <2>5
  <1> HIDE DEF count, some
  <1>6. count = some /\ count \in Nat
    BY <1>1, <1>2, <1>4, <1>5
  <1>7. ASSUME NEW k \in 1 .. count
        PROVE  t[i].bytes[pos + k - 1] = pos + k - 1
    <2>1. pos + k - 1 \in 0 .. size - 1
      BY <1>1, <1>2, <1>4, <1>6, <1>7
    <2> QED
      BY <1>1, <2>1
  <1> QED
    BY <1>3, <1>6, <1>7 DEF Run, some, size

\* The tree of the invariant lists exactly what there is.
LEMMA TreeLists ==
  ASSUME Tree(fs)
  PROVE  TreeExact
  <1> DEFINE listed(i) == {e \in Inodes \X (1 .. MaxInode) :
                             /\ e[2] \in DOMAIN fs[e[1]].entries
                             /\ fs[e[1]].entries[e[2]].inode = i}
  <1>1. ASSUME NEW i \in Inodes, NEW e \in listed(i)
        PROVE  /\ i # Root /\ fs[i].kind \in {"reg", "dir"} /\ e[1] = fs[i].parent
               /\ \A l \in DOMAIN fs[e[1]].entries : fs[e[1]].entries[l].inode = i => l = e[2]
    <2>1. e[1] \in Inodes /\ e[2] \in DOMAIN fs[e[1]].entries /\ fs[e[1]].entries[e[2]].inode = i
      OBVIOUS
    <2>2. EntryFits(fs, e[1], e[2])
      BY <2>1 DEF Tree
    <2> QED
      BY <2>1, <2>2 DEF EntryFits
  <1>2. ASSUME NEW i \in Inodes, fs[i].kind \in {"reg", "dir"}, i # Root
        PROVE  \E k \in 1 .. MaxInode : listed(i) = {<<fs[i].parent, k>>}
    <2> DEFINE d == fs[i].parent
    <2>1. Listed(fs, i)
      BY <1>2 DEF Tree
    <2>2. PICK k \in DOMAIN fs[d].entries : d \in Inodes /\ fs[d].entries[k].inode = i
      BY <2>1 DEF Listed
    <2>3. EntryFits(fs, d, k)
      BY <2>2 DEF Tree
    <2>4. k \in 1 .. MaxInode
      <3>1. k <= i
        BY <2>2, <2>3 DEF EntryFits
      <3>2. Len(fs[d].entries) \in Nat /\ DOMAIN fs[d].entries = 1 .. Len(fs[d].entries)
        BY <2>2, InodeFields
      <3>3. k \in Nat /\ k >= 1
        BY <2>2, <3>2
      <3>4. i \in Nat /\ i <= MaxInode
        BY ConstantTypes DEF Inodes
      <3> QED
        BY <3>1, <3>3, <3>4, ConstantTypes
    <2>5. <<d, k>> \in listed(i)
      BY <2>2, <2>4
    <2>6. ASSUME NEW e \in listed(i)
          PROVE  e = <<d, k>>
      <3>1. e[1] = d /\ (\A l \in DOMAIN fs[e[1]].entries : fs[e[1]].entries[l].inode = i => l = e[2])
        BY <1>1
      <3>2. e[2] = k
        BY <2>2, <3>1
      <3>3. e = <<e[1], e[2]>>
        OBVIOUS
      <3> QED
        BY <3>1, <3>2, <3>3
    <2> QED
      BY <2>4, <2>5, <2>6
  <1>3. ASSUME NEW i \in Inodes, ~(fs[i].kind \in {"reg", "dir"} /\ i # Root)
        PROVE  listed(i) = {}
    BY <1>1, <1>3
  <1> QED
    BY <1>2, <1>3 DEF TreeExact

-----------------------------------------------------------------------------
(* The tables                                                              *)

ProcessTypes ==
  [state : {"none", "running", "reading", "dead"}, parent : Pids \cup {0}, pwd : Inodes,
   count : 0 .. MAX_OPEN_FILE_DESCRIPTORS, table : [Fds -> FileIds \cup {None, Stale}],
   blocked : [fd : Fds \cup {None}, offset : {0}, count : 0 .. MaxTransfer]]
FileTypes ==
  [kind : {"free", "tty", "reg", "dir", "read end", "write end"}, ref : Refs,
   pos : 0 .. MaxSize + MaxSent + MaxInode, owner : Pids \cup {0}]

Living(ps, p) == ps[p].state \in {"running", "reading"}
EmptyTable == [d \in Fds |-> None]

\* The descriptors below the count are in use, each for a File of its own.
TableFits(ps, os, p) ==
  LET e == ps[p].table
  IN  /\ ps[p].count >= 3
      /\ \A d \in Fds : d < ps[p].count =>
           /\ e[d] \in FileIds /\ os[e[d]].kind # "free"
           /\ d \in Stdio => e[d] = d
           /\ \A c \in Fds : e[c] = e[d] => c = d
      /\ \A d \in Fds : d >= ps[p].count => e[d] = None

\* A File lies at the home of the descriptor that its owner has it at.
OwnerHas(ps, os, f) ==
  LET p == os[f].owner
  IN  /\ p \in Pids /\ Living(ps, p)
      /\ \E d \in Fds \ Stdio : f = Home(p, d) /\ ps[p].table[d] = f

FileFits(ps, os, f) ==
  /\ f \in Stdio => os[f] = NewFile("tty", Null, 0)
  /\ f \notin Stdio => os[f].kind # "tty"
  /\ os[f].kind = "free" => os[f] = NoFile
  /\ f \notin Stdio /\ os[f].kind # "free" => OwnerHas(ps, os, f)

Tables(ps, os) ==
  /\ ps \in [Pids -> ProcessTypes] /\ os \in [FileIds -> FileTypes]
  /\ \A p \in Pids : Living(ps, p) => TableFits(ps, os, p)
  /\ \A p \in Pids : ~Living(ps, p) => ps[p].table = EmptyTable
  /\ \A f \in FileIds : FileFits(ps, os, f)

\* Descriptors and Files, and which of them are standard.
LEMMA Descriptors ==
  /\ Fds \subseteq Nat /\ Stdio \subseteq Fds /\ Stdio \subseteq FileIds /\ Pids \subseteq Nat
  /\ \A d \in Fds : d < MAX_OPEN_FILE_DESCRIPTORS
  /\ \A d \in Nat : d < MAX_OPEN_FILE_DESCRIPTORS => d \in Fds
  /\ \A d \in Nat : d \in Stdio <=> d < 3
  /\ None \notin FileIds /\ Stale \notin FileIds /\ None # Stale
  <1>1. MaxPid * (MAX_OPEN_FILE_DESCRIPTORS - 3) \in Nat
    BY ConstantTypes
  <1> QED
    BY <1>1, ConstantTypes DEF Fds, Stdio, FileIds, Pids, None, Stale

\* Two descriptors are in one order or the other.
LEMMA InOrder ==
  ASSUME NEW c \in Fds, NEW d \in Fds
  PROVE  c < d \/ c >= d
  <1>1. c \in Nat /\ d \in Nat
    BY Descriptors
  <1> QED
    BY <1>1

\* Homes are addresses, and no two are the same.
LEMMA HomeIsFile ==
  ASSUME NEW p \in Pids, NEW d \in Fds \ Stdio
  PROVE  Home(p, d) \in FileIds /\ Home(p, d) \notin Stdio
  <1> DEFINE n == MAX_OPEN_FILE_DESCRIPTORS - 3
  <1>1. n \in Nat /\ p \in Nat /\ p >= 1 /\ p <= MaxPid /\ MaxPid \in Nat
    BY ConstantTypes DEF Pids
  <1>2. d \in Nat /\ d >= 3 /\ d <= n + 2
    BY ConstantTypes, Descriptors DEF Fds, Stdio
  <1> HIDE DEF n
  <1>3. (p - 1) * n \in Nat /\ (p - 1) * n <= (MaxPid - 1) * n
    <2>1. \A k \in Nat : p - 1 <= k => (p - 1) * n <= k * n
      <3>1. ASSUME NEW k \in Nat, p - 1 <= k
            PROVE  (p - 1) * n <= k * n
        <4>1. k * n = (p - 1) * n + (k - (p - 1)) * n
          BY <1>1, <3>1
        <4>2. (k - (p - 1)) * n \in Nat /\ (p - 1) * n \in Nat
          BY <1>1, <3>1
        <4> QED
          BY <4>1, <4>2
      <3> QED
        BY <3>1
    <2>2. MaxPid - 1 \in Nat /\ p - 1 <= MaxPid - 1 /\ p - 1 \in Nat
      BY <1>1
    <2> QED
      BY <1>1, <2>1, <2>2
  <1>4. MaxPid * n = (MaxPid - 1) * n + n /\ MaxPid * n \in Nat
    BY <1>1
  <1>5. Home(p, d) = d + (p - 1) * n
    BY DEF Home, n
  <1>6. FileIds = 0 .. 2 + MaxPid * n
    BY DEF FileIds, n
  <1>7. (MaxPid - 1) * n \in Nat
    BY <1>1
  <1> QED
    BY <1>1, <1>2, <1>3, <1>4, <1>5, <1>6, <1>7 DEF Stdio

\* Every descriptor of every process has a home of its own.
LEMMA HomeInjective ==
  ASSUME NEW p \in Pids, NEW d \in Fds \ Stdio, NEW q \in Pids, NEW e \in Fds \ Stdio,
         Home(p, d) = Home(q, e)
  PROVE  p = q /\ d = e
  <1> DEFINE n == MAX_OPEN_FILE_DESCRIPTORS - 3
  <1>1. n \in Nat /\ p \in Nat /\ q \in Nat
    BY ConstantTypes DEF Pids
  <1>2. d \in Nat /\ d >= 3 /\ d < n + 3 /\ e \in Nat /\ e >= 3 /\ e < n + 3
    BY ConstantTypes, Descriptors DEF Fds, Stdio
  <1>3. d + (p - 1) * n = e + (q - 1) * n
    BY DEF Home, n
  <1> HIDE DEF n
  <1>4. ASSUME NEW x \in Nat, NEW y \in Nat, x < y
        PROVE  (y - 1) * n >= (x - 1) * n + n
    <2>1. (y - 1) * n = (x - 1) * n + n + (y - x - 1) * n
      BY <1>1
    <2>2. (y - x - 1) * n \in Nat /\ (x - 1) * n \in Int
      BY <1>1, <1>4
    <2> QED
      BY <1>1, <2>1, <2>2
  <1>5. (p - 1) * n \in Int /\ (q - 1) * n \in Int
    BY <1>1
  <1>6. ~(p < q)
    BY <1>1, <1>2, <1>3, <1>4, <1>5
  <1>7. ~(q < p)
    BY <1>1, <1>2, <1>3, <1>4, <1>5
  <1>8. p = q
    BY <1>1, <1>6, <1>7
  <1> QED
    BY <1>2, <1>3, <1>5, <1>8

\* What a process keeps of files.
LEMMA ProcessFields ==
  ASSUME NEW ps, NEW os, Tables(ps, os), NEW p \in Pids
  PROVE  /\ ps[p] \in ProcessTypes
         /\ ps[p].count \in Nat /\ ps[p].count <= MAX_OPEN_FILE_DESCRIPTORS
         /\ ps[p].table \in [Fds -> FileIds \cup {None, Stale}]
         /\ ps[p].state \in {"none", "running", "reading", "dead"}
         /\ ps[p].pwd \in Inodes
  <1>1. ps[p] \in ProcessTypes
    BY DEF Tables
  <1>2. ps[p].count \in 0 .. MAX_OPEN_FILE_DESCRIPTORS
    BY <1>1 DEF ProcessTypes
  <1>3. ps[p].count \in Nat /\ ps[p].count <= MAX_OPEN_FILE_DESCRIPTORS
    BY <1>2, ConstantTypes
  <1> QED
    BY <1>1, <1>3 DEF ProcessTypes

\* What a File has.
LEMMA FileFields ==
  ASSUME NEW ps, NEW os, Tables(ps, os), NEW f \in FileIds
  PROVE  /\ os[f] \in FileTypes
         /\ os[f].pos \in Nat /\ os[f].owner \in Pids \cup {0} /\ os[f].ref \in Refs
         /\ os[f].kind \in {"free", "tty", "reg", "dir", "read end", "write end"}
  <1>1. os[f] \in FileTypes
    BY DEF Tables
  <1>2. os[f].pos \in 0 .. MaxSize + MaxSent + MaxInode
    BY <1>1 DEF FileTypes
  <1>3. os[f].pos \in Nat
    BY <1>2, ConstantTypes
  <1> QED
    BY <1>1, <1>3 DEF FileTypes

\* A process's descriptors, in the words of the model.
LEMMA UsedIs ==
  ASSUME Tables(proc, file), NEW p \in Pids, Living(proc, p)
  PROVE  Used(p) = 0 .. proc[p].count - 1
  <1>1. /\ proc[p].count \in Nat /\ proc[p].count <= MAX_OPEN_FILE_DESCRIPTORS
        /\ TableFits(proc, file, p)
    BY ProcessFields DEF Tables
  <1>2. ASSUME NEW d \in Fds
        PROVE  Entry(p, d) # None <=> d < proc[p].count
    <2>1. d \in Nat
      BY Descriptors
    <2>2. CASE d < proc[p].count
      <3>1. proc[p].table[d] \in FileIds
        BY <1>1, <2>2 DEF TableFits
      <3> QED
        BY <2>2, <3>1, Descriptors DEF Entry
    <2>3. CASE ~(d < proc[p].count)
      <3>1. d >= proc[p].count
        BY <1>1, <2>1, <2>3
      <3>2. proc[p].table[d] = None
        BY <1>1, <3>1 DEF TableFits
      <3> QED
        BY <2>3, <3>2 DEF Entry
    <2> QED
      BY <2>2, <2>3
  <1> DEFINE n == proc[p].count
  <1>3. Used(p) = {d \in Fds : d < n}
    BY <1>2 DEF Used
  <1> HIDE DEF n
  <1>4. n \in Nat /\ n <= MAX_OPEN_FILE_DESCRIPTORS
    BY <1>1 DEF n
  <1>5. {d \in Fds : d < n} = 0 .. n - 1
    BY <1>4, ConstantTypes DEF Fds
  <1> QED
    BY <1>3, <1>5 DEF n

\* The home of a descriptor that is not in use is free.
LEMMA HomeIsFree ==
  ASSUME NEW ps, NEW os, Tables(ps, os), NEW p \in Pids, NEW d \in Fds \ Stdio,
         ps[p].table[d] = None
  PROVE  os[Home(p, d)].kind = "free"
  <1> DEFINE f == Home(p, d)
  <1>1. f \in FileIds /\ f \notin Stdio
    BY HomeIsFile
  <1>2. ASSUME os[f].kind # "free"
        PROVE  FALSE
    <2>1. OwnerHas(ps, os, f)
      BY <1>1, <1>2 DEF Tables, FileFits
    <2>2. PICK q \in Pids, e \in Fds \ Stdio : f = Home(q, e) /\ ps[q].table[e] = f
      BY <2>1 DEF OwnerHas
    <2>3. q = p /\ e = d
      BY <2>2, HomeInjective
    <2> QED
      BY <1>1, <2>2, <2>3, Descriptors
  <1> QED
    BY <1>2

\* What the invariant says of a descriptor in use.
LEMMA InUse ==
  ASSUME NEW ps, NEW os, Tables(ps, os), NEW p \in Pids, Living(ps, p), NEW d \in Fds
  PROVE  /\ d < ps[p].count => /\ ps[p].table[d] \in FileIds
                               /\ os[ps[p].table[d]].kind # "free"
                               /\ ps[p].table[d] \in Stdio <=> d \in Stdio
         /\ d >= ps[p].count <=> ps[p].table[d] = None
         /\ ps[p].table[d] # Stale
         /\ \A c \in Fds : ps[p].table[d] # None /\ ps[p].table[c] = ps[p].table[d] => c = d
  <1> DEFINE e == ps[p].table
  <1>1. TableFits(ps, os, p) /\ ps[p].count \in Nat /\ d \in Nat /\ ps[p].count >= 3
    BY ProcessFields, Descriptors DEF Tables, TableFits
  <1>2. \A c \in Stdio : c \in Fds /\ c < ps[p].count
    BY <1>1, Descriptors DEF Stdio
  <1>3. CASE d < ps[p].count
    <2>1. /\ e[d] \in FileIds /\ os[e[d]].kind # "free" /\ (d \in Stdio => e[d] = d)
          /\ \A c \in Fds : e[c] = e[d] => c = d
      BY <1>1, <1>3 DEF TableFits
    <2>2. ASSUME e[d] \in Stdio
          PROVE  d \in Stdio
      <3>1. e[e[d]] = e[d]
        BY <1>1, <1>2, <2>2 DEF TableFits
      <3> QED
        BY <1>2, <2>1, <2>2, <3>1
    <2>3. d >= ps[p].count <=> e[d] = None
      BY <1>1, <1>3, <2>1, Descriptors
    <2> QED
      BY <2>1, <2>2, <2>3, Descriptors
  <1>4. CASE ~(d < ps[p].count)
    <2>1. d >= ps[p].count
      BY <1>1, <1>4
    <2>2. e[d] = None
      BY <1>1, <2>1 DEF TableFits
    <2> QED
      BY <1>4, <2>1, <2>2, Descriptors
  <1> QED
    BY <1>3, <1>4

\* A File changes, of the same kind and owner.
LEMMA FileChange ==
  ASSUME NEW ps, NEW os, Tables(ps, os), NEW f \in FileIds \ Stdio, os[f].kind # "free",
         NEW o \in FileTypes, o.kind = os[f].kind, o.owner = os[f].owner
  PROVE  Tables(ps, [os EXCEPT ![f] = o])
  <1> DEFINE vs == [os EXCEPT ![f] = o]
  <1>1. os \in [FileIds -> FileTypes]
    BY DEF Tables
  <1>2. /\ vs \in [FileIds -> FileTypes] /\ vs[f] = o
        /\ \A g \in FileIds : g # f => vs[g] = os[g]
    BY <1>1
  <1> HIDE DEF vs
  <1>3. \A g \in FileIds : vs[g].kind = os[g].kind /\ vs[g].owner = os[g].owner
    BY <1>2
  <1>4. ASSUME NEW p \in Pids, Living(ps, p)
        PROVE  TableFits(ps, vs, p)
    <2>1. TableFits(ps, os, p)
      BY <1>4 DEF Tables
    <2> QED
      BY <1>3, <2>1 DEF TableFits
  <1>5. ASSUME NEW g \in FileIds
        PROVE  FileFits(ps, vs, g)
    <2>1. FileFits(ps, os, g)
      BY DEF Tables
    <2>2. vs[g].kind = os[g].kind /\ vs[g].owner = os[g].owner
      BY <1>3
    <2>3. g # f => vs[g] = os[g]
      BY <1>2
    <2> QED
      BY <2>1, <2>2, <2>3 DEF FileFits, OwnerHas
  <1> QED
    BY <1>2, <1>4, <1>5 DEF Tables, vs

\* A process changes, but for its table, or a new one gets a copy of it.
LEMMA TableCopied ==
  ASSUME NEW ps, NEW os, Tables(ps, os), NEW p \in Pids, Living(ps, p),
         NEW c \in Pids, c = p \/ ~Living(ps, c), NEW x \in ProcessTypes,
         x.table = ps[p].table, x.count = ps[p].count, x.state \in {"running", "reading"}
  PROVE  Tables([ps EXCEPT ![c] = x], os)
  <1> DEFINE qs == [ps EXCEPT ![c] = x]
  <1>1. ps \in [Pids -> ProcessTypes]
    BY DEF Tables
  <1>2. /\ qs \in [Pids -> ProcessTypes] /\ qs[c] = x
        /\ \A q \in Pids : q # c => qs[q] = ps[q]
    BY <1>1
  <1> HIDE DEF qs
  <1>3. \A q \in Pids : Living(ps, q) =>
          Living(qs, q) /\ qs[q].table = ps[q].table /\ qs[q].count = ps[q].count
    BY <1>2 DEF Living
  <1>4. ASSUME NEW q \in Pids, Living(qs, q)
        PROVE  TableFits(qs, os, q)
    <2>1. CASE q = c
      <3>1. TableFits(ps, os, p)
        BY DEF Tables
      <3> QED
        BY <1>2, <2>1, <3>1 DEF TableFits
    <2>2. CASE q # c
      <3>1. TableFits(ps, os, q)
        BY <1>2, <1>4, <2>2 DEF Tables, Living
      <3> QED
        BY <1>2, <2>2, <3>1 DEF TableFits
    <2> QED
      BY <2>1, <2>2
  <1>5. ASSUME NEW q \in Pids, ~Living(qs, q)
        PROVE  qs[q].table = EmptyTable
    <2>1. q # c
      BY <1>2, <1>5 DEF Living
    <2> QED
      BY <1>2, <1>5, <2>1 DEF Tables, Living
  <1>6. ASSUME NEW g \in FileIds
        PROVE  FileFits(qs, os, g)
    <2>1. FileFits(ps, os, g)
      BY DEF Tables
    <2>2. OwnerHas(ps, os, g) => OwnerHas(qs, os, g)
      BY <1>3 DEF OwnerHas
    <2> QED
      BY <2>1, <2>2 DEF FileFits
  <1> QED
    BY <1>2, <1>4, <1>5, <1>6 DEF Tables, qs

\* A process gets its next descriptor, for a new File at its home.
LEMMA OpenKeeps ==
  ASSUME NEW ps, NEW os, Tables(ps, os), NEW p \in Pids, Living(ps, p),
         NEW d \in Fds, d = ps[p].count, NEW o \in FileTypes, o.owner = p,
         o.kind \notin {"free", "tty"}, NEW x \in ProcessTypes, x.state = ps[p].state,
         x.table = [ps[p].table EXCEPT ![d] = Home(p, d)], x.count = d + 1
  PROVE  Tables([ps EXCEPT ![p] = x], [os EXCEPT ![Home(p, d)] = o])
  <1> DEFINE f == Home(p, d)
             qs == [ps EXCEPT ![p] = x]
             vs == [os EXCEPT ![f] = o]
  <1>1. ps \in [Pids -> ProcessTypes] /\ os \in [FileIds -> FileTypes]
        /\ ps[p].table \in [Fds -> FileIds \cup {None, Stale}]
    BY ProcessFields DEF Tables
  <1>2. TableFits(ps, os, p) /\ d \in Nat /\ d >= 3 /\ d \notin Stdio
    BY Descriptors DEF Tables, TableFits
  <1>3. f \in FileIds /\ f \notin Stdio
    BY <1>2, HomeIsFile
  <1>4. ps[p].table[d] = None
    BY <1>2 DEF TableFits
  <1>5. os[f].kind = "free"
    BY <1>2, <1>4, HomeIsFree
  <1> HIDE DEF f
  <1>6. /\ qs \in [Pids -> ProcessTypes] /\ qs[p] = x
        /\ \A q \in Pids : q # p => qs[q] = ps[q]
    BY <1>1
  <1>7. /\ vs \in [FileIds -> FileTypes] /\ vs[f] = o
        /\ \A g \in FileIds : g # f => vs[g] = os[g]
    BY <1>1, <1>3
  <1>8. x.table[d] = f /\ \A c \in Fds : c # d => x.table[c] = ps[p].table[c]
    BY <1>1 DEF f
  <1> HIDE DEF qs, vs
  <1>9. \A q \in Pids : Living(qs, q) <=> Living(ps, q)
    BY <1>6 DEF Living
  <1>10. ASSUME NEW q \in Pids, Living(ps, q), NEW c \in Fds, c < ps[q].count
         PROVE  ps[q].table[c] \in FileIds /\ ps[q].table[c] # f
    BY <1>5, <1>10, InUse
  <1>11. ASSUME NEW q \in Pids, q # p, Living(ps, q)
         PROVE  TableFits(qs, vs, q)
    <2>1. TableFits(ps, os, q)
      BY <1>11 DEF Tables
    <2> QED
      BY <1>6, <1>7, <1>10, <1>11, <2>1 DEF TableFits
  <1>12. TableFits(qs, vs, p)
    <2>1. \A c \in Fds : c < d + 1 => c = d \/ c < d
      BY <1>2, Descriptors
    <2>2. \A c \in Fds : c # d => x.table[c] # f
      <3>1. ASSUME NEW c \in Fds, c # d
            PROVE  ps[p].table[c] # f
        <4>1. c < d => ps[p].table[c] # f
          BY <1>10
        <4>2. c >= d => ps[p].table[c] = None
          BY <1>2 DEF TableFits
        <4>3. c < d \/ c >= d
          BY InOrder
        <4> QED
          BY <1>3, <4>1, <4>2, <4>3, Descriptors
      <3> QED
        BY <1>8, <3>1
    <2>3. ASSUME NEW c \in Fds, c < d
          PROVE  /\ x.table[c] \in FileIds /\ vs[x.table[c]].kind # "free"
                 /\ c \in Stdio => x.table[c] = c
                 /\ \A b \in Fds : x.table[b] = x.table[c] => b = c
      <3>1. c # d /\ x.table[c] = ps[p].table[c]
        BY <1>2, <1>8, <2>3, Descriptors
      <3>2. /\ ps[p].table[c] \in FileIds /\ os[ps[p].table[c]].kind # "free"
            /\ c \in Stdio => ps[p].table[c] = c
            /\ \A b \in Fds : ps[p].table[b] = ps[p].table[c] => b = c
        BY <1>2, <2>3 DEF TableFits
      <3>3. ps[p].table[c] # f
        BY <1>10, <2>3
      <3> QED
        BY <1>7, <1>8, <3>1, <3>2, <3>3
    <2>4. \A c \in Fds : c >= d + 1 => c # d /\ c >= d
      BY <1>2, Descriptors
    <2>5. \A c \in Fds : c >= d + 1 => x.table[c] = None
      BY <1>2, <1>8, <2>4 DEF TableFits
    <2>6. vs[f].kind # "free" /\ \A b \in Fds : x.table[b] = x.table[d] => b = d
      BY <1>7, <1>8, <2>2
    <2>7. \A c \in Fds : c < d + 1 =>
            /\ x.table[c] \in FileIds /\ vs[x.table[c]].kind # "free"
            /\ c \in Stdio => x.table[c] = c
            /\ \A b \in Fds : x.table[b] = x.table[c] => b = c
      BY <1>2, <1>3, <1>8, <2>1, <2>3, <2>6
    <2>8. qs[p] = x /\ x.count = d + 1 /\ x.count >= 3
      BY <1>2, <1>6
    <2> QED
      BY <2>5, <2>7, <2>8, ZenonT(60) DEF TableFits
  <1>13. ASSUME NEW g \in FileIds
         PROVE  FileFits(qs, vs, g)
    <2>1. CASE g = f
      <3>1. OwnerHas(qs, vs, f)
        BY <1>2, <1>6, <1>7, <1>8, <1>9 DEF OwnerHas, f
      <3> QED
        BY <1>3, <1>7, <2>1, <3>1 DEF FileFits
    <2>2. CASE g # f
      <3>1. FileFits(ps, os, g) /\ vs[g] = os[g]
        BY <1>7, <2>2 DEF Tables
      <3>2. ASSUME OwnerHas(ps, os, g)
            PROVE  OwnerHas(qs, vs, g)
        <4> DEFINE q == os[g].owner
        <4>1. PICK c \in Fds \ Stdio : g = Home(q, c) /\ ps[q].table[c] = g
          BY <3>2 DEF OwnerHas
        <4>2. q \in Pids /\ Living(qs, q)
          BY <1>9, <3>2 DEF OwnerHas
        <4>3. qs[q].table[c] = g
          <5>1. q = p => c # d
            BY <1>4, <4>1, Descriptors
          <5> QED
            BY <1>6, <1>8, <4>1, <4>2, <5>1
        <4> QED
          BY <3>1, <4>1, <4>2, <4>3 DEF OwnerHas
      <3> QED
        BY <3>1, <3>2 DEF FileFits
    <2> QED
      BY <2>1, <2>2
  <1> QED
    BY <1>6, <1>7, <1>9, <1>11, <1>12, <1>13 DEF Tables, qs, vs, f

\* Freeing Files leaves a process alone that has none of them.
LEMMA DanglingLeaves ==
  ASSUME NEW ps \in [Pids -> ProcessTypes], NEW freed, NEW q \in Pids,
         \A c \in Fds : ps[q].table[c] \notin freed
  PROVE  Dangling(ps, freed)[q] = ps[q]
  <1> DEFINE table == ps[q].table
  <1>1. ps[q] \in ProcessTypes /\ table \in [Fds -> FileIds \cup {None, Stale}]
    BY DEF ProcessTypes
  <1>2. [c \in Fds |-> IF table[c] \in freed THEN Stale ELSE table[c]] = table
    BY <1>1
  <1>3. Dangling(ps, freed)[q] =
          [ps[q] EXCEPT !.table = [c \in Fds |-> IF table[c] \in freed THEN Stale ELSE table[c]]]
    BY DEF Dangling
  <1>4. Dangling(ps, freed)[q] = [ps[q] EXCEPT !.table = table]
    BY <1>2, <1>3
  <1> QED
    BY <1>1, <1>4 DEF ProcessTypes

\* A process without its highest descriptor.
Closed(ps, p) ==
  [ps[p] EXCEPT !.table = [@ EXCEPT ![ps[p].count - 1] = None], !.count = @ - 1]

\* What is left of the processes when freed are gone and p forgets d.
Forgotten(ps, freed, p, d) ==
  [Dangling(ps, freed) EXCEPT ![p].table[d] = None, ![p].count = @ - 1]

\* When nobody shares the File, closing changes the closer's table only.
LEMMA ClosedIs ==
  ASSUME NEW ps, NEW os, Tables(ps, os), NEW p \in Pids, NEW d \in Fds, d = ps[p].count - 1,
         NEW freed, freed \subseteq {ps[p].table[d]},
         \A c \in Fds : ps[p].table[c] = ps[p].table[d] => c = d,
         \A q \in Pids \ {p} : \A c \in Fds : ps[q].table[c] \notin freed
  PROVE  Forgotten(ps, freed, p, d) = [ps EXCEPT ![p] = Closed(ps, p)]
  <1> DEFINE D == Dangling(ps, freed)
             table == ps[p].table
             marked == [c \in Fds |-> IF table[c] \in freed THEN Stale ELSE table[c]]
             closed == [table EXCEPT ![d] = None]
  <1>1. ps \in [Pids -> ProcessTypes] /\ ps[p] \in ProcessTypes
    BY DEF Tables
  <1>2. table \in [Fds -> FileIds \cup {None, Stale}]
    BY <1>1 DEF ProcessTypes
  <1>3. [marked EXCEPT ![d] = None] = closed
    BY <1>2
  <1>4. DOMAIN D = Pids /\ D[p] = [ps[p] EXCEPT !.table = marked]
    BY DEF Dangling
  <1>5. \A q \in Pids : q # p => D[q] = ps[q]
    BY <1>1, DanglingLeaves
  <1> HIDE DEF D, marked
  <1>6. D[p].table = marked /\ D[p].count = ps[p].count
    BY <1>1, <1>4 DEF ProcessTypes
  <1>7. [D EXCEPT ![p].table[d] = None, ![p].count = @ - 1]
          = [D EXCEPT ![p] = [D[p] EXCEPT !.table = closed, !.count = ps[p].count - 1]]
    BY <1>3, <1>4, <1>6
  <1>8. [D[p] EXCEPT !.table = closed, !.count = ps[p].count - 1] = Closed(ps, p)
    BY <1>1, <1>4 DEF ProcessTypes, Closed
  <1>9. [D EXCEPT ![p] = Closed(ps, p)] = [ps EXCEPT ![p] = Closed(ps, p)]
    BY <1>1, <1>4, <1>5
  <1> QED
    BY <1>7, <1>8, <1>9 DEF D, Forgotten

\* No other process has the File f of p.
NotShared(ps, p, f) ==
  \A q \in Pids : q # p /\ Living(ps, q) => \A c \in Fds : ps[q].table[c] # f

\* The Files after some were freed, and the ones that p frees when it closes f.
Without(os, freed) == [g \in FileIds |-> IF g \in freed THEN NoFile ELSE os[g]]
ClosedFiles(os, p, f) == IF os[f].owner = p THEN {f} ELSE {}

\* A table fits as long as it is the same and its Files are there.
LEMMA TableStays ==
  ASSUME NEW ps, NEW os, NEW q, TableFits(ps, os, q), NEW qs, NEW vs, qs[q] = ps[q],
         \A c \in Fds : c < ps[q].count => vs[ps[q].table[c]].kind # "free"
  PROVE  TableFits(qs, vs, q)
  BY DEF TableFits

\* A process gives up its highest descriptor; the File goes if it is the owner and
\* shares it with no one.
LEMMA CloseKeeps ==
  ASSUME NEW ps, NEW os, Tables(ps, os), NEW p \in Pids, Living(ps, p),
         NEW d \in Fds \ Stdio, d = ps[p].count - 1, NEW f, f = ps[p].table[d],
         os[f].owner = p => NotShared(ps, p, f)
  PROVE  Tables([ps EXCEPT ![p] = Closed(ps, p)], Without(os, ClosedFiles(os, p, f)))
  <1> DEFINE x == Closed(ps, p)
             qs == [ps EXCEPT ![p] = x]
             vs == Without(os, ClosedFiles(os, p, f))
  <1>1. ps \in [Pids -> ProcessTypes] /\ os \in [FileIds -> FileTypes] /\ ps[p] \in ProcessTypes
    BY DEF Tables
  <1>2. /\ ps[p].table \in [Fds -> FileIds \cup {None, Stale}] /\ ps[p].count \in Nat
        /\ d \in Nat /\ d >= 3 /\ ps[p].count = d + 1 /\ d < ps[p].count
        /\ ps[p].count <= MAX_OPEN_FILE_DESCRIPTORS
    BY ProcessFields, Descriptors
  <1>3. f \in FileIds /\ f \notin Stdio /\ os[f].kind # "free"
    <2>1. /\ ps[p].table[d] \in FileIds /\ ps[p].table[d] \notin Stdio
          /\ os[ps[p].table[d]].kind # "free"
      <3>1. d \in Fds /\ d \notin Stdio
        OBVIOUS
      <3>2. d < ps[p].count => /\ ps[p].table[d] \in FileIds
                               /\ os[ps[p].table[d]].kind # "free"
                               /\ (ps[p].table[d] \in Stdio <=> d \in Stdio)
        BY <3>1, InUse
      <3> QED
        BY <1>2, <3>1, <3>2
    <2> QED
      BY <2>1
  <1>4. \A c \in Fds : ps[p].table[c] = f => c = d
    BY <1>2, <1>3, Descriptors, InUse
  <1>5. /\ x.table = [ps[p].table EXCEPT ![d] = None] /\ x.count = d
        /\ x.state = ps[p].state /\ x \in ProcessTypes
    <2>1. x = [ps[p] EXCEPT !.table = [ps[p].table EXCEPT ![d] = None], !.count = d]
      BY <1>1, <1>2 DEF Closed, ProcessTypes
    <2>2. [ps[p].table EXCEPT ![d] = None] \in [Fds -> FileIds \cup {None, Stale}]
      BY <1>2
    <2>3. d \in 0 .. MAX_OPEN_FILE_DESCRIPTORS
      BY <1>2, ConstantTypes
    <2> QED
      BY <1>1, <2>1, <2>2, <2>3 DEF ProcessTypes
  <1>6. x.table[d] = None /\ \A c \in Fds : c # d => x.table[c] = ps[p].table[c]
    BY <1>2, <1>5
  <1>7. \A c \in Fds : x.table[c] # f
    BY <1>3, <1>4, <1>6, Descriptors
  <1> HIDE DEF x
  <1>8. /\ qs \in [Pids -> ProcessTypes] /\ qs[p] = x
        /\ \A q \in Pids : q # p => qs[q] = ps[q]
    BY <1>1, <1>5
  <1>9. NoFile \in FileTypes /\ NoFile.kind = "free"
    BY ConstantTypes DEF NoFile, FileTypes, Refs, Lost, Null
  <1>10. /\ vs \in [FileIds -> FileTypes]
         /\ \A g \in FileIds : g # f => vs[g] = os[g]
         /\ vs[f] = IF os[f].owner = p THEN NoFile ELSE os[f]
    BY <1>1, <1>3, <1>9 DEF Without, ClosedFiles
  <1> HIDE DEF qs, vs
  <1>11. \A q \in Pids : Living(qs, q) <=> Living(ps, q)
    BY <1>5, <1>8 DEF Living
  <1>12. ASSUME NEW q \in Pids, q # p, Living(ps, q)
         PROVE  TableFits(qs, vs, q)
    <2>1. TableFits(ps, os, q)
      BY <1>12 DEF Tables
    <2>2. ASSUME NEW c \in Fds, c < ps[q].count
          PROVE  vs[ps[q].table[c]].kind # "free"
      <3>1. ps[q].table[c] \in FileIds /\ os[ps[q].table[c]].kind # "free"
        BY <2>1, <2>2 DEF TableFits
      <3>2. ps[q].table[c] = f => os[f].owner # p
        BY <1>12 DEF NotShared
      <3> QED
        BY <1>10, <3>1, <3>2
    <2>3. qs[q] = ps[q]
      BY <1>8, <1>12
    <2> QED
      BY <2>1, <2>2, <2>3, TableStays
  <1>13. TableFits(qs, vs, p)
    <2>1. TableFits(ps, os, p)
      BY DEF Tables
    <2>2. \A c \in Fds : c < d => c # d /\ c < ps[p].count
      BY <1>2, Descriptors
    <2>3. ASSUME NEW c \in Fds, c < d
          PROVE  /\ x.table[c] \in FileIds /\ vs[x.table[c]].kind # "free"
                 /\ c \in Stdio => x.table[c] = c
                 /\ \A b \in Fds : x.table[b] = x.table[c] => b = c
      <3>1. /\ ps[p].table[c] \in FileIds /\ os[ps[p].table[c]].kind # "free"
            /\ c \in Stdio => ps[p].table[c] = c
            /\ \A b \in Fds : ps[p].table[b] = ps[p].table[c] => b = c
        BY <2>1, <2>2, <2>3 DEF TableFits
      <3>2. x.table[c] = ps[p].table[c] /\ x.table[c] # f
        BY <1>6, <1>7, <2>2, <2>3
      <3> QED
        BY <1>6, <1>10, <3>1, <3>2, Descriptors
    <2>4. ASSUME NEW c \in Fds, c >= d
          PROVE  x.table[c] = None
      <3>1. c = d \/ (c # d /\ c >= ps[p].count)
        BY <1>2, <2>4, Descriptors
      <3> QED
        BY <1>6, <2>1, <3>1 DEF TableFits
    <2>5. qs[p] = x /\ x.count = d /\ d >= 3
      BY <1>2, <1>5, <1>8
    <2> QED
      BY <2>3, <2>4, <2>5 DEF TableFits
  <1>14. ASSUME NEW q \in Pids, ~Living(ps, q)
         PROVE  qs[q].table = EmptyTable
    BY <1>8, <1>14 DEF Tables
  <1>15. ASSUME NEW g \in FileIds
         PROVE  FileFits(qs, vs, g)
    <2>1. FileFits(ps, os, g)
      BY DEF Tables
    <2>2. CASE vs[g] = NoFile
      <3>1. g \notin Stdio
        <4>1. vs[g].kind = "free"
          BY <1>9, <2>2
        <4>2. g # f => os[g].kind = "free"
          BY <1>10, <4>1
        <4>3. os[g].kind = "free" => g \notin Stdio
          BY <2>1 DEF FileFits, NewFile
        <4> QED
          BY <1>3, <4>2, <4>3
      <3> QED
        BY <1>9, <2>2, <3>1 DEF FileFits
    <2>3. CASE vs[g] # NoFile
      <3>1. vs[g] = os[g]
        BY <1>10, <2>3
      <3>2. ASSUME OwnerHas(ps, os, g)
            PROVE  OwnerHas(qs, vs, g)
        <4> DEFINE q == os[g].owner
        <4>1. PICK c \in Fds \ Stdio : g = Home(q, c) /\ ps[q].table[c] = g
          BY <3>2 DEF OwnerHas
        <4>2. q \in Pids /\ Living(qs, q)
          BY <1>11, <3>2 DEF OwnerHas
        <4>3. qs[q].table[c] = g
          <5>1. CASE q # p
            BY <1>8, <4>1, <4>2, <5>1
          <5>2. CASE q = p
            <6>1. c # d
              BY <1>10, <2>3, <4>1, <5>2
            <6> QED
              BY <1>6, <1>8, <4>1, <5>2, <6>1
          <5> QED
            BY <5>1, <5>2
        <4> QED
          BY <3>1, <4>1, <4>2, <4>3 DEF OwnerHas
      <3> QED
        BY <2>1, <3>1, <3>2 DEF FileFits
    <2> QED
      BY <2>2, <2>3
  <1> QED
    BY <1>8, <1>10, <1>11, <1>12, <1>13, <1>14, <1>15 DEF Tables, qs, x, vs

\* A process ends, and with it the Files it owns, which it shares with no one.
Ended == [NoProcess EXCEPT !.state = "dead"]
OwnFiles(os, p) == {f \in FileIds : os[f].kind # "free" /\ os[f].owner = p}

\* A process that ends, its Files unshared, leaves the tables of the others sound.
LEMMA KillKeeps ==
  ASSUME NEW ps, NEW os, Tables(ps, os), NEW p \in Pids, Living(ps, p),
         \A f \in OwnFiles(os, p) : NotShared(ps, p, f)
  PROVE  Tables([ps EXCEPT ![p] = Ended], Without(os, OwnFiles(os, p)))
  <1> DEFINE qs == [ps EXCEPT ![p] = Ended]
             mine == OwnFiles(os, p)
             vs == Without(os, mine)
  <1>1. ps \in [Pids -> ProcessTypes] /\ os \in [FileIds -> FileTypes]
    BY DEF Tables
  <1>2. /\ Ended \in ProcessTypes /\ Ended.table = EmptyTable /\ Ended.state = "dead"
    <2>1. EmptyTable \in [Fds -> FileIds \cup {None, Stale}]
      BY DEF EmptyTable
    <2>2. 0 \in 0 .. MAX_OPEN_FILE_DESCRIPTORS /\ 0 \in 0 .. MaxTransfer /\ Root \in Inodes
      BY ConstantTypes, InodeNumbers
    <2> QED
      BY <2>1, <2>2 DEF Ended, NoProcess, NotBlocked, ProcessTypes, EmptyTable
  <1>3. NoFile \in FileTypes /\ NoFile.kind = "free"
    BY ConstantTypes DEF NoFile, FileTypes, Refs, Lost, Null
  <1>4. /\ qs \in [Pids -> ProcessTypes] /\ qs[p] = Ended
        /\ \A q \in Pids : q # p => qs[q] = ps[q]
    BY <1>1, <1>2
  <1>5. /\ vs \in [FileIds -> FileTypes]
        /\ \A g \in FileIds : vs[g] = IF g \in mine THEN NoFile ELSE os[g]
    BY <1>1, <1>3 DEF Without
  <1> HIDE DEF qs, vs
  <1>6. \A q \in Pids : Living(qs, q) <=> Living(ps, q) /\ q # p
    BY <1>2, <1>4 DEF Living
  <1>7. ASSUME NEW q \in Pids, Living(qs, q)
        PROVE  TableFits(qs, vs, q)
    <2>1. q # p /\ TableFits(ps, os, q) /\ qs[q] = ps[q]
      BY <1>4, <1>6, <1>7 DEF Tables
    <2>2. ASSUME NEW c \in Fds, c < ps[q].count
          PROVE  vs[ps[q].table[c]].kind # "free"
      <3>1. ps[q].table[c] \in FileIds /\ os[ps[q].table[c]].kind # "free"
        BY <2>1, <2>2 DEF TableFits
      <3>2. ps[q].table[c] \notin mine
        BY <1>6, <1>7, <2>1 DEF NotShared
      <3> QED
        BY <1>5, <3>1, <3>2
    <2> QED
      BY <2>1, <2>2, TableStays
  <1>8. ASSUME NEW q \in Pids, ~Living(qs, q)
        PROVE  qs[q].table = EmptyTable
    BY <1>2, <1>4, <1>6, <1>8 DEF Tables
  <1>9. ASSUME NEW g \in FileIds
        PROVE  FileFits(qs, vs, g)
    <2>1. FileFits(ps, os, g)
      BY DEF Tables
    <2>2. CASE g \in mine
      <3>1. g \notin Stdio
        <4>1. p # 0
          BY Descriptors, ConstantTypes DEF Pids
        <4> QED
          BY <2>1, <2>2, <4>1 DEF FileFits, NewFile, OwnFiles
      <3> QED
        BY <1>3, <1>5, <2>2, <3>1 DEF FileFits
    <2>3. CASE g \notin mine
      <3>1. vs[g] = os[g]
        BY <1>5, <2>3
      <3>2. ASSUME OwnerHas(ps, os, g), os[g].kind # "free"
            PROVE  OwnerHas(qs, vs, g)
        <4>1. os[g].owner # p
          BY <2>3, <3>2 DEF OwnFiles
        <4> QED
          BY <1>4, <1>6, <3>1, <3>2, <4>1 DEF OwnerHas
      <3> QED
        BY <2>1, <3>1, <3>2 DEF FileFits
    <2> QED
      BY <2>2, <2>3
  <1> QED
    BY <1>4, <1>5, <1>7, <1>8, <1>9 DEF Tables, qs, vs

-----------------------------------------------------------------------------
(* What the Files refer to                                                 *)

\* An inode of their kind, ...
RefFits(t, os, f) ==
  /\ os[f].kind \in {"reg", "dir"} => os[f].ref \in Inodes /\ t[os[f].ref].kind = os[f].kind
  /\ os[f].kind = "reg" => os[f].pos <= MaxSize

\* ... or a pipe of their owner, of which there are two ends.
EndFits(os, ts, f) ==
  IsEnd(os[f]) =>
    \E k \in Pipes :
      /\ os[f].ref = PipeRef(k) /\ ts[k].owner = os[f].owner
      /\ os[f].kind = "read end" => os[f].pos = ts[k].taken
      /\ os[f].kind = "write end" => os[f].pos = ts[k].sent
      /\ \A g \in FileIds : os[g].kind = os[f].kind /\ os[g].ref = os[f].ref => g = f

PipeTypes ==
  [owner : Pids \cup {0}, size : 0 .. MaxSent, write_offset : 0 .. MaxSent,
   sent : 0 .. MaxSent, taken : 0 .. MaxSent,
   bytes : [0 .. MaxSent - 1 -> (0 .. MaxSent - 1) \cup {Nothing}]]

\* A pipe holds all that was written to it, in order.
PipeFits(y) ==
  /\ y.size = y.sent /\ y.write_offset = y.sent /\ y.taken <= y.sent
  /\ \A j \in 0 .. y.size - 1 : y.bytes[j] = j

PipesFit(os, ts) ==
  /\ ts \in [Pipes -> PipeTypes] /\ \A k \in Pipes : PipeFits(ts[k])
  /\ \A f \in FileIds : EndFits(os, ts, f)

\* Who waits for a pipe is the only one, at its start.
WaitFits(ps, os, p) ==
  LET d == ps[p].blocked.fd
      f == ps[p].table[d]
  IN  /\ d \in Fds /\ d < ps[p].count
      /\ f \in FileIds /\ os[f].kind = "read end" /\ os[f].pos = 0
      /\ \A q \in Pids : ps[q].state = "reading" /\ q # p =>
           ps[q].table[ps[q].blocked.fd] # f

Readers(ps, os) == \A p \in Pids : ps[p].state = "reading" => WaitFits(ps, os, p)
Places(t, ps) == \A p \in Pids : Living(ps, p) => ps[p].pwd \in Directories(t)

Fits(t, ps, os, ts) ==
  /\ Tree(t) /\ Tables(ps, os)
  /\ \A f \in FileIds : RefFits(t, os, f)
  /\ PipesFit(os, ts) /\ Readers(ps, os) /\ Places(t, ps)

FilesInv == Fits(fs, proc, file, pipe) /\ correct = TRUE /\ damage = "none"

\* References to pipes are no inodes and no marks.
LEMMA PipeNumbers ==
  /\ Pipes \subseteq Nat
  /\ \A k \in Pipes : /\ PipeRef(k) \in Refs /\ PipeRef(k) \notin {Moved, Lost, Null}
                      /\ PipeRef(k) \notin Inodes /\ PipeRef(k) - MaxInode = k
  /\ \A k, j \in Pipes : PipeRef(k) = PipeRef(j) => k = j
  /\ Inodes \subseteq Refs /\ Null \in Refs /\ Moved \notin Inodes /\ Lost \notin Inodes
  /\ Moved # Null /\ Lost # Null
  BY ConstantTypes DEF Pipes, PipeRef, Refs, Moved, Lost, Null, Inodes

\* What a pipe has.
LEMMA PipeFields ==
  ASSUME NEW os, NEW ts, PipesFit(os, ts), NEW k \in Pipes
  PROVE  /\ ts[k] \in PipeTypes /\ ts[k].owner \in Pids \cup {0}
         /\ ts[k].sent \in Nat /\ ts[k].taken \in Nat /\ ts[k].taken <= ts[k].sent
         /\ ts[k].sent <= MaxSent /\ ts[k].size = ts[k].sent
         /\ ts[k].write_offset = ts[k].sent
         /\ ts[k].bytes \in [0 .. MaxSent - 1 -> (0 .. MaxSent - 1) \cup {Nothing}]
         /\ \A j \in 0 .. ts[k].sent - 1 : ts[k].bytes[j] = j
  <1>1. ts[k] \in PipeTypes /\ PipeFits(ts[k])
    BY DEF PipesFit
  <1>2. ts[k].sent \in 0 .. MaxSent /\ ts[k].taken \in 0 .. MaxSent
    BY <1>1 DEF PipeTypes
  <1>3. ts[k].sent \in Nat /\ ts[k].sent <= MaxSent /\ ts[k].taken \in Nat
    BY <1>2, ConstantTypes
  <1> QED
    BY <1>1, <1>3 DEF PipeTypes, PipeFits

\* No File refers to what was freed or moved.
LEMMA RefLives ==
  ASSUME NEW t, NEW ps, NEW os, NEW ts, Fits(t, ps, os, ts), NEW f \in FileIds
  PROVE  os[f].ref \notin {Moved, Lost} /\ ~Gone(t, os[f].ref)
  <1>1. FileFits(ps, os, f) /\ RefFits(t, os, f) /\ EndFits(os, ts, f)
    BY DEF Fits, Tables, PipesFit
  <1>2. os[f].kind \in {"free", "tty", "reg", "dir", "read end", "write end"}
    BY FileFields DEF Fits
  <1>3. CASE os[f].kind \in {"free", "tty"}
    <2>1. os[f].ref = Null
      BY <1>1, <1>3 DEF FileFits, NewFile, NoFile
    <2> QED
      BY <2>1, PipeNumbers, InodeNumbers DEF Gone
  <1>4. CASE os[f].kind \in {"reg", "dir"}
    BY <1>1, <1>4, PipeNumbers DEF RefFits, Gone
  <1>5. CASE os[f].kind \in {"read end", "write end"}
    <2>1. PICK k \in Pipes : os[f].ref = PipeRef(k)
      BY <1>1, <1>5 DEF EndFits, IsEnd
    <2> QED
      BY <2>1, PipeNumbers DEF Gone
  <1> QED
    BY <1>2, <1>3, <1>4, <1>5

\* Who waits, waits on, if its File stays as it is.
SameWaits(ps, os, qs, vs) ==
  \A q \in Pids : qs[q].state = "reading" =>
    LET f == ps[q].table[ps[q].blocked.fd]
    IN  qs[q] = ps[q] /\ vs[f].kind = os[f].kind /\ vs[f].pos = os[f].pos

\* Who waits for a pipe goes on waiting when nothing about it changed.
LEMMA ReadersStay ==
  ASSUME NEW ps, NEW os, Readers(ps, os), NEW qs, NEW vs, SameWaits(ps, os, qs, vs)
  PROVE  Readers(qs, vs)
  <1>1. SUFFICES ASSUME NEW p \in Pids, qs[p].state = "reading"
                 PROVE  WaitFits(qs, vs, p)
    BY DEF Readers
  <1> DEFINE d == ps[p].blocked.fd
             f == ps[p].table[d]
  <1>2. qs[p] = ps[p] /\ vs[f].kind = os[f].kind /\ vs[f].pos = os[f].pos
    BY <1>1 DEF SameWaits
  <1>3. WaitFits(ps, os, p)
    BY <1>1, <1>2 DEF Readers
  <1>4. ASSUME NEW q \in Pids, qs[q].state = "reading", q # p
        PROVE  qs[q].table[qs[q].blocked.fd] # f
    <2>1. qs[q] = ps[q]
      BY <1>4 DEF SameWaits
    <2> QED
      BY <1>3, <1>4, <2>1 DEF WaitFits
  <1> QED
    BY <1>2, <1>3, <1>4 DEF WaitFits

\* An end of a pipe stays one, if no other is made of it.
SameEnds(os, vs, f) ==
  \A g \in FileIds : IsEnd(vs[g]) => \/ vs[g].kind = os[g].kind /\ vs[g].ref = os[g].ref
                                     \/ vs[g].kind # os[f].kind
                                     \/ vs[g].ref # os[f].ref
SamePipe(os, ts, us, f) ==
  \A k \in Pipes : IsEnd(os[f]) /\ os[f].ref = PipeRef(k) =>
    /\ us[k].owner = ts[k].owner
    /\ os[f].kind = "read end" => us[k].taken = ts[k].taken
    /\ os[f].kind = "write end" => us[k].sent = ts[k].sent

\* An end still fits its pipe when neither changed.
LEMMA EndStays ==
  ASSUME NEW os, NEW ts, NEW f \in FileIds, EndFits(os, ts, f), NEW vs, NEW us, vs[f] = os[f],
         SameEnds(os, vs, f), SamePipe(os, ts, us, f)
  PROVE  EndFits(vs, us, f)
  <1>1. SUFFICES ASSUME IsEnd(os[f])
                 PROVE  EndFits(vs, us, f)
    BY DEF EndFits
  <1>2. PICK k \in Pipes :
          /\ os[f].ref = PipeRef(k) /\ ts[k].owner = os[f].owner
          /\ os[f].kind = "read end" => os[f].pos = ts[k].taken
          /\ os[f].kind = "write end" => os[f].pos = ts[k].sent
          /\ \A g \in FileIds : os[g].kind = os[f].kind /\ os[g].ref = os[f].ref => g = f
    BY <1>1 DEF EndFits
  <1>3. ASSUME NEW g \in FileIds, vs[g].kind = os[f].kind, vs[g].ref = os[f].ref
        PROVE  g = f
    <2>1. IsEnd(vs[g])
      BY <1>1, <1>3 DEF IsEnd
    <2> QED
      BY <1>2, <1>3, <2>1 DEF SameEnds
  <1> QED
    BY <1>1, <1>2, <1>3 DEF EndFits, SamePipe

\* An end still fits when no other end came.
LEMMA EndKept ==
  ASSUME NEW os, NEW ts, NEW f \in FileIds, EndFits(os, ts, f), NEW vs, vs[f] = os[f],
         \A g \in FileIds : IsEnd(vs[g]) => vs[g].kind = os[g].kind /\ vs[g].ref = os[g].ref
  PROVE  EndFits(vs, ts, f)
  <1>1. SameEnds(os, vs, f) /\ SamePipe(os, ts, ts, f)
    BY DEF SameEnds, SamePipe
  <1> QED
    BY <1>1, EndStays

-----------------------------------------------------------------------------
(* What calls do to the parts together                                     *)

\* What a process that waits for a pipe waits for.
LEMMA Awaited ==
  ASSUME NEW ps, NEW os, Readers(ps, os), NEW q \in Pids, ps[q].state = "reading"
  PROVE  LET d == ps[q].blocked.fd
             f == ps[q].table[d]
         IN  /\ d \in Fds /\ d < ps[q].count /\ Living(ps, q)
             /\ f \in FileIds /\ os[f].kind = "read end" /\ os[f].pos = 0
  BY DEF Readers, WaitFits, Living

\* The tree changes, but not what a File refers to nor where a process is.
LEMMA TreeChange ==
  ASSUME NEW t, NEW ps, NEW os, NEW ts, Fits(t, ps, os, ts), NEW u, Tree(u),
         \A f \in FileIds : os[f].kind \in {"reg", "dir"} => u[os[f].ref].kind = t[os[f].ref].kind,
         \A p \in Pids : Living(ps, p) => u[ps[p].pwd].kind = t[ps[p].pwd].kind
  PROVE  Fits(u, ps, os, ts)
  <1>1. \A f \in FileIds : RefFits(u, os, f)
    BY DEF Fits, RefFits
  <1>2. Places(u, ps)
    BY DEF Fits, Places, Directories
  <1> QED
    BY <1>1, <1>2 DEF Fits

\* What refers to an inode fits as long as its kind is kept.
LEMMA KindsKept ==
  ASSUME NEW t, NEW ps, NEW os, NEW ts, Fits(t, ps, os, ts), NEW u, Tree(u),
         \A i \in Inodes : t[i].kind \in {"reg", "dir"} => u[i].kind = t[i].kind
  PROVE  Fits(u, ps, os, ts)
  <1>1. \A f \in FileIds : os[f].kind \in {"reg", "dir"} => u[os[f].ref].kind = t[os[f].ref].kind
    BY DEF Fits, RefFits
  <1>2. \A p \in Pids : Living(ps, p) => u[ps[p].pwd].kind = t[ps[p].pwd].kind
    BY DEF Fits, Places, Directories
  <1> QED
    BY <1>1, <1>2, TreeChange

\* The positions a File can have.
LEMMA PositionTypes ==
  ASSUME NEW pos \in Nat, pos <= MaxSize \/ pos <= MaxSent \/ pos <= MaxInode
  PROVE  pos \in 0 .. MaxSize + MaxSent + MaxInode
  BY ConstantTypes

\* The position of a File changes.
Moves(os, f, pos) == [os EXCEPT ![f] = [os[f] EXCEPT !.pos = pos]]

OnlyMoved(os, f, pos, vs) ==
  /\ vs[f] \in FileTypes /\ vs[f].pos = pos
  /\ vs[f].kind = os[f].kind /\ vs[f].owner = os[f].owner /\ vs[f].ref = os[f].ref
  /\ \A g \in FileIds : g # f => vs[g] = os[g]
  /\ vs = [os EXCEPT ![f] = vs[f]]

\* Moving the position of one File changes nothing else.
LEMMA MovesIs ==
  ASSUME NEW os \in [FileIds -> FileTypes], NEW f \in FileIds,
         NEW pos \in 0 .. MaxSize + MaxSent + MaxInode
  PROVE  OnlyMoved(os, f, pos, Moves(os, f, pos))
  BY DEF Moves, FileTypes, OnlyMoved

\* What is no terminal is none of the standard Files.
LEMMA NotStdio ==
  ASSUME NEW ps, NEW os, Tables(ps, os), NEW f \in FileIds, os[f].kind \notin {"tty"}
  PROVE  f \notin Stdio
  BY DEF Tables, FileFits, NewFile

\* Moving the position of a regular file or a directory keeps all fits.
LEMMA ReferenceMoves ==
  ASSUME NEW t, NEW ps, NEW os, NEW ts, Fits(t, ps, os, ts), NEW f \in FileIds,
         os[f].kind \in {"reg", "dir"}, NEW pos \in 0 .. MaxSize + MaxSent + MaxInode,
         os[f].kind = "reg" => pos <= MaxSize
  PROVE  Fits(t, ps, Moves(os, f, pos), ts)
  <1> DEFINE vs == Moves(os, f, pos)
  <1>1. Tables(ps, os) /\ os \in [FileIds -> FileTypes]
    BY DEF Fits, Tables
  <1>2. /\ vs[f] \in FileTypes /\ vs[f].pos = pos
        /\ vs[f].kind = os[f].kind /\ vs[f].owner = os[f].owner /\ vs[f].ref = os[f].ref
        /\ \A g \in FileIds : g # f => vs[g] = os[g]
        /\ vs = [os EXCEPT ![f] = vs[f]]
    BY <1>1, MovesIs DEF OnlyMoved
  <1> HIDE DEF vs
  <1>3. f \notin Stdio
    BY <1>1, NotStdio
  <1>4. Tables(ps, vs)
    <2>1. Tables(ps, [os EXCEPT ![f] = vs[f]])
      BY <1>1, <1>2, <1>3, FileChange
    <2> QED
      BY <1>2, <2>1
  <1>5. ASSUME NEW g \in FileIds
        PROVE  RefFits(t, vs, g)
    <2>1. RefFits(t, os, g)
      BY DEF Fits
    <2> QED
      BY <1>2, <2>1 DEF RefFits
  <1>6. PipesFit(vs, ts)
    <2>1. ASSUME NEW g \in FileIds
          PROVE  EndFits(vs, ts, g)
      <3>1. CASE g = f
        BY <1>2, <3>1 DEF EndFits, IsEnd
      <3>2. CASE g # f
        <4>1. EndFits(os, ts, g)
          BY DEF Fits, PipesFit
        <4>2. vs[g] = os[g]
          BY <1>2, <3>2
        <4>3. \A h \in FileIds : vs[h].kind = os[h].kind /\ vs[h].ref = os[h].ref
          BY <1>2
        <4> QED
          BY <4>1, <4>2, <4>3, EndKept
      <3> QED
        BY <3>1, <3>2
    <2> QED
      BY <2>1 DEF Fits, PipesFit
  <1>7. Readers(ps, vs)
    <2>1. Readers(ps, os)
      BY DEF Fits
    <2>2. ASSUME NEW q \in Pids, ps[q].state = "reading"
          PROVE  LET g == ps[q].table[ps[q].blocked.fd]
                 IN  vs[g].kind = os[g].kind /\ vs[g].pos = os[g].pos
      <3> DEFINE g == ps[q].table[ps[q].blocked.fd]
      <3>1. g \in FileIds /\ os[g].kind = "read end"
        BY <1>1, <2>2, <2>1, Awaited
      <3> QED
        BY <1>2, <3>1
    <2>3. SameWaits(ps, os, ps, vs)
      BY <2>2 DEF SameWaits
    <2> QED
      BY <2>1, <2>3, ReadersStay
  <1> QED
    BY <1>4, <1>5, <1>6, <1>7 DEF Fits, vs

\* A process opens an inode.
LEMMA ReferenceOpened ==
  ASSUME NEW t, NEW ps, NEW os, NEW ts, Fits(t, ps, os, ts), NEW p \in Pids,
         ps[p].state = "running", NEW d \in Fds, d = ps[p].count,
         NEW o \in FileTypes, o.owner = p, o.kind \in {"reg", "dir"}, o.ref \in Inodes,
         t[o.ref].kind = o.kind, o.pos <= MaxSize,
         NEW x \in ProcessTypes, x.state = ps[p].state, x.pwd = ps[p].pwd,
         x.table = [ps[p].table EXCEPT ![d] = Home(p, d)], x.count = d + 1
  PROVE  Fits(t, [ps EXCEPT ![p] = x], [os EXCEPT ![Home(p, d)] = o], ts)
  <1> DEFINE f == Home(p, d)
             qs == [ps EXCEPT ![p] = x]
             vs == [os EXCEPT ![f] = o]
  <1>1. /\ Tables(ps, os) /\ os \in [FileIds -> FileTypes] /\ ps \in [Pids -> ProcessTypes]
        /\ Living(ps, p)
    BY DEF Fits, Tables, Living
  <1>2. d \notin Stdio
    BY <1>1, Descriptors DEF Tables, TableFits
  <1>3. f \in FileIds
    BY <1>2, HomeIsFile
  <1>4. Tables(qs, vs)
    <2>1. o.kind \notin {"free", "tty"}
      OBVIOUS
    <2> QED
      BY <1>1, <2>1, OpenKeeps
  <1>5. os[f].kind = "free"
    <2>1. TableFits(ps, os, p) /\ d >= ps[p].count
      BY <1>1, Descriptors DEF Tables
    <2>2. ps[p].table[d] = None
      BY <2>1 DEF TableFits
    <2> QED
      BY <1>1, <1>2, <2>2, HomeIsFree
  <1> HIDE DEF f
  <1>6. /\ vs[f] = o /\ \A g \in FileIds : g # f => vs[g] = os[g]
        /\ qs[p] = x /\ \A q \in Pids : q # p => qs[q] = ps[q]
    BY <1>1, <1>3
  <1> HIDE DEF qs, vs
  <1>7. \A g \in FileIds : RefFits(t, vs, g)
    BY <1>6 DEF Fits, RefFits
  <1>8. PipesFit(vs, ts)
    <2>1. ASSUME NEW g \in FileIds
          PROVE  EndFits(vs, ts, g)
      <3>1. CASE g = f
        BY <1>6, <3>1 DEF EndFits, IsEnd
      <3>2. CASE g # f
        <4>1. EndFits(os, ts, g)
          BY DEF Fits, PipesFit
        <4>2. vs[g] = os[g]
          BY <1>6, <3>2
        <4>3. \A h \in FileIds : IsEnd(vs[h]) => vs[h].kind = os[h].kind /\ vs[h].ref = os[h].ref
          BY <1>6 DEF IsEnd
        <4> QED
          BY <4>1, <4>2, <4>3, EndKept
      <3> QED
        BY <3>1, <3>2
    <2> QED
      BY <2>1 DEF Fits, PipesFit
  <1>9. Readers(qs, vs)
    <2>1. Readers(ps, os)
      BY DEF Fits
    <2>2. ASSUME NEW q \in Pids, qs[q].state = "reading"
          PROVE  LET g == ps[q].table[ps[q].blocked.fd]
                 IN  qs[q] = ps[q] /\ vs[g].kind = os[g].kind /\ vs[g].pos = os[g].pos
      <3>1. qs[q] = ps[q]
        BY <1>6, <2>2
      <3>2. ps[q].state = "reading"
        BY <2>2, <3>1
      <3>3. /\ ps[q].table[ps[q].blocked.fd] \in FileIds
            /\ os[ps[q].table[ps[q].blocked.fd]].kind = "read end"
        BY <2>1, <3>2 DEF Readers, WaitFits
      <3> QED
        BY <1>5, <1>6, <3>1, <3>3
    <2>3. SameWaits(ps, os, qs, vs)
      BY <2>2 DEF SameWaits
    <2> QED
      BY <2>1, <2>3, ReadersStay
  <1>10. Places(t, qs)
    BY <1>1, <1>6 DEF Fits, Places, Living
  <1> QED
    BY <1>4, <1>7, <1>8, <1>9, <1>10 DEF Fits, qs, vs, f

\* A process gives up its highest descriptor.
LEMMA DescriptorClosed ==
  ASSUME NEW t, NEW ps, NEW os, NEW ts, Fits(t, ps, os, ts), NEW p \in Pids,
         ps[p].state = "running", NEW d \in Fds \ Stdio, d = ps[p].count - 1,
         NEW f, f = ps[p].table[d], os[f].owner = p => NotShared(ps, p, f)
  PROVE  Fits(t, [ps EXCEPT ![p] = Closed(ps, p)], Without(os, ClosedFiles(os, p, f)), ts)
  <1> DEFINE x == Closed(ps, p)
             qs == [ps EXCEPT ![p] = x]
             vs == Without(os, ClosedFiles(os, p, f))
  <1>1. /\ Tables(ps, os) /\ os \in [FileIds -> FileTypes] /\ ps \in [Pids -> ProcessTypes]
        /\ Living(ps, p)
    BY DEF Fits, Tables, Living
  <1>2. Tables(qs, vs)
    BY <1>1, CloseKeeps
  <1>3. /\ qs[p] = x /\ \A q \in Pids : q # p => qs[q] = ps[q]
        /\ x.state = ps[p].state /\ x.pwd = ps[p].pwd
    BY <1>1 DEF Closed, ProcessTypes
  <1>4. NoFile.kind = "free"
    BY DEF NoFile
  <1>5. \A g \in FileIds : vs[g] = NoFile \/ vs[g] = os[g]
    BY DEF Without
  <1>6. ASSUME NEW q \in Pids, q # p, Living(ps, q), NEW c \in Fds, ps[q].table[c] \in FileIds
        PROVE  vs[ps[q].table[c]] = os[ps[q].table[c]]
    BY <1>6 DEF Without, ClosedFiles, NotShared
  <1> HIDE DEF qs, x, vs
  <1>7. \A g \in FileIds : RefFits(t, vs, g)
    BY <1>4, <1>5 DEF Fits, RefFits
  <1>8. PipesFit(vs, ts)
    <2>1. ASSUME NEW g \in FileIds
          PROVE  EndFits(vs, ts, g)
      <3>1. CASE vs[g] = NoFile
        BY <1>4, <3>1 DEF EndFits, IsEnd
      <3>2. CASE vs[g] = os[g]
        <4>1. EndFits(os, ts, g)
          BY DEF Fits, PipesFit
        <4>2. \A h \in FileIds : IsEnd(vs[h]) => vs[h].kind = os[h].kind /\ vs[h].ref = os[h].ref
          BY <1>4, <1>5 DEF IsEnd
        <4> QED
          BY <3>2, <4>1, <4>2, EndKept
      <3> QED
        BY <1>5, <3>1, <3>2
    <2> QED
      BY <2>1 DEF Fits, PipesFit
  <1>9. Readers(qs, vs)
    <2>1. Readers(ps, os)
      BY DEF Fits
    <2>2. ASSUME NEW q \in Pids, qs[q].state = "reading"
          PROVE  LET g == ps[q].table[ps[q].blocked.fd]
                 IN  qs[q] = ps[q] /\ vs[g].kind = os[g].kind /\ vs[g].pos = os[g].pos
      <3>1. q # p /\ qs[q] = ps[q]
        BY <1>3, <2>2
      <3>2. /\ ps[q].table[ps[q].blocked.fd] \in FileIds /\ ps[q].blocked.fd \in Fds
            /\ Living(ps, q)
        BY <1>1, <2>2, <2>1, <3>1, Awaited
      <3> QED
        BY <1>6, <3>1, <3>2
    <2>3. SameWaits(ps, os, qs, vs)
      BY <2>2 DEF SameWaits
    <2> QED
      BY <2>1, <2>3, ReadersStay
  <1>10. Places(t, qs)
    BY <1>3 DEF Fits, Places, Living
  <1> QED
    BY <1>2, <1>7, <1>8, <1>9, <1>10 DEF Fits, qs, x, vs

\* A process moves to another directory, goes on after it waited, or gets a child.
LEMMA ProcessChange ==
  ASSUME NEW t, NEW ps, NEW os, NEW ts, Fits(t, ps, os, ts), NEW p \in Pids, Living(ps, p),
         NEW c \in Pids, c = p \/ ~Living(ps, c), NEW x \in ProcessTypes,
         x.table = ps[p].table, x.count = ps[p].count, x.state = "running",
         x.pwd \in Directories(t)
  PROVE  Fits(t, [ps EXCEPT ![c] = x], os, ts)
  <1> DEFINE qs == [ps EXCEPT ![c] = x]
  <1>1. Tables(ps, os) /\ ps \in [Pids -> ProcessTypes] /\ Readers(ps, os) /\ Places(t, ps)
    BY DEF Fits, Tables
  <1>2. x.state \in {"running", "reading"}
    OBVIOUS
  <1>3. Tables(qs, os)
    BY <1>1, <1>2, TableCopied
  <1>4. qs[c] = x /\ \A q \in Pids : q # c => qs[q] = ps[q]
    BY <1>1
  <1> HIDE DEF qs
  <1>5. Readers(qs, os)
    <2>1. SameWaits(ps, os, qs, os)
      BY <1>4 DEF SameWaits
    <2> QED
      BY <1>1, <2>1, ReadersStay
  <1>6. Places(t, qs)
    BY <1>1, <1>4 DEF Places, Living
  <1> QED
    BY <1>3, <1>5, <1>6 DEF Fits, qs

\* Bytes go through a pipe at one of its ends, for which no one waits.
LEMMA EndMoves ==
  ASSUME NEW t, NEW ps, NEW os, NEW ts, Fits(t, ps, os, ts), NEW f \in FileIds, NEW k \in Pipes,
         IsEnd(os[f]), os[f].ref = PipeRef(k), NEW y \in PipeTypes, PipeFits(y),
         y.owner = ts[k].owner, NEW pos \in 0 .. MaxSize + MaxSent + MaxInode,
         os[f].kind = "read end" => pos = y.taken /\ y.sent = ts[k].sent,
         os[f].kind = "write end" => pos = y.sent /\ y.taken = ts[k].taken,
         \A q \in Pids : ps[q].state = "reading" => ps[q].table[ps[q].blocked.fd] # f
  PROVE  Fits(t, ps, Moves(os, f, pos), [ts EXCEPT ![k] = y])
  <1> DEFINE vs == Moves(os, f, pos)
             us == [ts EXCEPT ![k] = y]
  <1>1. /\ Tables(ps, os) /\ os \in [FileIds -> FileTypes] /\ Readers(ps, os)
        /\ ts \in [Pipes -> PipeTypes] /\ \A j \in Pipes : PipeFits(ts[j])
        /\ \A g \in FileIds : EndFits(os, ts, g)
    BY DEF Fits, Tables, PipesFit
  <1>2. /\ vs[f] \in FileTypes /\ vs[f].pos = pos
        /\ vs[f].kind = os[f].kind /\ vs[f].owner = os[f].owner /\ vs[f].ref = os[f].ref
        /\ \A g \in FileIds : g # f => vs[g] = os[g]
        /\ vs = [os EXCEPT ![f] = vs[f]]
    <2>1. os \in [FileIds -> FileTypes]
      BY <1>1
    <2>2. OnlyMoved(os, f, pos, vs)
      BY <2>1, MovesIs
    <2> QED
      BY <2>2 DEF OnlyMoved
  <1>3. us \in [Pipes -> PipeTypes] /\ us[k] = y /\ \A j \in Pipes : j # k => us[j] = ts[j]
    BY <1>1
  <1> HIDE DEF vs, us
  <1>4. os[f].kind \in {"read end", "write end"}
    BY DEF IsEnd
  <1>5. Tables(ps, vs)
    <2>1. f \notin Stdio
      BY <1>1, <1>4, NotStdio
    <2>2. Tables(ps, [os EXCEPT ![f] = vs[f]])
      BY <1>1, <1>2, <1>4, <2>1, FileChange
    <2> QED
      BY <1>2, <2>2
  <1>6. ASSUME NEW g \in FileIds
        PROVE  RefFits(t, vs, g)
    <2>1. RefFits(t, os, g)
      BY DEF Fits
    <2> QED
      BY <1>2, <1>4, <2>1 DEF RefFits
  <1>7. \A j \in Pipes : PipeFits(us[j])
    BY <1>1, <1>3
  <1>8. PICK j \in Pipes :
          /\ os[f].ref = PipeRef(j) /\ ts[j].owner = os[f].owner
          /\ os[f].kind = "read end" => os[f].pos = ts[j].taken
          /\ os[f].kind = "write end" => os[f].pos = ts[j].sent
          /\ \A g \in FileIds : os[g].kind = os[f].kind /\ os[g].ref = os[f].ref => g = f
    BY <1>1 DEF EndFits
  <1>9. j = k
    BY <1>8, PipeNumbers
  <1>10. ASSUME NEW g \in FileIds
         PROVE  EndFits(vs, us, g)
    <2>1. CASE g = f
      <3>1. \A h \in FileIds : vs[h].kind = os[f].kind /\ vs[h].ref = os[f].ref => h = f
        BY <1>2, <1>8
      <3>2. us[k].owner = vs[f].owner /\ vs[f].ref = PipeRef(k)
        BY <1>2, <1>3, <1>8, <1>9
      <3>3. /\ vs[f].kind = "read end" => vs[f].pos = us[k].taken
            /\ vs[f].kind = "write end" => vs[f].pos = us[k].sent
        BY <1>2, <1>3
      <3> QED
        BY <1>2, <2>1, <3>1, <3>2, <3>3 DEF EndFits
    <2>2. CASE g # f
      <3>1. EndFits(os, ts, g)
        BY <1>1
      <3>2. vs[g] = os[g]
        BY <1>2, <2>2
      <3>3. \A h \in FileIds : vs[h].kind = os[h].kind /\ vs[h].ref = os[h].ref
        BY <1>2
      <3>4. ASSUME NEW i \in Pipes, IsEnd(os[g]), os[g].ref = PipeRef(i)
            PROVE  /\ us[i].owner = ts[i].owner
                   /\ os[g].kind = "read end" => us[i].taken = ts[i].taken
                   /\ os[g].kind = "write end" => us[i].sent = ts[i].sent
        <4>1. CASE i = k
          <5>1. os[g].ref = os[f].ref
            BY <3>4, <4>1
          <5>2. os[g].kind # os[f].kind
            BY <1>8, <2>2, <5>1
          <5> QED
            BY <1>3, <1>4, <4>1, <5>2
        <4>2. CASE i # k
          BY <1>3, <4>2
        <4> QED
          BY <4>1, <4>2
      <3>5. SameEnds(os, vs, g) /\ SamePipe(os, ts, us, g)
        BY <3>3, <3>4 DEF SameEnds, SamePipe
      <3> QED
        BY <3>1, <3>2, <3>5, EndStays
    <2> QED
      BY <2>1, <2>2
  <1>11. Readers(ps, vs)
    <2>1. ASSUME NEW q \in Pids, ps[q].state = "reading"
          PROVE  LET g == ps[q].table[ps[q].blocked.fd]
                 IN  ps[q] = ps[q] /\ vs[g].kind = os[g].kind /\ vs[g].pos = os[g].pos
      <3>1. ps[q].table[ps[q].blocked.fd] \in FileIds
        BY <1>1, <2>1 DEF Readers, WaitFits
      <3>2. ps[q].table[ps[q].blocked.fd] # f
        BY <2>1
      <3> QED
        BY <1>2, <3>1, <3>2
    <2>2. SameWaits(ps, os, ps, vs)
      BY <2>1 DEF SameWaits
    <2> QED
      BY <1>1, <2>2, ReadersStay
  <1> QED
    BY <1>3, <1>5, <1>6, <1>7, <1>10, <1>11 DEF Fits, PipesFit, vs, us

\* A process waits for a pipe that nobody else waits for.
LEMMA ReaderBlocked ==
  ASSUME NEW t, NEW ps, NEW os, NEW ts, Fits(t, ps, os, ts), NEW p \in Pids,
         ps[p].state = "running", NEW d \in Fds, d < ps[p].count, NEW f, f = ps[p].table[d],
         os[f].kind = "read end", os[f].pos = 0,
         \A q \in Pids : ps[q].state = "reading" => ps[q].table[ps[q].blocked.fd] # f,
         NEW x \in ProcessTypes, x.table = ps[p].table, x.count = ps[p].count,
         x.state = "reading", x.pwd = ps[p].pwd, x.blocked.fd = d
  PROVE  Fits(t, [ps EXCEPT ![p] = x], os, ts)
  <1> DEFINE qs == [ps EXCEPT ![p] = x]
  <1>1. /\ Tables(ps, os) /\ ps \in [Pids -> ProcessTypes] /\ Readers(ps, os) /\ Places(t, ps)
        /\ Living(ps, p)
    BY DEF Fits, Tables, Living
  <1>2. x.state \in {"running", "reading"}
    OBVIOUS
  <1>3. Tables(qs, os)
    BY <1>1, <1>2, TableCopied
  <1>4. qs[p] = x /\ \A q \in Pids : q # p => qs[q] = ps[q]
    BY <1>1
  <1> HIDE DEF qs
  <1>5. f \in FileIds
    BY <1>1, InUse
  <1>6. ASSUME NEW q \in Pids, qs[q].state = "reading"
        PROVE  WaitFits(qs, os, q)
    <2>1. CASE q = p
      BY <1>4, <1>5, <2>1 DEF WaitFits
    <2>2. CASE q # p
      <3>1. qs[q] = ps[q]
        BY <1>4, <2>2
      <3>2. WaitFits(ps, os, q)
        BY <1>1, <1>6, <3>1 DEF Readers
      <3>3. ps[q].table[ps[q].blocked.fd] # f
        BY <1>6, <3>1
      <3>4. ASSUME NEW r \in Pids, qs[r].state = "reading", r # q
            PROVE  qs[r].table[qs[r].blocked.fd] # ps[q].table[ps[q].blocked.fd]
        <4>1. CASE r = p
          BY <1>4, <3>3, <4>1
        <4>2. CASE r # p
          <5>1. qs[r] = ps[r]
            BY <1>4, <4>2
          <5> QED
            BY <3>2, <3>4, <5>1 DEF WaitFits
        <4> QED
          BY <4>1, <4>2
      <3> QED
        BY <3>1, <3>2, <3>4 DEF WaitFits
    <2> QED
      BY <2>1, <2>2
  <1>7. Places(t, qs)
    BY <1>1, <1>4 DEF Places, Living
  <1> QED
    BY <1>3, <1>6, <1>7 DEF Fits, Readers, qs

\* A process ends.
LEMMA ProcessEnded ==
  ASSUME NEW t, NEW ps, NEW os, NEW ts, Fits(t, ps, os, ts), NEW p \in Pids, Living(ps, p),
         \A f \in OwnFiles(os, p) : NotShared(ps, p, f),
         NEW us, us = [k \in Pipes |-> IF ts[k].owner = p THEN NoPipe ELSE ts[k]]
  PROVE  Fits(t, [ps EXCEPT ![p] = Ended], Without(os, OwnFiles(os, p)), us)
  <1> DEFINE qs == [ps EXCEPT ![p] = Ended]
             vs == Without(os, OwnFiles(os, p))
  <1>1. /\ Tables(ps, os) /\ ps \in [Pids -> ProcessTypes] /\ Readers(ps, os) /\ Places(t, ps)
        /\ ts \in [Pipes -> PipeTypes] /\ \A k \in Pipes : PipeFits(ts[k])
        /\ \A f \in FileIds : EndFits(os, ts, f)
    BY DEF Fits, Tables, PipesFit
  <1>2. Tables(qs, vs)
    BY <1>1, KillKeeps
  <1>3. qs[p] = Ended /\ \A q \in Pids : q # p => qs[q] = ps[q]
    BY <1>1
  <1>4. Ended.state = "dead" /\ NoFile.kind = "free"
    BY DEF Ended, NoProcess, NoFile
  <1>5. \A g \in FileIds : /\ vs[g] = NoFile \/ (vs[g] = os[g] /\ g \notin OwnFiles(os, p))
                           /\ g \notin OwnFiles(os, p) => vs[g] = os[g]
    BY DEF Without
  <1> HIDE DEF qs, vs
  <1>6. \A g \in FileIds : RefFits(t, vs, g)
    BY <1>4, <1>5 DEF Fits, RefFits
  <1>7. \A k \in Pipes : us[k] \in PipeTypes /\ PipeFits(us[k])
    <2>1. NoPipe \in PipeTypes /\ PipeFits(NoPipe)
      <3>1. 0 \in 0 .. MaxSent
        BY ConstantTypes
      <3> QED
        BY <3>1 DEF NoPipe, PipeTypes, PipeFits
    <2> QED
      BY <1>1, <2>1
  <1>8. ASSUME NEW g \in FileIds
        PROVE  EndFits(vs, us, g)
    <2>1. CASE vs[g] = NoFile
      BY <1>4, <2>1 DEF EndFits, IsEnd
    <2>2. CASE vs[g] = os[g] /\ g \notin OwnFiles(os, p)
      <3>1. SameEnds(os, vs, g)
        BY <1>4, <1>5 DEF SameEnds, IsEnd
      <3>2. ASSUME NEW k \in Pipes, IsEnd(os[g]), os[g].ref = PipeRef(k)
            PROVE  us[k] = ts[k]
        <4>1. PICK j \in Pipes : os[g].ref = PipeRef(j) /\ ts[j].owner = os[g].owner
          BY <1>1, <3>2 DEF EndFits
        <4>2. j = k
          BY <3>2, <4>1, PipeNumbers
        <4>3. os[g].owner # p
          BY <2>2, <3>2 DEF OwnFiles, IsEnd
        <4> QED
          BY <4>1, <4>2, <4>3
      <3>3. SamePipe(os, ts, us, g)
        BY <3>2 DEF SamePipe
      <3> QED
        BY <1>1, <2>2, <3>1, <3>3, EndStays
    <2> QED
      BY <1>5, <2>1, <2>2
  <1>9. Readers(qs, vs)
    <2>1. ASSUME NEW q \in Pids, qs[q].state = "reading"
          PROVE  LET g == ps[q].table[ps[q].blocked.fd]
                 IN  qs[q] = ps[q] /\ vs[g].kind = os[g].kind /\ vs[g].pos = os[g].pos
      <3> DEFINE g == ps[q].table[ps[q].blocked.fd]
      <3>1. q # p /\ qs[q] = ps[q]
        BY <1>3, <1>4, <2>1
      <3>2. g \in FileIds /\ ps[q].blocked.fd \in Fds /\ Living(ps, q)
        BY <1>1, <2>1, <3>1 DEF Readers, WaitFits, Living
      <3>3. g \notin OwnFiles(os, p)
        BY <3>1, <3>2 DEF NotShared
      <3> QED
        BY <1>5, <3>1, <3>2, <3>3
    <2>2. SameWaits(ps, os, qs, vs)
      BY <2>1 DEF SameWaits
    <2> QED
      BY <1>1, <2>2, ReadersStay
  <1>10. Places(t, qs)
    BY <1>1, <1>3, <1>4 DEF Places, Living
  <1>11. us \in [Pipes -> PipeTypes]
    BY <1>7
  <1> QED
    BY <1>2, <1>6, <1>7, <1>8, <1>9, <1>10, <1>11 DEF Fits, PipesFit, qs, vs

\* A process gets a new pipe, and two Files for its ends.
NewEnds(os, vs, r, w, k, p) ==
  /\ vs[r].kind = "read end" /\ vs[w].kind = "write end"
  /\ \A g \in {r, w} : vs[g].ref = PipeRef(k) /\ vs[g].owner = p /\ vs[g].pos = 0
  /\ \A g \in FileIds \ {r, w} : vs[g] = os[g]
NewPipe(ts, us, k, p) ==
  /\ us \in [Pipes -> PipeTypes] /\ PipeFits(us[k])
  /\ us[k].owner = p /\ us[k].sent = 0 /\ us[k].taken = 0
  /\ \A j \in Pipes \ {k} : us[j] = ts[j]
SameElse(ps, qs, p) ==
  /\ qs[p].state = ps[p].state /\ qs[p].pwd = ps[p].pwd
  /\ \A q \in Pids \ {p} : qs[q] = ps[q]

\* A new pipe and its two ends fit.
LEMMA PipeAdded ==
  ASSUME NEW t, NEW ps, NEW os, NEW ts, Fits(t, ps, os, ts), NEW p \in Pids,
         ps[p].state = "running", NEW k \in Pipes, ts[k].owner = 0,
         NEW r \in FileIds, NEW w \in FileIds, r # w, os[r].kind = "free", os[w].kind = "free",
         NEW qs, NEW vs, NEW us, Tables(qs, vs), NewEnds(os, vs, r, w, k, p),
         NewPipe(ts, us, k, p), SameElse(ps, qs, p)
  PROVE  Fits(t, qs, vs, us)
  <1>1. /\ Tables(ps, os) /\ Readers(ps, os) /\ Places(t, ps)
        /\ ts \in [Pipes -> PipeTypes] /\ \A j \in Pipes : PipeFits(ts[j])
        /\ \A f \in FileIds : EndFits(os, ts, f)
    BY DEF Fits, PipesFit
  <1>2. \A g \in FileIds : IsEnd(os[g]) => os[g].ref # PipeRef(k)
    <2>1. ASSUME NEW g \in FileIds, IsEnd(os[g]), os[g].ref = PipeRef(k)
          PROVE  FALSE
      <3>1. PICK j \in Pipes : os[g].ref = PipeRef(j) /\ ts[j].owner = os[g].owner
        BY <1>1, <2>1 DEF EndFits
      <3>2. j = k
        BY <2>1, <3>1, PipeNumbers
      <3>3. g \notin Stdio
        BY <1>1, <2>1, NotStdio DEF IsEnd
      <3>4. OwnerHas(ps, os, g)
        BY <1>1, <2>1, <3>3 DEF Tables, FileFits, IsEnd
      <3>5. os[g].owner \in Pids
        BY <3>4 DEF OwnerHas
      <3>6. 0 \notin Pids
        BY ConstantTypes DEF Pids
      <3> QED
        BY <3>1, <3>2, <3>5, <3>6
    <2> QED
      BY <2>1
  <1>3. \A g \in FileIds : RefFits(t, vs, g)
    <2>1. \A g \in {r, w} : RefFits(t, vs, g)
      BY DEF RefFits, NewEnds
    <2>2. \A g \in FileIds \ {r, w} : RefFits(t, vs, g)
      BY DEF RefFits, NewEnds, Fits
    <2> QED
      BY <2>1, <2>2
  <1>4. us \in [Pipes -> PipeTypes] /\ \A j \in Pipes : PipeFits(us[j])
    BY <1>1 DEF NewPipe
  <1>5. ASSUME NEW g \in FileIds
        PROVE  EndFits(vs, us, g)
    <2>1. CASE g \in {r, w}
      <3>1. ASSUME NEW h \in FileIds, vs[h].kind = vs[g].kind, vs[h].ref = vs[g].ref
            PROVE  h = g
        <4>1. vs[g].kind \in {"read end", "write end"} /\ vs[g].ref = PipeRef(k)
          BY <2>1 DEF NewEnds
        <4>2. h \in {r, w}
          BY <1>2, <3>1, <4>1 DEF NewEnds, IsEnd
        <4> QED
          BY <2>1, <3>1, <4>2 DEF NewEnds
      <3>2. /\ vs[g].ref = PipeRef(k) /\ us[k].owner = vs[g].owner
            /\ us[k].taken = 0 /\ us[k].sent = 0 /\ vs[g].pos = 0
        BY <2>1 DEF NewEnds, NewPipe
      <3> QED
        BY <3>1, <3>2 DEF EndFits
    <2>2. CASE g \notin {r, w}
      <3>1. vs[g] = os[g]
        BY <2>2 DEF NewEnds
      <3>2. CASE IsEnd(os[g])
        <4>1. os[g].ref # PipeRef(k)
          BY <1>2, <3>2
        <4>2. SameEnds(os, vs, g)
          <5>1. \A h \in {r, w} : vs[h].ref # os[g].ref
            BY <4>1 DEF NewEnds
          <5>2. \A h \in FileIds \ {r, w} : vs[h] = os[h]
            BY DEF NewEnds
          <5> QED
            BY <5>1, <5>2 DEF SameEnds
        <4>3. SamePipe(os, ts, us, g)
          BY <4>1 DEF SamePipe, NewPipe
        <4> QED
          BY <1>1, <3>1, <4>2, <4>3, EndStays
      <3>3. CASE ~IsEnd(os[g])
        BY <3>1, <3>3 DEF EndFits
      <3> QED
        BY <3>2, <3>3
    <2> QED
      BY <2>1, <2>2
  <1>6. Readers(qs, vs)
    <2>1. ASSUME NEW q \in Pids, qs[q].state = "reading"
          PROVE  LET g == ps[q].table[ps[q].blocked.fd]
                 IN  qs[q] = ps[q] /\ vs[g].kind = os[g].kind /\ vs[g].pos = os[g].pos
      <3>1. q # p /\ qs[q] = ps[q]
        BY <2>1 DEF SameElse
      <3>2. LET g == ps[q].table[ps[q].blocked.fd]
            IN  g \in FileIds /\ os[g].kind = "read end"
        BY <1>1, <2>1, <3>1 DEF Readers, WaitFits
      <3> QED
        BY <3>1, <3>2 DEF NewEnds
    <2>2. SameWaits(ps, os, qs, vs)
      BY <2>1 DEF SameWaits
    <2> QED
      BY <1>1, <2>2, ReadersStay
  <1>7. Places(t, qs)
    BY <1>1 DEF Places, Living, SameElse
  <1> QED
    BY <1>3, <1>4, <1>5, <1>6, <1>7 DEF Fits, PipesFit

-----------------------------------------------------------------------------
(* The next descriptor                                                     *)

\* The home of the next descriptor is free.
LEMMA NextFree ==
  ASSUME NEW ps, NEW os, Tables(ps, os), NEW p \in Pids, Living(ps, p),
         NEW d \in Fds, d >= ps[p].count
  PROVE  /\ d \notin Stdio /\ ps[p].table[d] = None
         /\ Home(p, d) \in FileIds /\ Home(p, d) \notin Stdio /\ os[Home(p, d)].kind = "free"
  <1>1. TableFits(ps, os, p) /\ d \in Nat /\ ps[p].count \in Nat
    BY ProcessFields, Descriptors DEF Tables
  <1>2. d \notin Stdio /\ ps[p].table[d] = None
    BY <1>1, Descriptors DEF TableFits
  <1>3. d \in Fds \ Stdio
    BY <1>2
  <1> QED
    BY <1>2, <1>3, HomeIsFile, HomeIsFree

\* A process with a descriptor more, for the File at its home.
Opened(ps, p) ==
  [ps[p] EXCEPT !.table = [ps[p].table EXCEPT ![ps[p].count] = Home(p, ps[p].count)],
                !.count = ps[p].count + 1]
OneMore(ps, p) == [ps EXCEPT ![p] = Opened(ps, p)]

\* A process after it got a descriptor.
LEMMA OpenedIs ==
  ASSUME NEW ps, NEW os, Tables(ps, os), NEW p \in Pids, Living(ps, p), ps[p].count \in Fds
  PROVE  LET x == Opened(ps, p)
             d == ps[p].count
         IN  /\ x \in ProcessTypes /\ x.state = ps[p].state /\ x.pwd = ps[p].pwd
             /\ x.table = [ps[p].table EXCEPT ![d] = Home(p, d)] /\ x.count = d + 1
             /\ OneMore(ps, p)[p] = x /\ \A q \in Pids : q # p => OneMore(ps, p)[q] = ps[q]
  <1> DEFINE d == ps[p].count
             x == Opened(ps, p)
             table == [ps[p].table EXCEPT ![d] = Home(p, d)]
  <1>1. ps[p] \in ProcessTypes /\ ps \in [Pids -> ProcessTypes]
        /\ ps[p].table \in [Fds -> FileIds \cup {None, Stale}]
    BY ProcessFields DEF Tables
  <1>2. d \in Nat /\ d < MAX_OPEN_FILE_DESCRIPTORS
    BY Descriptors
  <1>3. Home(p, d) \in FileIds
    <2>1. d >= ps[p].count
      BY <1>2
    <2> QED
      BY <2>1, NextFree
  <1>4. table \in [Fds -> FileIds \cup {None, Stale}]
    BY <1>1, <1>3
  <1>5. d + 1 \in 0 .. MAX_OPEN_FILE_DESCRIPTORS
    BY <1>2, ConstantTypes
  <1>6. x = [ps[p] EXCEPT !.table = table, !.count = d + 1]
    BY DEF Opened
  <1> HIDE DEF table, d, x
  <1>7. x \in ProcessTypes /\ x.state = ps[p].state /\ x.pwd = ps[p].pwd /\ x.table = table
        /\ x.count = d + 1
    BY <1>1, <1>4, <1>5, <1>6 DEF ProcessTypes
  <1>8. OneMore(ps, p)[p] = x /\ \A q \in Pids : q # p => OneMore(ps, p)[q] = ps[q]
    BY <1>1 DEF OneMore, x
  <1> QED
    BY <1>7, <1>8 DEF table, d, x

\* Nobody else changes when a process gets a descriptor.
LEMMA OneMoreIs ==
  ASSUME NEW ps, NEW os, Tables(ps, os), NEW p \in Pids, Living(ps, p), ps[p].count \in Fds
  PROVE  SameElse(ps, OneMore(ps, p), p) /\ OneMore(ps, p)[p].count = ps[p].count + 1
  <1>1. PICK d \in Fds : d = ps[p].count
    OBVIOUS
  <1>2. PICK x \in ProcessTypes :
          /\ x.state = ps[p].state /\ x.pwd = ps[p].pwd /\ x.count = d + 1
          /\ OneMore(ps, p)[p] = x /\ \A q \in Pids : q # p => OneMore(ps, p)[q] = ps[q]
    BY <1>1, OpenedIs, ZenonT(60)
  <1> QED
    BY <1>1, <1>2 DEF SameElse

\* One more descriptor, with a File at its home, keeps the tables.
LEMMA OneMoreKeeps ==
  ASSUME NEW ps, NEW os, Tables(ps, os), NEW p \in Pids, Living(ps, p),
         NEW d \in Fds, d = ps[p].count, NEW o \in FileTypes, o.owner = p,
         o.kind \notin {"free", "tty"}
  PROVE  Tables(OneMore(ps, p), [os EXCEPT ![Home(p, d)] = o])
  <1>1. PICK x \in ProcessTypes :
          /\ x = Opened(ps, p) /\ x.state = ps[p].state
          /\ x.table = [ps[p].table EXCEPT ![d] = Home(p, d)] /\ x.count = d + 1
    BY OpenedIs
  <1>2. Tables([ps EXCEPT ![p] = x], [os EXCEPT ![Home(p, d)] = o])
    BY <1>1, OpenKeeps
  <1> QED
    BY <1>1, <1>2 DEF OneMore

\* Two more keep them.
LEMMA TwoMoreKeeps ==
  ASSUME NEW ps, NEW os, Tables(ps, os), NEW p \in Pids, Living(ps, p),
         NEW d \in Fds, d = ps[p].count, NEW e \in Fds, e = d + 1,
         NEW o \in FileTypes, o.owner = p, o.kind \notin {"free", "tty"},
         NEW n \in FileTypes, n.owner = p, n.kind \notin {"free", "tty"}
  PROVE  /\ Tables(OneMore(OneMore(ps, p), p),
                   [[os EXCEPT ![Home(p, d)] = o] EXCEPT ![Home(p, e)] = n])
         /\ SameElse(ps, OneMore(OneMore(ps, p), p), p)
  <1>1. PICK qs : qs = OneMore(ps, p)
    OBVIOUS
  <1>2. PICK vs : vs = [os EXCEPT ![Home(p, d)] = o]
    OBVIOUS
  <1>3. Tables(qs, vs)
    BY <1>1, <1>2, OneMoreKeeps
  <1>4. SameElse(ps, qs, p) /\ qs[p].count = e
    BY <1>1, OneMoreIs
  <1>5. Living(qs, p)
    BY <1>4 DEF Living, SameElse
  <1>6. Tables(OneMore(qs, p), [vs EXCEPT ![Home(p, e)] = n])
    BY <1>3, <1>4, <1>5, OneMoreKeeps
  <1>7. SameElse(qs, OneMore(qs, p), p)
    <2>1. qs[p].count \in Fds
      BY <1>4
    <2> QED
      BY <1>3, <1>5, <2>1, OneMoreIs
  <1>8. SameElse(ps, OneMore(qs, p), p)
    BY <1>4, <1>7 DEF SameElse
  <1> QED
    BY <1>1, <1>2, <1>6, <1>8

-----------------------------------------------------------------------------
(* The calls                                                               *)

\* The parts of the invariant.
LEMMA InvSplits ==
  ASSUME FilesInv
  PROVE  /\ Fits(fs, proc, file, pipe) /\ correct = TRUE /\ damage = "none"
         /\ Tree(fs) /\ Tables(proc, file) /\ Readers(proc, file) /\ Places(fs, proc)
         /\ PipesFit(file, pipe) /\ \A f \in FileIds : RefFits(fs, file, f)
         /\ proc \in [Pids -> ProcessTypes] /\ file \in [FileIds -> FileTypes]
         /\ pipe \in [Pipes -> PipeTypes] /\ fs \in [Inodes -> InodeTypes]
  BY DEF FilesInv, Fits, Tree, Tables, PipesFit

\* A process that calls, its descriptors and the directory it is in.
LEMMA CallerIs ==
  ASSUME FilesInv, NEW p \in Pids, Alive(p)
  PROVE  /\ Living(proc, p) /\ proc[p] \in ProcessTypes
         /\ Used(p) = 0 .. proc[p].count - 1
         /\ proc[p].count \in Nat /\ proc[p].count >= 3
         /\ proc[p].count <= MAX_OPEN_FILE_DESCRIPTORS
         /\ proc[p].pwd \in Directories(fs)
  <1>1. Living(proc, p) /\ Tables(proc, file) /\ Places(fs, proc)
    BY InvSplits DEF Alive, Living
  <1>2. TableFits(proc, file, p)
    BY <1>1 DEF Tables
  <1> QED
    BY <1>1, <1>2, ProcessFields, UsedIs DEF TableFits, Places

\* An entry below the count is a File, and what it refers to is there.
LEMMA EntryLives ==
  ASSUME FilesInv, NEW p \in Pids, Alive(p), NEW d \in Fds, d < proc[p].count
  PROVE  /\ Entry(p, d) \in FileIds /\ FileOf(p, d).kind # "free" /\ Lives(p, d)
         /\ Entry(p, d) # None /\ Entry(p, d) # Stale
         /\ Entry(p, d) \in Stdio <=> d \in Stdio
         /\ FileOf(p, d) \in FileTypes /\ FileOf(p, d).pos \in Nat
         /\ \A c \in Fds : Entry(p, c) = Entry(p, d) => c = d
  <1>1. PICK f : f = proc[p].table[d]
    OBVIOUS
  <1>2. Living(proc, p) /\ Tables(proc, file) /\ Fits(fs, proc, file, pipe)
    BY InvSplits, CallerIs
  <1>3. f \in FileIds /\ file[f].kind # "free" /\ (f \in Stdio <=> d \in Stdio)
    BY <1>1, <1>2, InUse
  <1>4. \A c \in Fds : proc[p].table[c] = f => c = d
    BY <1>1, <1>2, <1>3, InUse, Descriptors
  <1>5. file[f].ref \notin {Moved, Lost} /\ ~Gone(fs, file[f].ref)
    BY <1>2, <1>3, RefLives
  <1>6. file[f] \in FileTypes /\ file[f].pos \in Nat
    BY <1>2, <1>3, FileFields
  <1> QED
    BY <1>1, <1>3, <1>4, <1>5, <1>6, Descriptors DEF Entry, FileOf, Lives

\* A descriptor in use leads to a live File.
LEMMA DescriptorUsed ==
  ASSUME FilesInv, NEW p \in Pids, NEW d \in Fds, Uses(p, d)
  PROVE  /\ proc[p].state = "running" /\ Alive(p) /\ d < proc[p].count
         /\ Entry(p, d) \in FileIds /\ Lives(p, d) /\ FileOf(p, d).kind # "free"
         /\ FileOf(p, d) = file[Entry(p, d)]
         /\ FileOf(p, d) \in FileTypes /\ FileOf(p, d).pos \in Nat
  <1>1. proc[p].state = "running" /\ Alive(p) /\ ~(d >= proc[p].count)
    BY DEF Uses, Calls, Refused, Alive
  <1>2. d < proc[p].count
    BY <1>1, CallerIs, Descriptors
  <1> QED
    BY <1>1, <1>2, EntryLives DEF FileOf

-----------------------------------------------------------------------------
(* Opening                                                                 *)

\* What open finds or makes.
LEMMA OpenFinds ==
  ASSUME NEW t, NEW ps, NEW os, NEW ts, Fits(t, ps, os, ts), NEW pwd \in Directories(t),
         NEW path \in Paths, NEW parent, parent = get_parent_directory(t, pwd, path),
         NEW found, found = get_file(t, pwd, parent, path.name), found # Fault,
         NEW creates \in BOOLEAN, creates => found = Null /\ Unborn(t) # {} /\ parent \in Inodes,
         NEW kind \in {"reg", "dir"},
         NEW u, u = IF creates THEN ramfs_create_file(t, parent, path.name, kind) ELSE t,
         NEW i, i = IF creates THEN Min(Unborn(t)) ELSE found
  PROVE  /\ Fits(u, ps, os, ts)
         /\ i # Null => i \in Inodes /\ u[i].kind \in {"reg", "dir"} /\ u[i].size \in 0 .. MaxSize
  <1>1. Tree(t)
    BY DEF Fits
  <1>2. Len(path.dirs) \in Nat /\ path.name \in Names
    <2>1. path.dirs \in Seq(Names) /\ path.name \in Names
      BY FilesAssumption
    <2> QED
      BY <2>1
  <1>3. parent \in Ends(t)
    BY <1>1, <1>2, WalkLeads
  <1>4. CASE ~creates
    <2>1. u = t /\ i = found
      BY <1>4
    <2>2. i # Null => i \in Inodes /\ t[i].kind \in {"reg", "dir"}
      BY <1>1, <1>3, <2>1, FileFound
    <2>3. i # Null => t[i].size \in 0 .. MaxSize
      BY <1>1, <2>2 DEF Tree, InodeTypes
    <2> QED
      BY <2>1, <2>2, <2>3
  <1>5. CASE creates
    <2>1. parent \in Directories(t)
      BY <1>3, <1>5, InodeNumbers DEF Ends
    <2>2. PICK new \in Inodes : new = Min(Unborn(t)) /\ t[new].kind = "unborn"
      BY <1>1, <1>5, NewInode
    <2>3. u = ramfs_create_file(t, parent, path.name, kind) /\ i = new
      BY <1>5, <2>2
    <2>4. /\ Tree(u) /\ u[new].kind = kind /\ u[new].size = 0
          /\ \A j \in Inodes : j # new => u[j].kind = t[j].kind
      BY <1>1, <1>2, <1>5, <2>1, <2>2, <2>3, CreateKeeps
    <2>5. \A j \in Inodes : t[j].kind \in {"reg", "dir"} => u[j].kind = t[j].kind
      BY <2>2, <2>4
    <2>6. Fits(u, ps, os, ts)
      BY <2>4, <2>5, KindsKept
    <2> QED
      BY <2>3, <2>4, <2>6, ConstantTypes
  <1> QED
    BY <1>4, <1>5

\* What refers to an inode is a regular file or a directory.
LEMMA InodeFile ==
  ASSUME NEW t, NEW ps, NEW os, NEW ts, Fits(t, ps, os, ts), NEW f \in FileIds,
         os[f].ref \in Inodes
  PROVE  os[f].kind \in {"reg", "dir"}
  <1>1. FileFits(ps, os, f) /\ EndFits(os, ts, f)
    BY DEF Fits, Tables, PipesFit
  <1>2. os[f].kind \in {"free", "tty", "reg", "dir", "read end", "write end"}
    BY FileFields DEF Fits
  <1>3. CASE os[f].kind \in {"free", "tty"}
    <2>1. os[f].ref = Null
      BY <1>1, <1>3 DEF FileFits, NewFile, NoFile
    <2> QED
      BY <2>1, InodeNumbers
  <1>4. CASE os[f].kind \in {"read end", "write end"}
    <2>1. PICK k \in Pipes : os[f].ref = PipeRef(k)
      BY <1>1, <1>4 DEF EndFits, IsEnd
    <2> QED
      BY <2>1, PipeNumbers
  <1> QED
    BY <1>2, <1>3, <1>4

\* Truncating an inode keeps all fits.
LEMMA Truncated ==
  ASSUME NEW t, NEW ps, NEW os, NEW ts, Fits(t, ps, os, ts), NEW i \in Inodes
  PROVE  Fits([t EXCEPT ![i].size = 0], ps, os, ts)
  <1>1. Tree(t)
    BY DEF Fits
  <1>2. PICK u : u = Emptied(t, i) /\ Tree(u) /\ \A j \in Inodes : u[j].kind = t[j].kind
    BY <1>1, TruncKeeps
  <1>3. Fits(u, ps, os, ts)
    BY <1>2, KindsKept
  <1> QED
    BY <1>2, <1>3 DEF Emptied

\* The least descriptor that is not in use is the one behind the others.
LEMMA LeastUnused ==
  ASSUME NEW n \in Nat, n < MAX_OPEN_FILE_DESCRIPTORS, NEW S, S \subseteq 0 .. n - 1
  PROVE  Min((Fds \ S) \ (0 .. n - 1)) = n
  <1> DEFINE rest == (Fds \ S) \ (0 .. n - 1)
  <1>1. n \in rest /\ rest \in SUBSET Nat /\ \A m \in rest : n <= m
    BY ConstantTypes DEF Fds
  <1> HIDE DEF rest
  <1>2. Min(rest) \in rest /\ \A m \in rest : Min(rest) <= m
    BY <1>1, Least
  <1>3. PICK m \in rest : m = Min(rest)
    BY <1>2
  <1>4. n <= m /\ m <= n /\ m \in Nat
    BY <1>1, <1>2, <1>3
  <1>5. m = n
    BY <1>4
  <1> QED
    BY <1>3, <1>5 DEF rest

\* get_file_descriptor keeps the invariant, whichever inode it is given.
LEMMA DescriptorGiven ==
  ASSUME FilesInv, NEW p \in Pids, Calls(p), proc[p].count < MAX_OPEN_FILE_DESCRIPTORS,
         NEW tree, Fits(tree, proc, file, pipe), NEW i \in Inodes,
         tree[i].kind \in {"reg", "dir"}, tree[i].size \in 0 .. MaxSize, NEW flags,
         get_file_descriptor(p, tree, i, flags)
  PROVE  Fits(fs', proc', file', pipe') /\ correct' = TRUE /\ damage' = "none"
  <1> DEFINE seen == {d \in Used(p) \ Stdio : Entry(p, d) = Stale \/ FileOf(p, d).ref = i}
             n == proc[p].count
  <1>1. /\ Alive(p) /\ Living(proc, p) /\ Used(p) = 0 .. n - 1 /\ n \in Nat /\ n >= 3
        /\ n \in Fds /\ proc[p].state = "running"
    <2>1. Alive(p) /\ proc[p].state = "running"
      BY DEF Calls, Alive
    <2> QED
      BY <2>1, CallerIs, Descriptors
  <1>2. Tables(proc, file) /\ correct = TRUE /\ damage = "none"
        /\ proc \in [Pids -> ProcessTypes] /\ file \in [FileIds -> FileTypes]
    BY InvSplits
  <1>3. \A d \in seen : /\ d \in Fds /\ Entry(p, d) \in FileIds /\ Entry(p, d) # Stale
                        /\ FileOf(p, d).ref = i
    <2>1. ASSUME NEW d \in seen
          PROVE  /\ d \in Fds /\ Entry(p, d) \in FileIds /\ Entry(p, d) # Stale
                 /\ FileOf(p, d).ref = i
      <3>1. d \in Fds /\ d < n
        BY <1>1 DEF Used
      <3>2. Entry(p, d) \in FileIds /\ Entry(p, d) # Stale
        BY <1>1, <3>1, EntryLives
      <3> QED
        BY <3>1, <3>2
    <2> QED
      BY <2>1
  <1>4. Fits(tree, proc', file', pipe) /\ UNCHANGED <<pipe, correct, damage>>
        /\ fs' = IF flags = "trunc" THEN [tree EXCEPT ![i].size = 0] ELSE tree
    <2>1. CASE seen = {}
      <3>1. Min(Fds \ Used(p)) = n
        <4>1. Fds \ Used(p) = (Fds \ {}) \ (0 .. n - 1)
          BY <1>1
        <4> QED
          BY <1>1, <4>1, LeastUnused
      <3>2. PICK f \in FileIds : f = Home(p, n) /\ file[f].kind = "free"
        <4>1. n >= proc[p].count
          BY <1>1
        <4> QED
          BY <1>1, <1>2, <4>1, NextFree
      <3>3. FreeFile(p, n) = f
        BY <3>2 DEF FreeFile
      <3> DEFINE o == IF flags = "append" /\ n < n + 1
                      THEN [NewFile(tree[i].kind, i, p) EXCEPT !.pos = tree[i].size]
                      ELSE NewFile(tree[i].kind, i, p)
      <3>4. /\ proc' = [proc EXCEPT ![p].table[n] = f, ![p].count = n + 1]
            /\ file' = [file EXCEPT ![f] = o]
            /\ UNCHANGED <<pipe, correct, damage>>
            /\ fs' = IF flags = "trunc" THEN [tree EXCEPT ![i].size = 0] ELSE tree
        BY <2>1, <3>1, <3>3 DEF get_file_descriptor
      <3>5. proc' = OneMore(proc, p)
        BY <1>2, <3>2, <3>4 DEF OneMore, Opened, ProcessTypes
      <3>6. /\ o \in FileTypes /\ o.owner = p /\ o.kind = tree[i].kind /\ o.ref = i
            /\ o.pos <= MaxSize
        <4>1. i \in Refs /\ p \in Pids \cup {0}
          BY PipeNumbers
        <4>2. PICK z \in 0 .. MaxSize : z = tree[i].size
          OBVIOUS
        <4>3. /\ 0 \in 0 .. MaxSize + MaxSent + MaxInode /\ 0 <= MaxSize
              /\ z \in 0 .. MaxSize + MaxSent + MaxInode /\ z <= MaxSize
          BY ConstantTypes
        <4> QED
          BY <4>1, <4>2, <4>3 DEF NewFile, FileTypes
      <3> HIDE DEF o
      <3>7. PICK x \in ProcessTypes :
              /\ x.state = proc[p].state /\ x.pwd = proc[p].pwd /\ x.count = n + 1
              /\ x.table = [proc[p].table EXCEPT ![n] = Home(p, n)] /\ x = Opened(proc, p)
        BY <1>1, <1>2, OpenedIs
      <3>8. proc' = [proc EXCEPT ![p] = x] /\ file' = [file EXCEPT ![Home(p, n)] = o]
        BY <3>2, <3>4, <3>5, <3>7 DEF OneMore
      <3>9. Fits(tree, [proc EXCEPT ![p] = x], [file EXCEPT ![Home(p, n)] = o], pipe)
        <4>1. o.kind \in {"reg", "dir"} /\ o.ref \in Inodes /\ tree[o.ref].kind = o.kind
          BY <3>6
        <4> QED
          BY <1>1, <3>6, <3>7, <4>1, ReferenceOpened
      <3> QED
        BY <3>4, <3>8, <3>9
    <2>2. CASE seen # {}
      <3>1. Min(seen) \in seen
        <4>1. seen \in SUBSET Nat
          BY <1>3, Descriptors
        <4> HIDE DEF seen
        <4> QED
          BY <2>2, <4>1, Least
      <3>2. PICK d \in seen : d = Min(seen)
        BY <3>1
      <3>3. PICK f \in FileIds : f = Entry(p, d) /\ f # Stale /\ file[f].ref = i
        BY <1>3 DEF FileOf
      <3> DEFINE o == IF flags = "append" /\ d < n
                      THEN [file[f] EXCEPT !.pos = tree[i].size] ELSE file[f]
      <3>4. /\ proc' = [proc EXCEPT ![p].table[d] = f, ![p].count = n]
            /\ file' = [file EXCEPT ![f] = o]
            /\ UNCHANGED <<pipe, correct, damage>>
            /\ fs' = IF flags = "trunc" THEN [tree EXCEPT ![i].size = 0] ELSE tree
        BY <2>2, <3>2, <3>3 DEF get_file_descriptor
      <3>5. proc' = proc
        <4>1. proc[p].table[d] = f /\ proc[p] \in ProcessTypes
          BY <1>2, <3>3 DEF Entry
        <4> QED
          BY <1>2, <3>4, <4>1 DEF ProcessTypes
      <3>6. file[f].kind \in {"reg", "dir"}
        BY <3>3, InodeFile
      <3>7. CASE flags = "append" /\ d < n
        <4>1. file' = Moves(file, f, tree[i].size)
          BY <3>4, <3>7 DEF Moves
        <4>2. PICK z \in 0 .. MaxSize : z = tree[i].size
          OBVIOUS
        <4>3. z \in 0 .. MaxSize + MaxSent + MaxInode /\ z <= MaxSize
          BY ConstantTypes
        <4>4. Fits(tree, proc, Moves(file, f, z), pipe)
          BY <3>6, <4>3, ReferenceMoves
        <4> QED
          BY <3>4, <3>5, <4>1, <4>2, <4>4
      <3>8. CASE ~(flags = "append" /\ d < n)
        <4>1. file' = file
          BY <1>2, <3>4, <3>8
        <4> QED
          BY <3>4, <3>5, <4>1
      <3> QED
        BY <3>7, <3>8
    <2> QED
      BY <2>1, <2>2
  <1>5. Fits(fs', proc', file', pipe)
    <2>1. CASE flags = "trunc"
      <3>1. Fits([tree EXCEPT ![i].size = 0], proc', file', pipe)
        BY <1>4, Truncated
      <3> QED
        BY <1>4, <2>1, <3>1
    <2>2. CASE flags # "trunc"
      BY <1>4, <2>2
    <2> QED
      BY <2>1, <2>2
  <1> QED
    BY <1>2, <1>4, <1>5

\* An open keeps the invariant.
LEMMA OpenStep ==
  ASSUME FilesInv, Rules = AllRules, NEW p \in Pids, NEW path \in Paths, NEW flags,
         sys_open(p, path, flags)
  PROVE  FilesInv'
  <1> DEFINE pwd == proc[p].pwd
  <1>1. /\ Keeps("name what exists") /\ Calls(p) /\ Alive(p)
    BY DEF Keeps, AllRules, sys_open, Calls, Alive
  <1>2. pwd \in Directories(fs) /\ proc[p].count \in Nat /\ Fits(fs, proc, file, pipe)
        /\ correct = TRUE /\ damage = "none"
    BY <1>1, CallerIs, InvSplits
  <1>3. PICK parent : parent = get_parent_directory(fs, pwd, path)
    OBVIOUS
  <1>4. PICK found : found = get_file(fs, pwd, parent, path.name)
    OBVIOUS
  <1>5. PICK creates \in BOOLEAN : creates <=> found = Null /\ flags \in {"creat", "mkdir"}
    OBVIOUS
  <1>6. PICK kind \in {"reg", "dir"} : kind = IF flags = "mkdir" THEN "dir" ELSE "reg"
    OBVIOUS
  <1>7. PICK tree : tree = IF creates THEN ramfs_create_file(fs, parent, path.name, kind) ELSE fs
    OBVIOUS
  <1>8. PICK i : i = IF creates THEN Min(Unborn(fs)) ELSE found
    OBVIOUS
  <1>9. /\ creates => Unborn(fs) # {} /\ parent \in Inodes
        /\ found # Fault /\ i # Null
        /\ IF proc[p].count >= MAX_OPEN_FILE_DESCRIPTORS
           THEN OnlyTree(tree) ELSE get_file_descriptor(p, tree, i, flags)
    BY <1>1, <1>3, <1>4, <1>5, <1>6, <1>7, <1>8 DEF sys_open
  <1>10. /\ Fits(tree, proc, file, pipe)
         /\ i \in Inodes /\ tree[i].kind \in {"reg", "dir"} /\ tree[i].size \in 0 .. MaxSize
    <2>1. creates => found = Null /\ Unborn(fs) # {} /\ parent \in Inodes
      BY <1>5, <1>9
    <2> HIDE DEF pwd
    <2> QED
      BY <1>2, <1>3, <1>4, <1>7, <1>8, <1>9, <2>1, OpenFinds
  <1>11. CASE proc[p].count >= MAX_OPEN_FILE_DESCRIPTORS
    BY <1>2, <1>9, <1>10, <1>11 DEF OnlyTree, FilesInv
  <1>12. CASE ~(proc[p].count >= MAX_OPEN_FILE_DESCRIPTORS)
    <2>1. proc[p].count < MAX_OPEN_FILE_DESCRIPTORS
      BY <1>2, <1>12, ConstantTypes
    <2>2. get_file_descriptor(p, tree, i, flags)
      BY <1>9, <1>12
    <2>3. Fits(fs', proc', file', pipe') /\ correct' = TRUE /\ damage' = "none"
      BY <1>1, <1>10, <2>1, <2>2, DescriptorGiven
    <2> QED
      BY <2>3 DEF FilesInv
  <1> QED
    BY <1>11, <1>12

-----------------------------------------------------------------------------
(* Closing, spawning, ending                                               *)

\* The highest descriptor below n is n - 1.
LEMMA Highest ==
  ASSUME NEW n \in Nat, n >= 1
  PROVE  Max(0 .. n - 1) = n - 1
  <1>1. \E x \in 0 .. n - 1 : \A y \in 0 .. n - 1 : x >= y
    <2>1. n - 1 \in 0 .. n - 1 /\ \A y \in 0 .. n - 1 : n - 1 >= y
      OBVIOUS
    <2> QED
      BY <2>1
  <1>2. PICK x : x = Max(0 .. n - 1)
    OBVIOUS
  <1>3. x \in 0 .. n - 1 /\ \A y \in 0 .. n - 1 : x >= y
    BY <1>1, <1>2 DEF Max
  <1>4. n - 1 \in 0 .. n - 1
    OBVIOUS
  <1>5. x = n - 1
    BY <1>3, <1>4
  <1> QED
    BY <1>2, <1>5

\* The invariant and the model agree on who lives.
LEMMA LivingIsAlive ==
  \A p : Living(proc, p) <=> Alive(p)
  BY DEF Living, Alive

\* Nobody shares a File that its owner gives up.
LEMMA SharedIs ==
  ASSUME NEW p \in Pids, NEW f, ~Shared(p, f)
  PROVE  NotShared(proc, p, f)
  BY LivingIsAlive DEF Shared, NotShared, Entry

\* A close keeps the invariant.
LEMMA CloseStep ==
  ASSUME FilesInv, Rules = AllRules, NEW p \in Pids, NEW d \in Fds, sys_close(p, d)
  PROVE  FilesInv'
  <1>1. /\ Keeps("close the highest") /\ Keeps("close what is open")
        /\ Keeps("wait for sharers")
    BY DEF Keeps, AllRules
  <1>2. /\ Alive(p) /\ proc[p].state = "running" /\ d \notin Stdio
        /\ d = Max(Used(p)) /\ Entry(p, d) # None
        /\ Entry(p, d) \in FileIds => FileOf(p, d).owner # p \/ ~Shared(p, Entry(p, d))
    BY <1>1 DEF sys_close, Calls, Alive
  <1>3. PICK n \in Nat : /\ n = proc[p].count /\ n >= 3 /\ Used(p) = 0 .. n - 1
                         /\ Living(proc, p)
    BY <1>2, CallerIs
  <1>4. d = n - 1 /\ d < n
    <2>1. n >= 1 /\ d = Max(0 .. n - 1)
      BY <1>2, <1>3
    <2>2. d = n - 1
      BY <2>1, Highest
    <2> QED
      BY <2>2
  <1>5. PICK f \in FileIds : /\ f = Entry(p, d) /\ f # Stale /\ f # None
                             /\ Lives(p, d)
                             /\ \A c \in Fds : Entry(p, c) = Entry(p, d) => c = d
    BY <1>2, <1>3, <1>4, EntryLives
  <1>6. file[f].owner = p => NotShared(proc, p, f)
    BY <1>2, <1>5, SharedIs DEF FileOf
  <1>7. /\ proc' = Forgets(p, d) /\ file' = Freed(FreedByClose(p, d))
        /\ UNCHANGED <<fs, pipe, correct, damage>>
    BY <1>5, <1>2 DEF sys_close, Lives
  <1>8. Fits(fs, proc, file, pipe) /\ Tables(proc, file) /\ correct = TRUE /\ damage = "none"
    BY InvSplits
  <1>9. FreedByClose(p, d) = ClosedFiles(file, p, f)
    BY <1>5 DEF FreedByClose, ClosedFiles, FileOf
  <1>10. file' = Without(file, ClosedFiles(file, p, f))
    BY <1>7, <1>9 DEF Freed, Without
  <1>11. proc' = [proc EXCEPT ![p] = Closed(proc, p)]
    <2>1. PICK freed : freed = FreedByClose(p, d)
      OBVIOUS
    <2>2. freed \subseteq {proc[p].table[d]}
      BY <2>1 DEF FreedByClose, Entry
    <2>3. \A c \in Fds : proc[p].table[c] = proc[p].table[d] => c = d
      BY <1>5 DEF Entry
    <2>4. \A q \in Pids \ {p} : \A c \in Fds : proc[q].table[c] \notin freed
      <3>1. ASSUME NEW q \in Pids \ {p}, NEW c \in Fds, proc[q].table[c] \in freed
            PROVE  FALSE
        <4>1. proc[q].table[c] = f /\ file[f].owner = p
          BY <1>9, <2>1, <3>1 DEF ClosedFiles
        <4>2. ~Living(proc, q)
          BY <1>6, <4>1 DEF NotShared
        <4>3. proc[q].table[c] = None
          BY <1>8, <4>2 DEF Tables, EmptyTable
        <4> QED
          BY <1>5, <4>1, <4>3
      <3> QED
        BY <3>1
    <2>5. d = proc[p].count - 1
      BY <1>3, <1>4
    <2>6. Forgotten(proc, freed, p, d) = [proc EXCEPT ![p] = Closed(proc, p)]
      BY <1>8, <2>2, <2>3, <2>4, <2>5, ClosedIs
    <2> QED
      BY <1>7, <2>1, <2>6 DEF Forgets, Forgotten
  <1>12. Fits(fs, [proc EXCEPT ![p] = Closed(proc, p)],
              Without(file, ClosedFiles(file, p, f)), pipe)
    <2>1. d \in Fds \ Stdio /\ d = proc[p].count - 1 /\ f = proc[p].table[d]
      BY <1>2, <1>3, <1>4, <1>5 DEF Entry
    <2> QED
      BY <1>2, <1>6, <1>8, <2>1, DescriptorClosed
  <1> QED
    BY <1>7, <1>8, <1>10, <1>11, <1>12 DEF FilesInv

\* A spawn keeps it: the table of the child leads to the Files of its parent.
LEMMA SpawnStep ==
  ASSUME FilesInv, NEW p \in Pids, fill_process_and_spawn(p)
  PROVE  FilesInv'
  <1> DEFINE unused == {c \in Pids : proc[c].state = "none"}
  <1>1. unused # {} /\ Alive(p)
    BY DEF fill_process_and_spawn, Calls, Alive
  <1>2. PICK c \in Pids : c = Min(unused) /\ proc[c].state = "none"
    <2>1. unused \in SUBSET Nat
      BY Descriptors
    <2>2. Min(unused) \in unused
      BY <1>1, <2>1, Least
    <2> QED
      BY <2>2
  <1>3. PICK x : x = [proc[p] EXCEPT !.parent = p, !.state = "running"]
    OBVIOUS
  <1>4. /\ proc' = [proc EXCEPT ![c] = x] /\ UNCHANGED <<fs, file, pipe, correct, damage>>
    BY <1>2, <1>3 DEF fill_process_and_spawn
  <1>5. /\ Living(proc, p) /\ proc[p] \in ProcessTypes /\ proc[p].pwd \in Directories(fs)
        /\ Fits(fs, proc, file, pipe) /\ correct = TRUE /\ damage = "none"
    BY <1>1, CallerIs, InvSplits
  <1>6. /\ x \in ProcessTypes /\ x.table = proc[p].table /\ x.count = proc[p].count
        /\ x.state = "running" /\ x.pwd = proc[p].pwd
    BY <1>3, <1>5 DEF ProcessTypes
  <1>7. ~Living(proc, c)
    BY <1>2 DEF Living
  <1>8. Fits(fs, [proc EXCEPT ![c] = x], file, pipe)
    BY <1>5, <1>6, <1>7, ProcessChange
  <1> QED
    BY <1>4, <1>5, <1>8 DEF FilesInv

\* A File that refers to a pipe is an end of it, and belongs to its maker.
LEMMA PipeFile ==
  ASSUME NEW t, NEW ps, NEW os, NEW ts, Fits(t, ps, os, ts), NEW f \in FileIds,
         NEW k \in Pipes, os[f].ref = PipeRef(k)
  PROVE  IsEnd(os[f]) /\ os[f].owner = ts[k].owner
  <1>1. FileFits(ps, os, f) /\ EndFits(os, ts, f) /\ RefFits(t, os, f)
    BY DEF Fits, Tables, PipesFit
  <1>2. os[f].kind \in {"free", "tty", "reg", "dir", "read end", "write end"}
    BY FileFields DEF Fits
  <1>3. os[f].ref # Null /\ os[f].ref \notin Inodes
    BY PipeNumbers
  <1>4. os[f].kind \notin {"free", "tty"}
    BY <1>1, <1>3 DEF FileFits, NewFile, NoFile
  <1>5. os[f].kind \notin {"reg", "dir"}
    BY <1>1, <1>3 DEF RefFits
  <1>6. IsEnd(os[f])
    BY <1>2, <1>4, <1>5 DEF IsEnd
  <1>7. PICK j \in Pipes : os[f].ref = PipeRef(j) /\ ts[j].owner = os[f].owner
    BY <1>1, <1>6 DEF EndFits
  <1>8. j = k
    BY <1>7, PipeNumbers
  <1> QED
    BY <1>6, <1>7, <1>8

\* The Files that a process frees at its end are the ones it owns.
LEMMA OwnFilesAre ==
  ASSUME FilesInv, NEW p \in Pids, Alive(p)
  PROVE  {Entry(p, d) : d \in {d \in 0 .. proc[p].count - 1 :
                                 Entry(p, d) \in FileIds /\ FileOf(p, d).owner = p}}
           = OwnFiles(file, p)
  <1> DEFINE low == 0 .. proc[p].count - 1
             mine == {Entry(p, d) : d \in {d \in low : Entry(p, d) \in FileIds
                                                        /\ FileOf(p, d).owner = p}}
  <1>1. proc[p].count \in Nat /\ proc[p].count <= MAX_OPEN_FILE_DESCRIPTORS
        /\ Living(proc, p)
    BY CallerIs
  <1>2. \A d \in low : d \in Fds /\ d < proc[p].count
    BY <1>1, ConstantTypes DEF Fds
  <1>3. ASSUME NEW f \in mine
        PROVE  f \in OwnFiles(file, p)
    <2>1. PICK d \in low : f = Entry(p, d) /\ Entry(p, d) \in FileIds
                           /\ FileOf(p, d).owner = p
      BY <1>3
    <2>2. FileOf(p, d).kind # "free"
      BY <1>2, EntryLives
    <2> QED
      BY <2>1, <2>2 DEF OwnFiles, FileOf
  <1>4. ASSUME NEW f \in OwnFiles(file, p)
        PROVE  f \in mine
    <2>1. f \in FileIds /\ file[f].kind # "free" /\ file[f].owner = p
      BY <1>4 DEF OwnFiles
    <2>2. FileFits(proc, file, f)
      BY <2>1, InvSplits DEF Tables
    <2>3. f \notin Stdio
      BY <2>1, <2>2 DEF FileFits, NewFile, Pids
    <2>4. PICK d \in Fds \ Stdio : proc[p].table[d] = f
      BY <2>1, <2>2, <2>3 DEF FileFits, OwnerHas
    <2>5. d < proc[p].count
      <3>1. proc[p].table[d] # None
        BY <2>1, <2>4, Descriptors
      <3>2. ~(d >= proc[p].count)
        BY <1>1, <2>4, <3>1, InUse, InvSplits
      <3> QED
        BY <1>1, <3>2, Descriptors
    <2>6. d \in low
      BY <1>1, <2>5, Descriptors
    <2>7. Entry(p, d) = f /\ FileOf(p, d).owner = p
      BY <2>1, <2>4 DEF Entry, FileOf
    <2> QED
      BY <2>1, <2>6, <2>7
  <1> QED
    BY <1>3, <1>4

\* An exit keeps it.
LEMMA KillStep ==
  ASSUME FilesInv, Rules = AllRules, NEW p \in Pids, sys_kill(p)
  PROVE  FilesInv'
  <1> DEFINE low == 0 .. proc[p].count - 1
  <1>1. Alive(p) /\ \A f \in FileIds : Owns(p, f) => ~Shared(p, f)
    BY DEF sys_kill, Keeps, AllRules
  <1>2. /\ Living(proc, p) /\ proc[p].count \in Nat
        /\ proc[p].count <= MAX_OPEN_FILE_DESCRIPTORS
        /\ Fits(fs, proc, file, pipe) /\ correct = TRUE /\ damage = "none"
        /\ proc \in [Pids -> ProcessTypes] /\ file \in [FileIds -> FileTypes]
        /\ Tables(proc, file)
    BY <1>1, CallerIs, InvSplits
  <1>3. \A d \in low : /\ Entry(p, d) # None /\ Entry(p, d) # Stale
                       /\ ~Gone(fs, FileOf(p, d).ref)
    <2>1. ASSUME NEW d \in low
          PROVE  /\ Entry(p, d) # None /\ Entry(p, d) # Stale
                 /\ ~Gone(fs, FileOf(p, d).ref)
      <3>1. d \in Fds /\ d < proc[p].count
        BY <1>2, ConstantTypes DEF Fds
      <3> QED
        BY <1>1, <3>1, EntryLives DEF Lives
    <2> QED
      BY <2>1
  <1>4. PICK mine : mine = OwnFiles(file, p)
    OBVIOUS
  <1>5. /\ proc' = [Dangling(proc, mine) EXCEPT ![p] = [NoProcess EXCEPT !.state = "dead"]]
        /\ file' = [f \in FileIds |->
             IF f \in mine THEN NoFile
             ELSE IF file[f].ref \in {PipeRef(k) : k \in PipesOf(p)}
             THEN [file[f] EXCEPT !.ref = Lost] ELSE file[f]]
        /\ pipe' = [k \in Pipes |-> IF k \in PipesOf(p) THEN NoPipe ELSE pipe[k]]
        /\ UNCHANGED <<fs, correct, damage>>
    <2>1. mine = {Entry(p, d) : d \in {d \in low : Entry(p, d) \in FileIds
                                                    /\ FileOf(p, d).owner = p}}
      BY <1>1, <1>4, OwnFilesAre
    <2> QED
      BY <1>3, <2>1 DEF sys_kill
  <1>6. \A f \in mine : NotShared(proc, p, f)
    BY <1>1, <1>4, SharedIs DEF OwnFiles, Owns
  <1>7. proc' = [proc EXCEPT ![p] = Ended]
    <2>1. \A q \in Pids : q # p => Dangling(proc, mine)[q] = proc[q]
      <3>1. ASSUME NEW q \in Pids, q # p
            PROVE  Dangling(proc, mine)[q] = proc[q]
        <4>1. ASSUME NEW c \in Fds, proc[q].table[c] \in mine
              PROVE  FALSE
          <5>1. ~Living(proc, q)
            BY <1>6, <3>1, <4>1 DEF NotShared
          <5>2. proc[q].table[c] = None
            BY <1>2, <5>1 DEF Tables, EmptyTable
          <5> QED
            BY <1>4, <4>1, <5>2, Descriptors DEF OwnFiles
        <4> QED
          BY <1>2, <4>1, DanglingLeaves
      <3> QED
        BY <3>1
    <2>2. DOMAIN Dangling(proc, mine) = Pids
          /\ Dangling(proc, mine) = [q \in Pids |-> Dangling(proc, mine)[q]]
      BY DEF Dangling
    <2> QED
      BY <1>2, <1>5, <2>1, <2>2 DEF Ended
  <1>8. file' = Without(file, mine)
    <2>1. ASSUME NEW f \in FileIds, file[f].ref \in {PipeRef(k) : k \in PipesOf(p)}
          PROVE  f \in mine
      <3>1. PICK k \in Pipes : pipe[k].owner = p /\ file[f].ref = PipeRef(k)
        BY <2>1 DEF PipesOf
      <3>2. IsEnd(file[f]) /\ file[f].owner = p
        BY <1>2, <3>1, PipeFile
      <3> QED
        BY <1>4, <3>2 DEF OwnFiles, IsEnd
    <2> QED
      BY <1>5, <2>1 DEF Without
  <1>9. pipe' = [k \in Pipes |-> IF pipe[k].owner = p THEN NoPipe ELSE pipe[k]]
    BY <1>5 DEF PipesOf
  <1>10. PICK us : us = [k \in Pipes |-> IF pipe[k].owner = p THEN NoPipe ELSE pipe[k]]
    OBVIOUS
  <1>11. Fits(fs, [proc EXCEPT ![p] = Ended], Without(file, mine), us)
    BY <1>2, <1>4, <1>6, <1>10, ProcessEnded
  <1> QED
    BY <1>2, <1>5, <1>7, <1>8, <1>9, <1>10, <1>11 DEF FilesInv

-----------------------------------------------------------------------------
(* Pipes                                                                   *)

\* The two least descriptors that are not in use.
LEMMA TwoLeast ==
  ASSUME NEW n \in Nat, n >= 3, n + 2 <= MAX_OPEN_FILE_DESCRIPTORS,
         NEW used, used = 0 .. n - 1,
         NEW slots, slots = (Fds \ Stdio) \ used
  PROVE  n \in Fds /\ n + 1 \in Fds /\ Min(slots) = n /\ Min(slots \ {n}) = n + 1
  <1>1. n < MAX_OPEN_FILE_DESCRIPTORS /\ n + 1 < MAX_OPEN_FILE_DESCRIPTORS
    BY ConstantTypes
  <1>2. Stdio \subseteq 0 .. n - 1
    BY DEF Stdio
  <1>3. Min(slots) = n
    BY <1>1, <1>2, LeastUnused
  <1>4. PICK m \in Nat : m = n + 1
    OBVIOUS
  <1>5. Stdio \subseteq 0 .. m - 1 /\ m < MAX_OPEN_FILE_DESCRIPTORS
    BY <1>1, <1>4 DEF Stdio
  <1>6. slots \ {n} = (Fds \ Stdio) \ (0 .. m - 1)
    BY <1>4
  <1>7. Min(slots \ {n}) = m
    BY <1>5, <1>6, LeastUnused
  <1> QED
    BY <1>1, <1>3, <1>4, <1>7, Descriptors

TwoMore(ps, p, d, e) ==
  [ps EXCEPT ![p].table[d] = Home(p, d), ![p].table[e] = Home(p, e), ![p].count = @ + 2]

\* The two descriptors of a pipe are one more, and one more.
LEMMA OneMoreTwice ==
  ASSUME NEW ps, NEW os, Tables(ps, os), NEW p \in Pids, Living(ps, p),
         NEW d \in Fds, d = ps[p].count, NEW e \in Fds, e = d + 1
  PROVE  TwoMore(ps, p, d, e) = OneMore(OneMore(ps, p), p)
  <1>1. ps \in [Pids -> ProcessTypes] /\ d \in Nat
    BY Descriptors DEF Tables
  <1>2. PICK qs : qs = OneMore(ps, p)
    OBVIOUS
  <1>3. /\ qs[p] = Opened(ps, p) /\ qs = [ps EXCEPT ![p] = Opened(ps, p)]
    BY <1>1, <1>2 DEF OneMore
  <1>4. PICK x \in ProcessTypes : x = ps[p]
    BY <1>1
  <1>5. PICK first : first = [x.table EXCEPT ![d] = Home(p, d)]
    OBVIOUS
  <1>6. PICK second : second = [first EXCEPT ![e] = Home(p, e)]
    OBVIOUS
  <1>7. PICK y : y = [x EXCEPT !.table = first, !.count = e]
    OBVIOUS
  <1>8. qs[p] = y
    BY <1>3, <1>4, <1>5, <1>7 DEF Opened
  <1>9. y.table = first /\ y.count = e
    BY <1>4, <1>7 DEF ProcessTypes
  <1>10. Opened(qs, p) = [y EXCEPT !.table = second, !.count = e + 1]
    BY <1>6, <1>8, <1>9 DEF Opened
  <1>11. [y EXCEPT !.table = second, !.count = e + 1] = [x EXCEPT !.table = second, !.count = d + 2]
    <2>1. e + 1 = d + 2
      BY <1>1
    <2> QED
      BY <1>7, <2>1
  <1>12. OneMore(qs, p) = [ps EXCEPT ![p] = [x EXCEPT !.table = second, !.count = d + 2]]
    <2>1. PICK z : z = Opened(qs, p)
      OBVIOUS
    <2>2. [qs EXCEPT ![p] = z] = [ps EXCEPT ![p] = z]
      BY <1>1, <1>3
    <2> QED
      BY <1>10, <1>11, <2>1, <2>2 DEF OneMore
  <1>13. TwoMore(ps, p, d, e) = [ps EXCEPT ![p] = [x EXCEPT !.table = second, !.count = d + 2]]
    BY <1>1, <1>4, <1>5, <1>6 DEF TwoMore, ProcessTypes
  <1> QED
    BY <1>2, <1>12, <1>13

\* A pipe that was just made.
LEMMA NewPipeIs ==
  ASSUME NEW ts \in [Pipes -> PipeTypes], NEW k \in Pipes, NEW p \in Pids,
         NEW us, us = [ts EXCEPT ![k] = [NoPipe EXCEPT !.owner = p]]
  PROVE  NewPipe(ts, us, k, p)
  <1>1. PICK y : y = [NoPipe EXCEPT !.owner = p]
    OBVIOUS
  <1>2. /\ y.owner = p /\ y.size = 0 /\ y.write_offset = 0 /\ y.sent = 0 /\ y.taken = 0
        /\ y = [owner |-> p, size |-> 0, write_offset |-> 0, sent |-> 0, taken |-> 0,
                bytes |-> [j \in 0 .. MaxSent - 1 |-> Nothing]]
    BY <1>1 DEF NoPipe
  <1>3. 0 \in 0 .. MaxSent
    BY ConstantTypes
  <1>4. y \in PipeTypes
    BY <1>2, <1>3 DEF PipeTypes
  <1>5. PipeFits(y)
    BY <1>2 DEF PipeFits
  <1>6. us = [ts EXCEPT ![k] = y] /\ us[k] = y
    BY <1>1
  <1> QED
    BY <1>2, <1>4, <1>5, <1>6 DEF NewPipe

\* Making a pipe keeps the invariant.
LEMMA PipeStep ==
  ASSUME FilesInv, Rules = AllRules, NEW p \in Pids, sys_pipe(p)
  PROVE  FilesInv'
  <1> DEFINE slots == (Fds \ Stdio) \ Used(p)
             unused == {j \in Pipes : pipe[j].owner = 0}
  <1>1. /\ Alive(p) /\ proc[p].state = "running" /\ unused # {}
        /\ proc[p].count + 2 <= MAX_OPEN_FILE_DESCRIPTORS
        /\ PipesOf(p) = {}
    BY DEF sys_pipe, Calls, Alive, Keeps, AllRules
  <1>2. /\ Living(proc, p) /\ Tables(proc, file)
        /\ Fits(fs, proc, file, pipe) /\ correct = TRUE /\ damage = "none"
        /\ proc \in [Pids -> ProcessTypes] /\ file \in [FileIds -> FileTypes]
        /\ pipe \in [Pipes -> PipeTypes]
    BY <1>1, CallerIs, InvSplits
  <1>3. PICK n \in Nat : n = proc[p].count /\ n >= 3 /\ Used(p) = 0 .. n - 1
    BY <1>1, CallerIs
  <1>4. n \in Fds /\ n + 1 \in Fds /\ Min(slots) = n /\ Min(slots \ {n}) = n + 1
    BY <1>1, <1>3, TwoLeast
  <1>5. PICK e \in Fds : e = n + 1
    BY <1>4
  <1>6. PICK r \in FileIds : r = Home(p, n) /\ file[r].kind = "free" /\ r \notin Stdio
                             /\ n \notin Stdio
    BY <1>2, <1>3, <1>4, NextFree
  <1>7. PICK w \in FileIds : w = Home(p, e) /\ file[w].kind = "free" /\ w \notin Stdio
                             /\ e \notin Stdio
    <2>1. e >= proc[p].count
      BY <1>3, <1>5
    <2> QED
      BY <1>2, <2>1, NextFree
  <1>8. r # w
    <2>1. n # e
      BY <1>5
    <2> QED
      BY <1>4, <1>6, <1>7, <2>1, HomeInjective
  <1>9. FreeFile(p, n) = r /\ FreeFile(p, e) = w
    BY <1>6, <1>7 DEF FreeFile
  <1>10. PICK k \in Pipes : k = Min(unused) /\ pipe[k].owner = 0
    <2>1. unused \in SUBSET Nat
      BY PipeNumbers
    <2>2. Min(unused) \in unused
      BY <1>1, <2>1, Least
    <2> QED
      BY <2>2
  <1>11. PICK o : o = NewFile("read end", PipeRef(k), p)
    OBVIOUS
  <1>12. PICK q : q = NewFile("write end", PipeRef(k), p)
    OBVIOUS
  <1>13. /\ proc' = [proc EXCEPT ![p].table[n] = r, ![p].table[e] = w, ![p].count = @ + 2]
         /\ file' = [f \in FileIds |-> IF f = r THEN o ELSE IF f = w THEN q ELSE file[f]]
         /\ pipe' = [pipe EXCEPT ![k] = [NoPipe EXCEPT !.owner = p]]
         /\ UNCHANGED <<fs, correct, damage>>
    <2>1. Min(slots) = n /\ Min(slots \ {Min(slots)}) = e
      BY <1>4, <1>5
    <2>2. \A moves \in {FALSE, {PipeRef(j) : j \in PipesOf(p)} # {}} : moves = FALSE
      BY <1>1
    <2> QED
      BY <1>9, <1>10, <1>11, <1>12, <2>1, <2>2 DEF sys_pipe
  <1>14. /\ o \in FileTypes /\ o.owner = p /\ o.kind = "read end" /\ o.ref = PipeRef(k)
         /\ o.pos = 0
         /\ q \in FileTypes /\ q.owner = p /\ q.kind = "write end" /\ q.ref = PipeRef(k)
         /\ q.pos = 0
    <2>1. PipeRef(k) \in Refs /\ p \in Pids \cup {0}
      BY PipeNumbers
    <2>2. 0 \in 0 .. MaxSize + MaxSent + MaxInode
      BY ConstantTypes
    <2> QED
      BY <1>11, <1>12, <2>1, <2>2 DEF NewFile, FileTypes
  <1>15. PICK qs : qs = OneMore(OneMore(proc, p), p)
    OBVIOUS
  <1>16. proc' = qs
    <2>1. proc' = TwoMore(proc, p, n, e)
      BY <1>6, <1>7, <1>13 DEF TwoMore
    <2>2. TwoMore(proc, p, n, e) = qs
      BY <1>2, <1>3, <1>4, <1>5, <1>15, OneMoreTwice
    <2> QED
      BY <2>1, <2>2
  <1>17. PICK vs : vs = [[file EXCEPT ![r] = o] EXCEPT ![w] = q]
    OBVIOUS
  <1>18. file' = vs
    BY <1>2, <1>8, <1>13, <1>17
  <1>19. Tables(qs, vs) /\ SameElse(proc, qs, p)
    <2>1. o.kind \notin {"free", "tty"} /\ q.kind \notin {"free", "tty"}
      BY <1>14
    <2> QED
      BY <1>2, <1>3, <1>4, <1>5, <1>6, <1>7, <1>14, <1>15, <1>17, <2>1, TwoMoreKeeps
  <1>20. NewEnds(file, vs, r, w, k, p)
    BY <1>2, <1>8, <1>14, <1>17 DEF NewEnds
  <1>21. PICK us : us = [pipe EXCEPT ![k] = [NoPipe EXCEPT !.owner = p]]
    OBVIOUS
  <1>22. NewPipe(pipe, us, k, p)
    BY <1>2, <1>21, NewPipeIs
  <1>23. Fits(fs, qs, vs, us)
    BY <1>1, <1>2, <1>6, <1>7, <1>8, <1>10, <1>19, <1>20, <1>22, PipeAdded
  <1> QED
    BY <1>2, <1>13, <1>16, <1>18, <1>21, <1>23 DEF FilesInv

-----------------------------------------------------------------------------
(* Reading                                                                 *)

\* What the position becomes that a read leaves, in a file or a pipe.
AdvancesTo(o, n, size, pos) == Advanced(o, n, size) = [o EXCEPT !.pos = pos]
\* A File after a read: at the end, or so many bytes on.
LEMMA AdvancedIs ==
  ASSUME NEW o \in FileTypes, NEW n \in Nat, NEW size \in Nat, o.pos \in Nat
  PROVE  \E pos \in Nat : /\ pos = IF o.pos + n > size THEN size ELSE o.pos + n
                          /\ pos <= size /\ AdvancesTo(o, n, size, pos)
  <1>1. PICK pos \in Nat : pos = IF o.pos + n > size THEN size ELSE o.pos + n
    OBVIOUS
  <1>2. pos <= size
    BY <1>1
  <1>3. AdvancesTo(o, n, size, pos)
    BY <1>1 DEF Advanced, AdvancesTo
  <1> QED
    BY <1>1, <1>2, <1>3

\* A read of a file keeps the invariant.
LEMMA ReadFileStep ==
  ASSUME FilesInv, NEW p \in Pids, NEW d \in Fds, Uses(p, d), NEW n \in Nat, ReadFile(p, d, n)
  PROVE  FilesInv'
  <1>1. PICK f \in FileIds : f = Entry(p, d) /\ FileOf(p, d) = file[f]
    BY DescriptorUsed
  <1>2. /\ file[f].kind = "reg" /\ RefFits(fs, file, f) /\ Tree(fs)
        /\ Fits(fs, proc, file, pipe) /\ correct = TRUE /\ damage = "none"
        /\ file[f] \in FileTypes /\ file[f].pos \in Nat
    BY <1>1, DescriptorUsed, InvSplits DEF ReadFile, Is
  <1>3. PICK i \in Inodes : i = file[f].ref
    BY <1>2 DEF RefFits
  <1>4. PICK size \in Nat : size = fs[i].size /\ size <= MaxSize
    BY <1>2, InodeFields
  <1>5. PICK pos \in Nat : pos <= size /\ AdvancesTo(file[f], n, size, pos)
    BY <1>2, AdvancedIs
  <1>6. /\ file' = Moves(file, f, pos) /\ UNCHANGED <<fs, proc, pipe, damage>>
    BY <1>1, <1>3, <1>4, <1>5 DEF ReadFile, Moves, AdvancesTo
  <1>7. correct' = TRUE
    <2>1. PICK at \in Nat : at = file[f].pos
      BY <1>2
    <2>2. ramfs_read(fs, i, n, at) = Run(at, Min({n, Max({fs[i].size - at, 0})}))
      BY <1>2, ReadReturns
    <2> QED
      BY <1>1, <1>2, <1>3, <2>1, <2>2 DEF ReadFile
  <1>8. pos <= MaxSize
    BY <1>4, <1>5, ConstantTypes
  <1>9. pos \in 0 .. MaxSize + MaxSent + MaxInode
    BY <1>8, PositionTypes
  <1>10. Fits(fs, proc, Moves(file, f, pos), pipe)
    BY <1>2, <1>8, <1>9, ReferenceMoves
  <1> QED
    BY <1>2, <1>6, <1>7, <1>10 DEF FilesInv

\* Who is not blocked.
LEMMA NotBlockedTypes ==
  NotBlocked \in [fd : Fds \cup {None}, offset : {0}, count : 0 .. MaxTransfer]
  <1>1. 0 \in 0 .. MaxTransfer
    BY ConstantTypes
  <1> QED
    BY <1>1 DEF NotBlocked

\* What a read takes out of a pipe is behind what was taken before, and is there.
MayTake(offset, n, size) == offset = 0 \/ offset + n <= size
Takes(offset, n, size, count, pos) ==
  /\ count = IF offset + n <= size THEN n ELSE size
  /\ pos = offset + count /\ ~(offset + count > size)
  /\ pos <= size /\ pos = IF offset + n > size THEN size ELSE offset + n
\* How many bytes a read of a pipe takes.
LEMMA TakesThat ==
  ASSUME NEW n \in Nat, NEW offset \in Nat, NEW size \in Nat, offset <= size,
         MayTake(offset, n, size)
  PROVE  \E count, pos \in Nat : Takes(offset, n, size, count, pos)
  <1>1. PICK count \in Nat : count = IF offset + n <= size THEN n ELSE size
    OBVIOUS
  <1>2. PICK pos \in Nat : pos = offset + count
    OBVIOUS
  <1>3. Takes(offset, n, size, count, pos)
    BY <1>1, <1>2 DEF Takes, MayTake
  <1> QED
    BY <1>3

Filled(bytes, n) == \A j \in 0 .. n - 1 : bytes[j] = j
Bytes(bytes, offset, n) == [j \in 1 .. n |-> bytes[offset + j - 1]]
\* What is taken is the run of bytes from where the reader was.
LEMMA BytesTaken ==
  ASSUME NEW offset \in Nat, NEW size \in Nat, NEW count \in Nat, offset + count <= size,
         NEW bytes, Filled(bytes, size)
  PROVE  Run(offset, count) = Bytes(bytes, offset, count)
  <1>1. \A j \in 1 .. count : bytes[offset + j - 1] = offset + j - 1
    <2>1. ASSUME NEW j \in 1 .. count
          PROVE  bytes[offset + j - 1] = offset + j - 1
      <3>1. PICK m \in 0 .. size - 1 : m = offset + j - 1
        OBVIOUS
      <3> QED
        BY <3>1 DEF Filled
    <2> QED
      BY <2>1
  <1> QED
    BY <1>1 DEF Run, Bytes

\* The pipe that is behind a File.
LEMMA PipeBehind ==
  ASSUME FilesInv, NEW f \in FileIds, IsEnd(file[f])
  PROVE  \E k \in Pipes :
           /\ PipeOf(file[f]) = k /\ file[f].ref = PipeRef(k)
           /\ file[f].kind = "read end" => file[f].pos = pipe[k].taken
           /\ file[f].kind = "write end" => file[f].pos = pipe[k].sent
  <1>1. EndFits(file, pipe, f)
    BY InvSplits DEF PipesFit
  <1>2. PICK k \in Pipes :
           /\ file[f].ref = PipeRef(k)
           /\ file[f].kind = "read end" => file[f].pos = pipe[k].taken
           /\ file[f].kind = "write end" => file[f].pos = pipe[k].sent
    BY <1>1 DEF EndFits
  <1>3. PipeOf(file[f]) = k
    BY <1>2, PipeNumbers DEF PipeOf
  <1> QED
    BY <1>2, <1>3

\* Whoever is on the processor or waits, reads what it may.
LEMMA PipeRead ==
  ASSUME FilesInv, NEW p \in Pids, Alive(p), NEW d \in Fds, d < proc[p].count,
         NEW f \in FileIds, f = Entry(p, d), file[f].kind = "read end",
         NEW n \in Nat, MayTake(file[f].pos, n, pipe[PipeOf(file[f])].size),
         \A q \in Pids : q # p /\ proc[q].state = "reading" =>
           proc[q].table[proc[q].blocked.fd] # f,
         pipe_read(p, d, n, file[f].pos)
  PROVE  FilesInv'
  <1>1. /\ Living(proc, p) /\ Lives(p, d) /\ FileOf(p, d) = file[f]
        /\ Fits(fs, proc, file, pipe) /\ PipesFit(file, pipe)
        /\ correct = TRUE /\ damage = "none"
        /\ proc \in [Pids -> ProcessTypes] /\ file \in [FileIds -> FileTypes]
        /\ pipe \in [Pipes -> PipeTypes] /\ proc[p].pwd \in Directories(fs)
        /\ IsEnd(file[f])
    BY CallerIs, InvSplits, EntryLives DEF FileOf, IsEnd
  <1>2. PICK k \in Pipes : PipeOf(file[f]) = k /\ file[f].ref = PipeRef(k)
                           /\ file[f].pos = pipe[k].taken
    BY <1>1, PipeBehind
  <1>3. PICK offset \in Nat : offset = pipe[k].taken /\ offset = file[f].pos
                              /\ offset <= pipe[k].sent
    BY <1>1, <1>2, PipeFields
  <1>4. PICK size \in Nat : size = pipe[k].sent /\ size = pipe[k].size /\ size <= MaxSent
    <2>1. /\ pipe[k].sent \in Nat /\ pipe[k].sent = pipe[k].size /\ pipe[k].sent <= MaxSent
      BY <1>1, PipeFields, ZenonT(60)
    <2> QED
      BY <2>1
  <1>5. Filled(pipe[k].bytes, size)
    <2>1. Filled(pipe[k].bytes, pipe[k].sent)
      BY <1>1, PipeFields, ZenonT(60) DEF Filled
    <2> QED
      BY <1>4, <2>1
  <1>6. PICK count, pos \in Nat : Takes(offset, n, size, count, pos)
    <2>1. offset <= size /\ MayTake(offset, n, size)
      BY <1>2, <1>3, <1>4
    <2> QED
      BY <2>1, TakesThat
  <1>7. /\ file' = [file EXCEPT ![f] = Advanced(file[f], n, size)]
        /\ pipe' = [pipe EXCEPT ![k].taken = @ + count]
        /\ proc' = [proc EXCEPT ![p].state = "running", ![p].blocked = NotBlocked]
        /\ correct' = (correct /\ Run(pipe[k].taken, count) =
             [j \in 1 .. count |-> pipe[k].bytes[offset + j - 1]])
        /\ UNCHANGED <<fs, damage>>
    BY <1>1, <1>2, <1>3, <1>4, <1>6 DEF pipe_read, Takes
  <1>8. correct' = TRUE
    <2>1. PICK bytes : bytes = pipe[k].bytes
      OBVIOUS
    <2>2. Filled(bytes, size)
      BY <1>5, <2>1
    <2>3. Run(offset, count) = Bytes(bytes, offset, count)
      <3>1. count \in Nat /\ offset + count <= size
        BY <1>6 DEF Takes
      <3> QED
        BY <2>2, <3>1, BytesTaken, ZenonT(60)
    <2> QED
      BY <1>1, <1>3, <1>7, <2>1, <2>3 DEF Bytes
  <1>9. file' = Moves(file, f, pos)
    <2>1. Advanced(file[f], n, size) = [file[f] EXCEPT !.pos = pos]
      BY <1>3, <1>6 DEF Advanced, Takes
    <2> QED
      BY <1>7, <2>1 DEF Moves
  <1>10. PICK y : y = [pipe[k] EXCEPT !.taken = @ + count]
    OBVIOUS
  <1>11. pipe' = [pipe EXCEPT ![k] = y]
    BY <1>7, <1>10
  <1>12. /\ y \in PipeTypes /\ PipeFits(y) /\ y.owner = pipe[k].owner
         /\ y.taken = pos /\ y.sent = pipe[k].sent
    <2>1. pos \in 0 .. MaxSent /\ pos <= size
      <3>1. pos <= size
        BY <1>6 DEF Takes
      <3> QED
        BY ONLY <1>4, <3>1, pos \in Nat, size \in Nat, ConstantTypes
    <2>2. y = [pipe[k] EXCEPT !.taken = pos]
      BY <1>3, <1>6, <1>10 DEF Takes
    <2>3. pipe[k] \in PipeTypes /\ PipeFits(pipe[k])
      BY <1>1 DEF PipesFit
    <2>4. /\ y \in PipeTypes /\ y.owner = pipe[k].owner /\ y.taken = pos
          /\ y.sent = pipe[k].sent /\ y.size = pipe[k].size /\ y.bytes = pipe[k].bytes
          /\ y.write_offset = pipe[k].write_offset
      BY <2>1, <2>2, <2>3 DEF PipeTypes
    <2>5. PipeFits(y)
      BY <1>4, <2>1, <2>3, <2>4 DEF PipeFits
    <2> QED
      BY <2>4, <2>5
  <1>13. PICK x : x = [proc[p] EXCEPT !.state = "running", !.blocked = NotBlocked]
    OBVIOUS
  <1>14. PICK qs : qs = [proc EXCEPT ![p] = x]
    OBVIOUS
  <1>15. proc' = qs
    BY <1>1, <1>7, <1>13, <1>14
  <1>16. /\ x \in ProcessTypes /\ x.table = proc[p].table /\ x.count = proc[p].count
         /\ x.state = "running" /\ x.pwd = proc[p].pwd
    <2>1. proc[p] \in ProcessTypes
      BY <1>1
    <2> QED
      BY <1>13, <2>1, NotBlockedTypes DEF ProcessTypes
  <1>17. Fits(fs, qs, file, pipe)
    BY <1>1, <1>14, <1>16, ProcessChange
  <1>18. \A q \in Pids : qs[q].state = "reading" => qs[q].table[qs[q].blocked.fd] # f
    BY <1>1, <1>14, <1>16
  <1>19. pos \in 0 .. MaxSize + MaxSent + MaxInode
    <2>1. pos <= size
      BY <1>6 DEF Takes
    <2>2. pos <= MaxSent
      BY ONLY <1>4, <2>1, pos \in Nat, size \in Nat, ConstantTypes
    <2> QED
      BY <2>2, PositionTypes
  <1>20. PICK us : us = [pipe EXCEPT ![k] = y]
    OBVIOUS
  <1>21. Fits(fs, qs, Moves(file, f, pos), us)
    BY <1>1, <1>2, <1>12, <1>17, <1>18, <1>19, <1>20, EndMoves
  <1> QED
    BY <1>1, <1>7, <1>8, <1>9, <1>11, <1>15, <1>20, <1>21 DEF FilesInv

\* A read of a pipe keeps the invariant, whether it blocks or not.
LEMMA ReadPipeStep ==
  ASSUME FilesInv, Rules = AllRules, NEW p \in Pids, NEW d \in Fds, Uses(p, d),
         NEW n \in 1 .. MaxTransfer, ReadPipe(p, d, n)
  PROVE  FilesInv'
  <1>1. PICK f \in FileIds : f = Entry(p, d) /\ FileOf(p, d) = file[f]
    BY DescriptorUsed
  <1>2. /\ Alive(p) /\ proc[p].state = "running" /\ d < proc[p].count
        /\ file[f].kind = "read end" /\ f \notin AwaitedFiles
        /\ file[f].pos = 0 \/ file[f].pos + n <= pipe[PipeOf(file[f])].size
        /\ IF Written(PipeOf(file[f])) THEN pipe_read(p, d, n, file[f].pos)
           ELSE BlockOnPipe(p, d, n)
    BY <1>1, DescriptorUsed DEF ReadPipe, Is, Keeps, AllRules
  <1>3. \A q \in Pids : proc[q].state = "reading" => proc[q].table[proc[q].blocked.fd] # f
    BY <1>2 DEF AwaitedFiles, Entry
  <1>4. CASE Written(PipeOf(file[f]))
    <2>1. n \in Nat /\ MayTake(file[f].pos, n, pipe[PipeOf(file[f])].size)
      <3>1. MayTake(file[f].pos, n, pipe[PipeOf(file[f])].size)
        BY <1>2 DEF MayTake
      <3> QED
        BY <3>1, ConstantTypes
    <2>2. pipe_read(p, d, n, file[f].pos)
      BY <1>2, <1>4
    <2>3. \A q \in Pids : q # p /\ proc[q].state = "reading" =>
            proc[q].table[proc[q].blocked.fd] # f
      BY <1>3
    <2> QED
      BY <1>1, <1>2, <2>1, <2>2, <2>3, PipeRead, ZenonT(60)
  <1>5. CASE ~Written(PipeOf(file[f]))
    <2>1. /\ Fits(fs, proc, file, pipe) /\ correct = TRUE /\ damage = "none"
          /\ proc \in [Pids -> ProcessTypes] /\ PipesFit(file, pipe)
      BY InvSplits
    <2>2. PICK k \in Pipes : PipeOf(file[f]) = k /\ file[f].pos = pipe[k].taken
      BY <1>2, PipeBehind DEF IsEnd
    <2>3. file[f].pos = 0
      <3>1. /\ pipe[k].taken \in Nat /\ pipe[k].sent \in Nat /\ pipe[k].taken <= pipe[k].sent
            /\ pipe[k].write_offset = pipe[k].sent
        BY <2>1, PipeFields
      <3>2. ~(pipe[k].write_offset > 0)
        BY <1>5, <2>2 DEF Written
      <3>3. PICK taken, sent \in Nat : taken = pipe[k].taken /\ sent = pipe[k].sent
        BY <3>1
      <3> QED
        BY <2>2, <3>1, <3>2, <3>3
    <2>4. PICK at : at = [fd |-> d, offset |-> 0, count |-> n]
      OBVIOUS
    <2>5. PICK x : x = [proc[p] EXCEPT !.state = "reading", !.blocked = at]
      OBVIOUS
    <2>6. proc' = [proc EXCEPT ![p] = x] /\ UNCHANGED <<fs, file, pipe, correct, damage>>
      BY <1>1, <1>2, <1>5, <2>1, <2>3, <2>4, <2>5 DEF BlockOnPipe
    <2>7. at.fd = d /\ at \in [fd : Fds \cup {None}, offset : {0}, count : 0 .. MaxTransfer]
      <3>1. n \in 0 .. MaxTransfer
        BY ConstantTypes
      <3> QED
        BY <2>4, <3>1
    <2>8. /\ x \in ProcessTypes /\ x.table = proc[p].table /\ x.count = proc[p].count
          /\ x.state = "reading" /\ x.pwd = proc[p].pwd /\ x.blocked.fd = d
      <3>1. proc[p] \in ProcessTypes
        BY <2>1
      <3> QED
        BY <2>5, <2>7, <3>1 DEF ProcessTypes
    <2>9. f = proc[p].table[d]
      BY <1>1 DEF Entry
    <2>10. PICK qs : qs = [proc EXCEPT ![p] = x]
      OBVIOUS
    <2>11. Fits(fs, qs, file, pipe)
      BY <1>2, <1>3, <2>1, <2>3, <2>8, <2>9, <2>10, ReaderBlocked, ZenonT(60)
    <2> QED
      BY <2>1, <2>6, <2>10, <2>11 DEF FilesInv
  <1> QED
    BY <1>4, <1>5

\* A read keeps the invariant.
LEMMA ReadStep ==
  ASSUME FilesInv, Rules = AllRules, NEW p \in Pids, NEW d \in Fds,
         NEW n \in 1 .. MaxTransfer, sys_read(p, d, n)
  PROVE  FilesInv'
  <1>1. Uses(p, d) /\ Lives(p, d) /\ n \in Nat
    BY DescriptorUsed, ConstantTypes DEF sys_read
  <1>2. ReadFile(p, d, n) \/ ReadPipe(p, d, n)
    BY <1>1 DEF sys_read
  <1> QED
    BY <1>1, <1>2, ReadFileStep, ReadPipeStep

\* The end of a read that blocked keeps it.
LEMMA ResumeStep ==
  ASSUME FilesInv, NEW p \in Pids, ResumeRead(p)
  PROVE  FilesInv'
  <1>1. proc[p].state = "reading" /\ Alive(p) /\ Readers(proc, file)
        /\ proc \in [Pids -> ProcessTypes]
    BY InvSplits DEF ResumeRead, Alive
  <1>2. PICK d : d = proc[p].blocked.fd
    OBVIOUS
  <1>3. PICK f : f = proc[p].table[d]
    OBVIOUS
  <1>4. /\ d \in Fds /\ d < proc[p].count
        /\ f \in FileIds /\ file[f].kind = "read end" /\ file[f].pos = 0
        /\ \A q \in Pids : q # p /\ proc[q].state = "reading" =>
             proc[q].table[proc[q].blocked.fd] # f
    BY <1>1, <1>2, <1>3 DEF Readers, WaitFits
  <1>5. PICK n \in Nat : n = proc[p].blocked.count
    <2>1. proc[p] \in ProcessTypes
      BY <1>1
    <2>2. proc[p].blocked.count \in 0 .. MaxTransfer
      BY <2>1 DEF ProcessTypes
    <2> QED
      BY <2>2, ConstantTypes
  <1>6. proc[p].blocked.offset = 0
    <2>1. proc[p] \in ProcessTypes
      BY <1>1
    <2> QED
      BY <2>1 DEF ProcessTypes
  <1>7. pipe_read(p, d, n, file[f].pos)
    BY <1>2, <1>4, <1>5, <1>6 DEF ResumeRead
  <1>8. f = Entry(p, d) /\ MayTake(file[f].pos, n, pipe[PipeOf(file[f])].size)
    BY <1>3, <1>4 DEF Entry, MayTake
  <1> QED
    BY <1>1, <1>4, <1>7, <1>8, PipeRead, ZenonT(60)

-----------------------------------------------------------------------------
(* Writing, seeking, listing                                               *)

\* A write to a file keeps the invariant.
LEMMA WriteFileStep ==
  ASSUME FilesInv, Rules = AllRules, NEW p \in Pids, NEW d \in Fds, Uses(p, d), NEW n \in Nat,
         WriteFile(p, d, n)
  PROVE  FilesInv'
  <1>1. PICK f \in FileIds : f = Entry(p, d) /\ FileOf(p, d) = file[f]
    BY DescriptorUsed
  <1>2. /\ file[f].kind = "reg" /\ RefFits(fs, file, f) /\ Tree(fs)
        /\ Fits(fs, proc, file, pipe) /\ correct = TRUE /\ damage = "none"
        /\ file[f] \in FileTypes /\ file[f].pos \in Nat /\ file \in [FileIds -> FileTypes]
    BY <1>1, DescriptorUsed, InvSplits DEF WriteFile, Is
  <1>3. PICK i \in Inodes : i = file[f].ref
    BY <1>2 DEF RefFits
  <1>4. PICK at \in Nat : at = file[f].pos
    BY <1>2
  <1>5. PICK pos \in Nat : pos = at + n
    OBVIOUS
  <1>6. /\ fs[i].size + n <= MaxSize /\ at = fs[i].size /\ pos <= MaxSize
        /\ fs' = ramfs_write(fs, i, Run(at, n), at)
        /\ file' = [file EXCEPT ![f].pos = @ + n]
        /\ UNCHANGED <<proc, pipe, correct, damage>>
    BY <1>1, <1>3, <1>4, <1>5 DEF WriteFile, Keeps, AllRules
  <1>7. PICK u : u = ramfs_write(fs, i, Run(fs[i].size, n), fs[i].size)
    OBVIOUS
  <1>8. Tree(u) /\ \A j \in Inodes : u[j].kind = fs[j].kind
    BY <1>2, <1>6, <1>7, WriteKeeps
  <1>9. Fits(u, proc, file, pipe)
    BY <1>2, <1>8, KindsKept
  <1>10. pos \in 0 .. MaxSize + MaxSent + MaxInode
    BY <1>6, PositionTypes
  <1>11. Fits(u, proc, Moves(file, f, pos), pipe)
    BY <1>2, <1>6, <1>9, <1>10, ReferenceMoves
  <1>12. file' = Moves(file, f, pos)
    BY <1>2, <1>4, <1>5, <1>6 DEF Moves
  <1>13. fs' = u
    BY <1>6, <1>7
  <1> QED
    BY <1>2, <1>6, <1>11, <1>12, <1>13 DEF FilesInv

\* What is written to a pipe is behind what was.
Appended(y, n, offset) ==
  [y EXCEPT
     !.bytes = [j \in DOMAIN @ |->
                  IF j - offset \in 0 .. n - 1 THEN y.sent + j - offset ELSE @[j]],
     !.size = IF offset + n > @ THEN offset + n ELSE @,
     !.write_offset = offset + n, !.sent = @ + n]
\* A pipe after a write at its end.
LEMMA PipeWritten ==
  ASSUME NEW y \in PipeTypes, PipeFits(y), NEW n \in Nat, NEW at \in Nat, at = y.sent,
         NEW pos \in Nat, pos = at + n, pos <= MaxSent, NEW z, z = Appended(y, n, at)
  PROVE  z \in PipeTypes /\ PipeFits(z) /\ z.owner = y.owner /\ z.sent = pos /\ z.taken = y.taken
  <1> DEFINE cells == 0 .. MaxSent - 1
  <1>1. /\ y.bytes \in [cells -> cells \cup {Nothing}] /\ y.size = at /\ y.taken <= at
        /\ y.taken \in Nat /\ Filled(y.bytes, at)
    <2>1. y.size = at /\ y.taken <= at /\ Filled(y.bytes, at)
      BY DEF PipeFits, Filled
    <2> QED
      BY <2>1 DEF PipeTypes
  <1>2. PICK bytes : bytes = [j \in cells |-> IF j - at \in 0 .. n - 1 THEN at + j - at
                                              ELSE y.bytes[j]]
    OBVIOUS
  <1>3. bytes \in [cells -> cells \cup {Nothing}]
    <2>1. ASSUME NEW j \in cells
          PROVE  bytes[j] \in cells \cup {Nothing}
      <3>1. CASE j - at \in 0 .. n - 1
        <4>1. at + j - at = j
          OBVIOUS
        <4> QED
          BY <1>2, <3>1, <4>1
      <3>2. CASE ~(j - at \in 0 .. n - 1)
        BY <1>1, <1>2, <3>2
      <3> QED
        BY <3>1, <3>2
    <2> QED
      BY <1>2, <2>1
  <1>4. Filled(bytes, pos)
    <2>1. ASSUME NEW j \in 0 .. pos - 1
          PROVE  bytes[j] = j
      <3>1. j \in cells
        BY ConstantTypes
      <3>2. CASE j < at
        <4>1. j \in 0 .. at - 1 /\ ~(j - at \in 0 .. n - 1)
          BY <3>2
        <4> QED
          BY <1>1, <1>2, <3>1, <4>1 DEF Filled
      <3>3. CASE j >= at
        <4>1. j - at \in 0 .. n - 1 /\ at + j - at = j
          BY <3>3
        <4> QED
          BY <1>2, <3>1, <4>1
      <3> QED
        BY <3>2, <3>3
    <2> QED
      BY <2>1 DEF Filled
  <1> HIDE DEF cells
  <1>5. z = [y EXCEPT !.bytes = bytes, !.size = pos, !.write_offset = pos, !.sent = pos]
    <2>1. DOMAIN y.bytes = cells
      BY <1>1
    <2>2. (IF at + n > at THEN at + n ELSE at) = pos
      OBVIOUS
    <2>3. y.sent = at /\ y.size = at /\ at + n = pos
      BY <1>1
    <2> QED
      BY <1>2, <2>1, <2>2, <2>3 DEF Appended, PipeTypes
  <1>6. pos \in 0 .. MaxSent /\ y.taken <= pos
    <2>1. PICK taken \in Nat : taken = y.taken /\ taken <= at
      BY <1>1
    <2> QED
      BY <2>1, ConstantTypes
  <1>7. /\ z \in PipeTypes /\ z.owner = y.owner /\ z.sent = pos /\ z.taken = y.taken
        /\ z.size = pos /\ z.write_offset = pos /\ z.bytes = bytes
    BY <1>3, <1>5, <1>6 DEF PipeTypes, cells
  <1>8. PipeFits(z)
    BY <1>4, <1>6, <1>7 DEF PipeFits, Filled
  <1> QED
    BY <1>7, <1>8

\* A write to a pipe keeps the invariant.
LEMMA WritePipeStep ==
  ASSUME FilesInv, NEW p \in Pids, NEW d \in Fds, Uses(p, d), NEW n \in Nat,
         WritePipe(p, d, n)
  PROVE  FilesInv'
  <1>1. PICK f \in FileIds : f = Entry(p, d) /\ FileOf(p, d) = file[f]
    BY DescriptorUsed
  <1>2. /\ file[f].kind = "write end" /\ IsEnd(file[f])
        /\ Fits(fs, proc, file, pipe) /\ correct = TRUE /\ damage = "none"
        /\ file \in [FileIds -> FileTypes] /\ PipesFit(file, pipe)
        /\ pipe \in [Pipes -> PipeTypes] /\ Readers(proc, file)
        /\ file[f].pos \in Nat
    BY <1>1, DescriptorUsed, InvSplits DEF WritePipe, Is, IsEnd
  <1>3. PICK k \in Pipes : PipeOf(file[f]) = k /\ file[f].ref = PipeRef(k)
                           /\ file[f].pos = pipe[k].sent
    BY <1>2, PipeBehind
  <1>4. PICK at \in Nat : at = file[f].pos
    BY <1>2
  <1>5. PICK pos \in Nat : pos = at + n
    OBVIOUS
  <1>6. PICK y \in PipeTypes : y = pipe[k] /\ PipeFits(y)
    BY <1>2 DEF PipesFit
  <1>7. PICK z : z = Appended(y, n, at)
    OBVIOUS
  <1>8. /\ pos <= MaxSent /\ pipe' = [pipe EXCEPT ![k] = pipe_write(k, n, at)]
        /\ file' = [file EXCEPT ![f].pos = @ + n]
        /\ UNCHANGED <<fs, proc, correct, damage>>
    BY <1>1, <1>3, <1>4, <1>5 DEF WritePipe
  <1>9. pipe_write(k, n, at) = z
    BY <1>6, <1>7 DEF pipe_write, Appended
  <1>10. at = y.sent
    BY <1>3, <1>4, <1>6
  <1>11. z \in PipeTypes /\ PipeFits(z) /\ z.owner = y.owner /\ z.sent = pos /\ z.taken = y.taken
    BY <1>5, <1>6, <1>7, <1>8, <1>10, PipeWritten
  <1>12. pos \in 0 .. MaxSize + MaxSent + MaxInode
    BY <1>8, PositionTypes
  <1>13. \A q \in Pids : proc[q].state = "reading" => proc[q].table[proc[q].blocked.fd] # f
    BY <1>2, Awaited
  <1>14. PICK us : us = [pipe EXCEPT ![k] = z]
    OBVIOUS
  <1>15. Fits(fs, proc, Moves(file, f, pos), us)
    BY <1>2, <1>3, <1>6, <1>11, <1>12, <1>13, <1>14, EndMoves
  <1>16. file' = Moves(file, f, pos)
    BY <1>2, <1>4, <1>5, <1>8 DEF Moves
  <1> QED
    BY <1>2, <1>8, <1>9, <1>14, <1>15, <1>16 DEF FilesInv

\* A write keeps the invariant.
LEMMA WriteStep ==
  ASSUME FilesInv, Rules = AllRules, NEW p \in Pids, NEW d \in Fds,
         NEW n \in 1 .. MaxTransfer, sys_write(p, d, n)
  PROVE  FilesInv'
  <1>1. Uses(p, d) /\ Lives(p, d) /\ n \in Nat
    BY DescriptorUsed, ConstantTypes DEF sys_write
  <1>2. WriteFile(p, d, n) \/ WritePipe(p, d, n)
    BY <1>1 DEF sys_write
  <1> QED
    BY <1>1, <1>2, WriteFileStep, WritePipeStep

\* A seek keeps the invariant.
LEMMA SeekStep ==
  ASSUME FilesInv, NEW p \in Pids, NEW d \in Fds, NEW whence, sys_lseek(p, d, whence)
  PROVE  FilesInv'
  <1>1. Uses(p, d) /\ Lives(p, d)
    BY DescriptorUsed DEF sys_lseek
  <1>2. PICK f \in FileIds : f = Entry(p, d) /\ FileOf(p, d) = file[f]
    BY <1>1, DescriptorUsed
  <1>3. /\ file[f].kind = "reg" /\ RefFits(fs, file, f) /\ Tree(fs)
        /\ Fits(fs, proc, file, pipe) /\ correct = TRUE /\ damage = "none"
        /\ file \in [FileIds -> FileTypes]
    BY <1>1, <1>2, InvSplits DEF sys_lseek, Is
  <1>4. PICK i \in Inodes : i = file[f].ref
    BY <1>3 DEF RefFits
  <1>5. PICK size \in Nat : size = fs[i].size /\ size <= MaxSize
    BY <1>3, InodeFields
  <1>6. PICK pos \in Nat : /\ pos = (IF whence = "SEEK_SET" THEN 0 ELSE size)
                           /\ pos <= MaxSize
    BY <1>5, ConstantTypes
  <1>7. file' = Moves(file, f, pos) /\ UNCHANGED <<fs, proc, pipe, correct, damage>>
    BY <1>1, <1>2, <1>3, <1>4, <1>5, <1>6 DEF sys_lseek, Moves
  <1>8. pos \in 0 .. MaxSize + MaxSent + MaxInode
    BY <1>6, PositionTypes
  <1>9. Fits(fs, proc, Moves(file, f, pos), pipe)
    BY <1>3, <1>6, <1>8, ReferenceMoves
  <1> QED
    BY <1>3, <1>7, <1>9 DEF FilesInv

\* A directory has room for no more entries than there are inodes.
LEMMA EntriesFit ==
  ASSUME NEW t, Tree(t), NEW dir \in Inodes
  PROVE  Len(t[dir].entries) \in Nat /\ Len(t[dir].entries) <= MaxInode
  <1>1. PICK n \in Nat : n = Len(t[dir].entries) /\ DOMAIN t[dir].entries = 1 .. n
    BY InodeFields
  <1>2. CASE n = 0
    BY <1>1, <1>2, ConstantTypes
  <1>3. CASE n # 0
    <2>1. n \in DOMAIN t[dir].entries
      BY <1>1, <1>3
    <2>2. PICK i \in Inodes : i = t[dir].entries[n].inode
      BY <2>1, InodeFields
    <2>3. n <= i
      BY <2>1, <2>2 DEF Tree, EntryFits
    <2>4. i \in Nat /\ i <= MaxInode
      BY ConstantTypes DEF Inodes
    <2> QED
      BY <1>1, <2>3, <2>4, ConstantTypes
  <1> QED
    BY <1>2, <1>3

\* Listing a directory keeps the invariant.
LEMMA ListStep ==
  ASSUME FilesInv, Rules = AllRules, NEW p \in Pids, NEW d \in Fds,
         NEW n \in 1 .. MaxTransfer, sys_readdir(p, d, n)
  PROVE  FilesInv'
  <1>1. Uses(p, d) /\ Lives(p, d)
    BY DescriptorUsed DEF sys_readdir
  <1>2. PICK f \in FileIds : f = Entry(p, d) /\ FileOf(p, d) = file[f]
    BY <1>1, DescriptorUsed
  <1>3. /\ file[f].kind = "dir" /\ RefFits(fs, file, f) /\ Tree(fs)
        /\ Fits(fs, proc, file, pipe) /\ correct = TRUE /\ damage = "none"
        /\ file \in [FileIds -> FileTypes] /\ file[f].pos = 0
    BY <1>1, <1>2, InvSplits DEF sys_readdir, Is, Keeps, AllRules
  <1>4. PICK i \in Inodes : i = file[f].ref
    BY <1>3 DEF RefFits
  <1>5. PICK entries : entries = fs[i].entries
    OBVIOUS
  <1>6. PICK len \in Nat : len = Len(entries) /\ len <= MaxInode
    BY <1>3, <1>5, EntriesFit
  <1>7. PICK count \in Nat : count = Min({n, len}) /\ count <= len
    <2>1. n \in Nat
      BY ConstantTypes
    <2> QED
      BY <2>1, MinOfTwo
  <1>8. /\ ~(file[f].pos + count > Len(entries))
        /\ file[f].pos + count = count
    BY <1>3, <1>6, <1>7
  <1>9. file' = [file EXCEPT ![f].pos = @ + count] /\ UNCHANGED <<fs, proc, pipe, correct, damage>>
    BY <1>1, <1>2, <1>4, <1>5, <1>6, <1>7, <1>8 DEF sys_readdir
  <1>10. file' = Moves(file, f, count)
    BY <1>3, <1>8, <1>9 DEF Moves
  <1>11. count \in 0 .. MaxSize + MaxSent + MaxInode
    <2>1. count <= MaxInode
      BY <1>6, <1>7, ConstantTypes
    <2> QED
      BY <2>1, PositionTypes
  <1>12. Fits(fs, proc, Moves(file, f, count), pipe)
    BY <1>3, <1>11, ReferenceMoves
  <1> QED
    BY <1>3, <1>9, <1>10, <1>12 DEF FilesInv

-----------------------------------------------------------------------------
(* Names                                                                   *)

\* A change of the working directory keeps it.
LEMMA ChangeDirectoryStep ==
  ASSUME FilesInv, Rules = AllRules, NEW p \in Pids, NEW path \in Paths, sys_chdir(p, path)
  PROVE  FilesInv'
  <1>1. /\ Alive(p) /\ proc[p].state = "running"
    BY DEF sys_chdir, Calls, Alive
  <1>2. /\ Living(proc, p) /\ proc[p].pwd \in Directories(fs) /\ Tree(fs)
        /\ Fits(fs, proc, file, pipe) /\ correct = TRUE /\ damage = "none"
        /\ proc \in [Pids -> ProcessTypes]
    BY <1>1, CallerIs, InvSplits
  <1>3. PICK whole : whole = [path EXCEPT !.dirs = Append(@, path.name)]
    OBVIOUS
  <1>4. Len(whole.dirs) \in Nat
    <2>1. path \in [absolute : BOOLEAN, dirs : Seq(Names), name : Names]
      BY FilesAssumption
    <2>2. whole.dirs = Append(path.dirs, path.name)
      BY <1>3, <2>1
    <2>3. whole.dirs \in Seq(Names)
      BY <2>1, <2>2
    <2> QED
      BY <2>3
  <1>5. PICK to : to = get_parent_directory(fs, proc[p].pwd, whole)
    OBVIOUS
  <1>6. to \in Ends(fs)
    BY <1>2, <1>4, <1>5, WalkLeads
  <1>7. /\ to \in Inodes /\ proc' = [proc EXCEPT ![p].pwd = to]
        /\ UNCHANGED <<fs, file, pipe, correct, damage>>
    BY <1>3, <1>5 DEF sys_chdir, Keeps, AllRules
  <1>8. to \in Directories(fs)
    BY <1>6, <1>7, InodeNumbers DEF Ends
  <1>9. PICK x : x = [proc[p] EXCEPT !.pwd = to]
    OBVIOUS
  <1>10. proc' = [proc EXCEPT ![p] = x]
    BY <1>2, <1>7, <1>9
  <1>11. /\ x \in ProcessTypes /\ x.table = proc[p].table /\ x.count = proc[p].count
         /\ x.state = "running" /\ x.pwd = to
    <2>1. proc[p] \in ProcessTypes
      BY <1>2
    <2> QED
      BY <1>1, <1>7, <1>9, <2>1 DEF ProcessTypes
  <1>12. PICK qs : qs = [proc EXCEPT ![p] = x]
    OBVIOUS
  <1>13. Fits(fs, qs, file, pipe)
    BY <1>2, <1>8, <1>11, <1>12, ProcessChange
  <1> QED
    BY <1>2, <1>7, <1>10, <1>12, <1>13 DEF FilesInv

\* An unlink keeps it.
LEMMA UnlinkStep ==
  ASSUME FilesInv, Rules = AllRules, NEW p \in Pids, NEW path \in Paths, sys_unlink(p, path)
  PROVE  FilesInv'
  <1>1. /\ Alive(p) /\ path.name # ".."
    BY DEF sys_unlink, Calls, Alive
  <1>2. /\ proc[p].pwd \in Directories(fs) /\ Tree(fs)
        /\ Fits(fs, proc, file, pipe) /\ correct = TRUE /\ damage = "none"
    BY <1>1, CallerIs, InvSplits
  <1>3. Len(path.dirs) \in Nat
    <2>1. path.dirs \in Seq(Names)
      BY FilesAssumption
    <2> QED
      BY <2>1
  <1>4. PICK parent : parent = get_parent_directory(fs, proc[p].pwd, path)
    OBVIOUS
  <1>5. parent \in Ends(fs)
    BY <1>2, <1>3, <1>4, WalkLeads
  <1>6. PICK i : i = get_file(fs, proc[p].pwd, parent, path.name)
    OBVIOUS
  <1>7. /\ i # Fault /\ i # Null
        /\ OnlyTree(ramfs_unlink(fs, parent, i))
        /\ i \in Inodes =>
             /\ Last(fs[parent].entries).inode = i /\ ~IsOpen(i)
             /\ fs[i].entries = <<>>
             /\ \A q \in Pids : Alive(q) => proc[q].pwd # i
    BY <1>4, <1>6 DEF sys_unlink, Keeps, AllRules
  <1>8. /\ i \in Inodes /\ fs[i].kind \in {"reg", "dir"} /\ i # Root
        /\ parent \in Directories(fs) /\ fs[i].parent = parent
    BY <1>1, <1>2, <1>5, <1>6, <1>7, FileFound
  <1>9. PICK u : u = ramfs_unlink(fs, parent, i)
    OBVIOUS
  <1>10. Tree(u) /\ \A j \in Inodes : j # i => u[j].kind = fs[j].kind
    BY <1>2, <1>7, <1>8, <1>9, UnlinkKeeps
  <1>11. \A f \in FileIds : file[f].kind \in {"reg", "dir"} =>
           u[file[f].ref].kind = fs[file[f].ref].kind
    <2>1. \A f \in FileIds : file[f].kind \in {"reg", "dir"} =>
            file[f].ref \in Inodes /\ file[f].ref # i
      BY <1>2, <1>7, <1>8 DEF Fits, RefFits, IsOpen
    <2> QED
      BY <1>10, <2>1
  <1>12. \A q \in Pids : Living(proc, q) => u[proc[q].pwd].kind = fs[proc[q].pwd].kind
    <2>1. \A q \in Pids : Living(proc, q) => proc[q].pwd \in Inodes /\ proc[q].pwd # i
      BY <1>2, <1>7, <1>8, LivingIsAlive DEF Fits, Places, Directories
    <2> QED
      BY <1>10, <2>1
  <1>13. Fits(u, proc, file, pipe)
    BY <1>2, <1>10, <1>11, <1>12, TreeChange
  <1> QED
    BY <1>2, <1>7, <1>9, <1>13 DEF OnlyTree, FilesInv

-----------------------------------------------------------------------------
(* The theorems                                                            *)

\* The tree that is mounted is one.
LEMMA MountedTree ==
  Tree(ramfs_mount)
  <1> DEFINE t == ramfs_mount
  <1>1. Fresh \in InodeTypes /\ Fresh.kind = "unborn" /\ Fresh.size = 0 /\ Fresh.entries = <<>>
        /\ Fresh.parent = Null
    <2>1. 0 \in 0 .. MaxSize
      BY ConstantTypes
    <2>2. <<>> \in Seq([name : Names, inode : Inodes])
      OBVIOUS
    <2> QED
      BY <2>1, <2>2 DEF Fresh, InodeTypes
  <1>2. PICK root : root = [Fresh EXCEPT !.kind = "dir"]
    OBVIOUS
  <1>3. /\ root \in InodeTypes /\ root.kind = "dir" /\ root.parent = Null
        /\ root.size = 0 /\ root.entries = <<>>
    BY <1>1, <1>2 DEF InodeTypes
  <1>4. t = [i \in Inodes |-> IF i = Root THEN root ELSE Fresh]
    BY <1>2 DEF ramfs_mount
  <1> HIDE DEF t
  <1>5. t \in [Inodes -> InodeTypes]
    BY <1>1, <1>3, <1>4
  <1>6. /\ t[Root] = root /\ \A i \in Inodes : i # Root => t[i] = Fresh
    BY <1>4, InodeNumbers
  <1>7. \A i \in Inodes : t[i].size = 0 /\ t[i].entries = <<>>
    BY <1>1, <1>3, <1>4
  <1>8. \A i, j \in Inodes : i < j /\ t[i].kind = "unborn" => t[j].kind = "unborn"
    <2>1. ASSUME NEW i \in Inodes, NEW j \in Inodes, i < j
          PROVE  t[j].kind = "unborn"
      <3>1. j # Root
        BY <2>1 DEF Inodes, Root
      <3> QED
        BY <1>1, <1>6, <3>1
    <2> QED
      BY <2>1
  <1>9. \A dir \in Inodes : \A k \in DOMAIN t[dir].entries : EntryFits(t, dir, k)
    <2>1. \A dir \in Inodes : DOMAIN t[dir].entries = {}
      BY <1>7
    <2> QED
      BY <2>1
  <1>10. \A i \in Inodes : t[i].kind \in {"reg", "dir"} /\ i # Root => Listed(t, i)
    BY <1>1, <1>6
  <1>11. \A i \in Inodes : \A k \in 0 .. t[i].size - 1 : t[i].bytes[k] = k
    <2>1. \A k \in 0 .. 0 - 1 : FALSE
      OBVIOUS
    <2> QED
      BY <1>7, <2>1
  <1>12. t[Root].kind = "dir" /\ t[Root].parent = Null
    BY <1>3, <1>6
  <1>13. Tree(t)
    BY <1>5, <1>8, <1>9, <1>10, <1>11, <1>12 DEF Tree
  <1> QED
    BY <1>13 DEF t

\* The invariant holds at first.
LEMMA InitHolds ==
  ASSUME Init
  PROVE  FilesInv
  <1> DEFINE first == [d \in Fds |-> IF d \in Stdio THEN d ELSE None]
  <1>1. NoProcess \in ProcessTypes /\ NoProcess.state = "none" /\ NoProcess.table = EmptyTable
        /\ NoProcess.pwd = Root
    <2>1. 0 \in 0 .. MAX_OPEN_FILE_DESCRIPTORS
      BY ConstantTypes
    <2>2. EmptyTable \in [Fds -> FileIds \cup {None, Stale}]
      BY DEF EmptyTable
    <2> QED
      BY <2>1, <2>2, InodeNumbers, NotBlockedTypes DEF NoProcess, ProcessTypes, EmptyTable
  <1>2. PICK x : x = [NoProcess EXCEPT !.state = "running", !.count = 3, !.table = first]
    OBVIOUS
  <1>3. /\ x \in ProcessTypes /\ x.state = "running" /\ x.count = 3 /\ x.table = first
        /\ x.pwd = Root
    <2>1. 3 \in 0 .. MAX_OPEN_FILE_DESCRIPTORS
      BY ConstantTypes
    <2>2. first \in [Fds -> FileIds \cup {None, Stale}]
      BY Descriptors
    <2> QED
      BY <1>1, <1>2, <2>1, <2>2 DEF ProcessTypes
  <1>4. proc = [p \in Pids |-> IF p # 1 THEN NoProcess ELSE x]
    BY <1>2 DEF Init
  <1>5. /\ proc \in [Pids -> ProcessTypes]
        /\ \A p \in Pids : IF p # 1 THEN proc[p] = NoProcess ELSE proc[p] = x
    BY <1>1, <1>3, <1>4
  <1>6. \A p \in Pids : Living(proc, p) <=> p = 1
    BY <1>1, <1>3, <1>5 DEF Living
  <1>7. file = [f \in FileIds |-> IF f \in Stdio THEN NewFile("tty", Null, 0) ELSE NoFile]
    BY DEF Init, setup_init_stdio
  <1>8. /\ NewFile("tty", Null, 0) \in FileTypes /\ NoFile \in FileTypes
        /\ NewFile("tty", Null, 0).kind = "tty" /\ NoFile.kind = "free"
    <2>1. 0 \in 0 .. MaxSize + MaxSent + MaxInode /\ Null \in Refs
      BY ConstantTypes, PipeNumbers
    <2> QED
      BY <2>1 DEF NewFile, NoFile, FileTypes
  <1>9. \A f \in FileIds : IF f \in Stdio THEN file[f] = NewFile("tty", Null, 0)
                           ELSE file[f] = NoFile
    BY <1>7
  <1>10. \A f \in FileIds : file[f].kind \in {"free", "tty"}
    BY <1>8, <1>9
  <1>11. Tables(proc, file)
    <2>1. file \in [FileIds -> FileTypes]
      BY <1>7, <1>8
    <2>2. ASSUME NEW p \in Pids, Living(proc, p)
          PROVE  TableFits(proc, file, p)
      <3>1. proc[p].count = 3 /\ proc[p].table = first
        BY <1>3, <1>5, <1>6, <2>2
      <3>2. \A d \in Fds : d < 3 <=> d \in Stdio
        BY Descriptors
      <3>3. \A d \in Fds : IF d \in Stdio THEN first[d] = d ELSE first[d] = None
        OBVIOUS
      <3> HIDE DEF first
      <3>4. \A d \in Fds : d >= 3 => first[d] = None
        <4>1. \A d \in Fds : d >= 3 => ~(d < 3)
          BY Descriptors
        <4> QED
          BY <3>2, <3>3, <4>1
      <3>5. \A d \in Fds : d < 3 => first[d] \in FileIds /\ file[first[d]].kind # "free"
        BY <1>8, <1>9, <3>2, <3>3, Descriptors
      <3>6. \A d \in Fds : d < 3 => \A c \in Fds : first[c] = first[d] => c = d
        BY <3>2, <3>3, Descriptors
      <3>7. 3 >= 3
        OBVIOUS
      <3> QED
        BY <3>1, <3>3, <3>4, <3>5, <3>6, <3>7 DEF TableFits
    <2>3. \A p \in Pids : ~Living(proc, p) => proc[p].table = EmptyTable
      BY <1>1, <1>5, <1>6
    <2>4. \A f \in FileIds : FileFits(proc, file, f)
      BY <1>8, <1>9 DEF FileFits
    <2> QED
      BY <1>5, <2>1, <2>2, <2>3, <2>4 DEF Tables
  <1>12. \A f \in FileIds : RefFits(fs, file, f)
    BY <1>10 DEF RefFits
  <1>13. PipesFit(file, pipe)
    <2>1. 0 \in 0 .. MaxSent
      BY ConstantTypes
    <2>2. NoPipe \in PipeTypes /\ PipeFits(NoPipe)
      <3>1. NoPipe \in PipeTypes
        BY <2>1 DEF NoPipe, PipeTypes
      <3>2. \A j \in 0 .. 0 - 1 : FALSE
        OBVIOUS
      <3> QED
        BY <3>1, <3>2 DEF NoPipe, PipeFits
    <2>3. pipe = [k \in Pipes |-> NoPipe]
      BY DEF Init
    <2>4. \A f \in FileIds : EndFits(file, pipe, f)
      BY <1>10 DEF EndFits, IsEnd
    <2> QED
      BY <2>2, <2>3, <2>4 DEF PipesFit
  <1>14. Readers(proc, file)
    <2>1. \A p \in Pids : proc[p].state # "reading"
      BY <1>1, <1>3, <1>5
    <2> QED
      BY <2>1 DEF Readers
  <1>15. Tree(fs) /\ fs[Root].kind = "dir"
    BY MountedTree DEF Init, Tree
  <1>16. Places(fs, proc)
    <2>1. ASSUME NEW p \in Pids, Living(proc, p)
          PROVE  proc[p].pwd \in Directories(fs)
      <3>1. proc[p].pwd = Root
        BY <1>3, <1>5, <1>6, <2>1
      <3> QED
        BY <1>15, <3>1, InodeNumbers DEF Directories
    <2> QED
      BY <2>1 DEF Places
  <1>17. correct = TRUE /\ damage = "none"
    BY DEF Init
  <1> QED
    BY <1>11, <1>12, <1>13, <1>14, <1>15, <1>16, <1>17 DEF Fits, FilesInv

\* Every step keeps the invariant.
LEMMA StepKeeps ==
  ASSUME FilesInv, Rules = AllRules, [Next]_vars
  PROVE  FilesInv'
  <1>1. CASE UNCHANGED vars
    BY <1>1 DEF vars, FilesInv
  <1>2. CASE Next
    <2>1. PICK p \in Pids :
            \/ \E path \in Paths, flags \in Flags : sys_open(p, path, flags)
            \/ \E d \in Fds : sys_close(p, d)
            \/ fill_process_and_spawn(p)
            \/ sys_kill(p)
            \/ sys_pipe(p)
            \/ ResumeRead(p)
            \/ \E d \in Fds, n \in 1 .. MaxTransfer : sys_read(p, d, n)
            \/ \E d \in Fds, n \in 1 .. MaxTransfer : sys_write(p, d, n)
            \/ \E d \in Fds, whence \in {"SEEK_SET", "SEEK_END"} : sys_lseek(p, d, whence)
            \/ \E d \in Fds, n \in 1 .. MaxTransfer : sys_readdir(p, d, n)
            \/ \E path \in Paths : p \in Shells /\ sys_chdir(p, path)
            \/ \E path \in Paths : sys_unlink(p, path)
      BY <1>2 DEF Next
    <2>2. CASE \E path \in Paths, flags \in Flags : sys_open(p, path, flags)
      BY <2>2, OpenStep
    <2>3. CASE \E d \in Fds : sys_close(p, d)
      BY <2>3, CloseStep
    <2>4. CASE fill_process_and_spawn(p)
      BY <2>4, SpawnStep
    <2>5. CASE sys_kill(p)
      BY <2>5, KillStep
    <2>6. CASE sys_pipe(p)
      BY <2>6, PipeStep
    <2>7. CASE ResumeRead(p)
      BY <2>7, ResumeStep
    <2>8. CASE \E d \in Fds, n \in 1 .. MaxTransfer : sys_read(p, d, n)
      BY <2>8, ReadStep
    <2>9. CASE \E d \in Fds, n \in 1 .. MaxTransfer : sys_write(p, d, n)
      BY <2>9, WriteStep
    <2>10. CASE \E d \in Fds, whence \in {"SEEK_SET", "SEEK_END"} : sys_lseek(p, d, whence)
      BY <2>10, SeekStep
    <2>11. CASE \E d \in Fds, n \in 1 .. MaxTransfer : sys_readdir(p, d, n)
      BY <2>11, ListStep
    <2>12. CASE \E path \in Paths : p \in Shells /\ sys_chdir(p, path)
      BY <2>12, ChangeDirectoryStep
    <2>13. CASE \E path \in Paths : sys_unlink(p, path)
      BY <2>13, UnlinkStep
    <2> QED
      BY <2>1, <2>2, <2>3, <2>4, <2>5, <2>6, <2>7, <2>8, <2>9, <2>10, <2>11, <2>12, <2>13
  <1> QED
    BY <1>1, <1>2

\* The inductive invariant: what file.c, ramfs.c and the pipes of proc.c keep,
\* whatever programs do that keep the rules.
THEOREM FilesInvariance ==
  ASSUME Rules = AllRules
  PROVE  Spec => []FilesInv
  <1>1. Init => FilesInv
    BY InitHolds
  <1>2. FilesInv /\ [Next]_vars => FilesInv'
    BY StepKeeps
  <1> QED
    BY <1>1, <1>2, PTL DEF Spec

\* Every inode, table, File and pipe keeps its type and its bounds.
THEOREM TypeCorrect ==
  ASSUME Rules = AllRules
  PROVE  Spec => []TypeOK
  <1>1. ASSUME FilesInv
        PROVE  TypeOK
    <2>1. /\ fs \in [Inodes -> InodeTypes] /\ proc \in [Pids -> ProcessTypes]
          /\ file \in [FileIds -> FileTypes] /\ damage = "none"
          /\ PipesFit(file, pipe) /\ \A f \in FileIds : RefFits(fs, file, f)
          /\ Tables(proc, file)
      BY <1>1, InvSplits
    <2>2. \A i \in Inodes :
            /\ fs[i].kind \in {"unborn", "reg", "dir", "freed"}
            /\ fs[i].parent \in Inodes \cup {Null} /\ fs[i].size \in 0 .. MaxSize
            /\ fs[i].bytes \in [Positions -> Positions \cup {Nothing}]
            /\ fs[i].entries \in Seq([name : Names, inode : Inodes])
      BY <2>1 DEF InodeTypes
    <2>3. \A p \in Pids :
            /\ proc[p].state \in {"none", "running", "reading", "dead"}
            /\ proc[p].pwd \in Inodes /\ proc[p].count \in 0 .. MAX_OPEN_FILE_DESCRIPTORS
            /\ proc[p].table \in [Fds -> FileIds \cup {None, Stale}]
      BY <2>1 DEF ProcessTypes
    <2>4. \A f \in FileIds : file[f].kind = "reg" => file[f].pos \in 0 .. MaxSize
      <3>1. ASSUME NEW f \in FileIds, file[f].kind = "reg"
            PROVE  file[f].pos \in 0 .. MaxSize
        <4>1. PICK pos \in Nat : pos = file[f].pos /\ pos <= MaxSize
          BY <2>1, <3>1, FileFields DEF RefFits
        <4> QED
          BY <4>1, ConstantTypes
      <3> QED
        BY <3>1
    <2>5. \A k \in Pipes : pipe[k].size \in 0 .. MaxSent /\ pipe[k].taken <= pipe[k].sent
      <3>1. ASSUME NEW k \in Pipes
            PROVE  pipe[k].size \in 0 .. MaxSent /\ pipe[k].taken <= pipe[k].sent
        <4>1. pipe[k] \in PipeTypes /\ pipe[k].taken <= pipe[k].sent
          BY <2>1, PipeFields
        <4> QED
          BY <4>1 DEF PipeTypes
      <3> QED
        BY <3>1
    <2> QED
      BY <2>1, <2>2, <2>3, <2>4, <2>5 DEF TypeOK, FileTypes
  <1> QED
    BY <1>1, FilesInvariance, PTL

\* Whatever is created and unlinked, a directory lists its files and no others,
\* each once (ramfs_create_file, ramfs_unlink).
THEOREM TreeCorrect ==
  ASSUME Rules = AllRules
  PROVE  Spec => []TreeExact
  <1>1. ASSUME FilesInv
        PROVE  TreeExact
    BY <1>1, InvSplits, TreeLists
  <1> QED
    BY <1>1, FilesInvariance, PTL

\* Whatever is opened, shared, closed and ended, the count of a process is the
\* number of its descriptors, and a File is its owner's, once.
THEOREM OwnersCorrect ==
  ASSUME Rules = AllRules
  PROVE  Spec => []FilesAreOwned
  <1>1. ASSUME FilesInv
        PROVE  FilesAreOwned
    <2>1. ASSUME NEW p \in Pids, Alive(p)
          PROVE  proc[p].count = Cardinality(Used(p))
      <3>1. PICK n \in Nat : n = proc[p].count /\ n >= 3 /\ Used(p) = 0 .. n - 1
        BY <1>1, <2>1, CallerIs
      <3>2. Cardinality(0 .. n - 1) = n
        <4>1. Cardinality(0 .. n - 1) = IF 0 > n - 1 THEN 0 ELSE n - 1 - 0 + 1
          BY FS_Interval
        <4> QED
          BY <3>1, <4>1
      <3> QED
        BY <3>1, <3>2
    <2>2. ASSUME NEW f \in FileIds \ Stdio, file[f].kind # "free"
          PROVE  /\ Alive(file[f].owner)
                 /\ Cardinality({d \in Fds : Entry(file[f].owner, d) = f}) = 1
      <3>1. Tables(proc, file) /\ FileFits(proc, file, f)
        BY <1>1, InvSplits DEF Tables
      <3>2. OwnerHas(proc, file, f)
        BY <2>2, <3>1 DEF FileFits
      <3>3. PICK p \in Pids : p = file[f].owner /\ Living(proc, p)
        BY <3>2 DEF OwnerHas
      <3>4. PICK d \in Fds : proc[p].table[d] = f
        BY <3>2, <3>3 DEF OwnerHas
      <3>5. \A c \in Fds : proc[p].table[c] = f => c = d
        <4>1. f # None
          BY Descriptors
        <4> QED
          BY <3>1, <3>3, <3>4, <4>1, InUse
      <3>6. {c \in Fds : Entry(file[f].owner, c) = f} = {d}
        BY <3>3, <3>4, <3>5 DEF Entry
      <3> QED
        BY <3>3, <3>6, FS_Singleton, LivingIsAlive
    <2> QED
      BY <2>1, <2>2 DEF FilesAreOwned
  <1> QED
    BY <1>1, FilesInvariance, PTL

\* No call follows a null entry or a pointer to what was freed or moved, nor
\* copies from beyond a buffer.
THEOREM AccessCorrect ==
  ASSUME Rules = AllRules
  PROVE  Spec => []NoUndefinedAccess
  <1>1. FilesInv => NoUndefinedAccess
    BY DEF FilesInv, NoUndefinedAccess
  <1> QED
    BY <1>1, FilesInvariance, PTL

\* Every read has returned what was written there; of a pipe, each byte once and
\* in order, whichever process of those that share its end reads.
THEOREM DeliveryCorrect ==
  ASSUME Rules = AllRules
  PROVE  Spec => []Delivered
  <1>1. FilesInv => Delivered
    BY DEF FilesInv, Delivered
  <1> QED
    BY <1>1, FilesInvariance, PTL
=============================================================================
