------------------------------- MODULE Fat16 -------------------------------
(***************************************************************************)
(* Files in the root directory of a FAT16 volume: src/fs/fat16.c, with the *)
(* part of sys_open that reaches it.  The allocation table is seen through *)
(* a cache of one sector; every open makes an inode of its own, which      *)
(* copies the first cluster and the size from the directory entry.         *)
(*                                                                         *)
(* A system call is atomic (nothing here gives up the processor).  A byte  *)
(* of a file is the pair of the entry it was written for and its position, *)
(* so that a byte in a wrong place is seen.  Subdirectories, which the     *)
(* code cannot write, times, attributes and failing transfers are left     *)
(* out.  Programs do not seek beyond the end of a file.                    *)
(***************************************************************************)
EXTENDS Integers, SequencesExt

CONSTANTS
  FAT_SECTOR_CACHE_SIZE, \* entries of one sector of the allocation table
  SectorsPerFat,         \* sectors of the allocation table
  ClusterCount,          \* clusters the boot record announces
  bytes_per_cluster,
  max_root_dentries,
  RootSector,            \* the first sector of the root directory
  CachedAtMount,         \* what FAT_cached_sector may hold after kmalloc
  Names,                 \* the names programs use, sequences of characters
  StemLength,            \* characters of a name before the dot: 8
  ExtensionLength,       \* characters of a name after the dot: 3
  Handles,               \* open files
  UnlinkOpen,            \* whether programs unlink files that are open
  MaxSize,               \* bound of the model: no write beyond it
  MaxWrite               \* bound of the model: bytes of one write

ASSUME Fat16Assumption ==
  /\ FAT_SECTOR_CACHE_SIZE \in Nat \ {0, 1, 2}
  /\ {SectorsPerFat, bytes_per_cluster, max_root_dentries} \subseteq Nat \ {0}
  /\ {RootSector, MaxWrite} \subseteq Nat /\ MaxSize \in Nat \ {0}
  /\ ClusterCount \in
       FAT_SECTOR_CACHE_SIZE .. SectorsPerFat * FAT_SECTOR_CACHE_SIZE
  /\ CachedAtMount \subseteq Nat /\ CachedAtMount # {}
  /\ {StemLength, ExtensionLength} \subseteq Nat \ {0}
  /\ \A name \in Names : name # <<>> /\ name \notin {<<"00">>, <<"e5">>}
  /\ UnlinkOpen \in BOOLEAN

Table == 0 .. SectorsPerFat * FAT_SECTOR_CACHE_SIZE - 1  \* entries of the FAT
Clusters == 2 .. ClusterCount - 1
Dentries == 0 .. max_root_dentries - 1
Slots == 0 .. FAT_SECTOR_CACHE_SIZE - 1

Free == 0                       \* 0x0000 in the table
EndOfChain == 65535             \* 0xffff
IsLast(x) == x >= 65520         \* 0xfff0 and above
Unused == <<"00">>              \* filename[0] = 0x00
Deleted == <<"e5">>             \* filename[0] = 0xe5
Nowhere == [dentry |-> -1, pos |-> 0]   \* a byte no file owns

VARIABLES
  volume,   \* fat: the table on the card; cache, cached: the sector of it in
            \* memory and the number it is taken for
  dir,      \* [Dentries -> directory entry], as on the card
  data,     \* [Clusters -> bytes], as on the card
  inode,    \* [Handles -> the inode behind an open file]
  result,   \* what the last call returned
  damage    \* "none", or the first undefined access

vars == <<volume, dir, data, inode, result, damage>>
Undamaged == damage = "none"

Closed == [open |-> FALSE, dentry |-> 0, first |-> 0, size |-> 0]
Vacant == [name |-> Unused, first |-> 0, size |-> 0]
IsLive(e) == dir[e].name \notin {Unused, Deleted}

-----------------------------------------------------------------------------
(* The allocation table and its cache.  An operator that may load another  *)
(* sector into the cache returns the volume it leaves behind.              *)

SectorOf(c) == c \div FAT_SECTOR_CACHE_SIZE
Loaded(v, s) ==
  [v EXCEPT !.cached = s,
            !.cache = [i \in Slots |-> v.fat[s * FAT_SECTOR_CACHE_SIZE + i]]]
WithCached(v, c) == IF v.cached = SectorOf(c) THEN v ELSE Loaded(v, SectorOf(c))

\* The successor of cluster `at' and the volume after looking it up.
FAT16_find_next_cluster(v, at) ==
  LET w == WithCached(v, at)
  IN  [volume |-> w, at |-> w.cache[at % FAT_SECTOR_CACHE_SIZE]]

\* Mutant: the table on the card is left as it was.
FAT16_mark_cluster_cached(v, c, x) ==
  [WithCached(v, c) EXCEPT !.cache[c % FAT_SECTOR_CACHE_SIZE] = x]

\* The entry is changed in the cache and the whole sector written through.
FAT16_mark_cluster(v, c, x) ==
  LET w == WithCached(v, c)
      cache == [w.cache EXCEPT ![c % FAT_SECTOR_CACHE_SIZE] = x]
  IN  [w EXCEPT !.cache = cache,
                !.fat = [t \in Table |->
                           IF SectorOf(t) = SectorOf(c)
                           THEN cache[t % FAT_SECTOR_CACHE_SIZE]
                           ELSE w.fat[t]]]

\* Mutant: the number of sectors is rounded up.
Searched_beyond == 2 .. SectorsPerFat * FAT_SECTOR_CACHE_SIZE - 1

\* Only whole sectors are searched, from the card, entry 2 first.
Searched == 2 .. (ClusterCount \div FAT_SECTOR_CACHE_SIZE)
                   * FAT_SECTOR_CACHE_SIZE - 1
FAT16_find_next_free_cluster(v) ==
  LET free == {c \in Searched : v.fat[c] = Free}
      found == IF free = {} THEN 0 ELSE Min(free)
      last == IF free = {} THEN Max(Searched) ELSE found
  IN  [volume |-> Loaded(v, SectorOf(last)), at |-> found]

\* What n turns of a loop make of x.
Looped(Turn(_), x, n) ==
  LET after[k \in 0 .. n] == IF k = 0 THEN x ELSE Turn(after[k - 1])
  IN  after[n]

\* `n' steps along a chain from cluster c.
Follow(here) == FAT16_find_next_cluster(here.volume, here.at)
Walk(v, c, n) == Looped(Follow, [volume |-> v, at |-> c], n)

-----------------------------------------------------------------------------
(* Allocation, release and transfer of the clusters of a file.             *)

\* The last cluster of the chain from c and the number of clusters up to it.
Deeper(here) ==
  LET next == Follow(here)
  IN  IF IsLast(next.at) THEN [here EXCEPT !.volume = next.volume]
      ELSE [volume |-> next.volume, at |-> next.at, depth |-> here.depth + 1]
LastOf(v, c) ==
  Looped(Deeper, [volume |-> v, at |-> c, depth |-> 1], ClusterCount)

Linked(v, c, new) ==
  FAT16_mark_cluster(FAT16_mark_cluster(v, c, new), new, EndOfChain)

\* `n' more clusters behind c, or as many as there are.
Longer(here) ==
  LET found == FAT16_find_next_free_cluster(here.volume)
  IN  IF here.full THEN here
      ELSE IF found.at = 0
      THEN [here EXCEPT !.volume = found.volume, !.full = TRUE]
      ELSE [volume |-> Linked(found.volume, here.at, found.at),
            at |-> found.at, full |-> FALSE]
Extended(v, c, n) ==
  Looped(Longer, [volume |-> v, at |-> c, full |-> FALSE], n)

\* A chain for `size' bytes that starts at `first', or at a new cluster when
\* that is 0.  A failure keeps the clusters that were marked before it.
adjust_allocated_clusters(v, first, size) ==
  LET found == FAT16_find_next_free_cluster(v)
      start == IF first # 0 THEN first ELSE found.at
      w == IF first # 0 THEN v
           ELSE IF found.at = 0 THEN found.volume
           ELSE FAT16_mark_cluster(found.volume, found.at, EndOfChain)
      last == LastOf(w, start)
      more == Extended(last.volume, last.at,
                       Max({0, size \div bytes_per_cluster + 1 - last.depth}))
  IN  IF start = 0 THEN [volume |-> w, first |-> 0, rc |-> "EDQUOT"]
      ELSE IF start < 3 THEN [volume |-> w, first |-> start, rc |-> "ENOENT"]
      ELSE [volume |-> more.volume, first |-> start,
            rc |-> IF more.full THEN "EDQUOT" ELSE "ok"]

\* Mutant: the walk stops one cluster early.
ClusterFor_early(v, first, pos) ==
  Walk(v, first, Max({0, pos - 1}) \div bytes_per_cluster).at

\* The cluster that holds byte `pos' of the file that starts at `first'.
ClusterFor(v, first, pos) == Walk(v, first, pos \div bytes_per_cluster).at

FAT16_write_cluster_chain(v, first, e, off, n) ==
  LET written == {[cluster |-> ClusterFor(v, first, p), pos |-> p] :
                    p \in off .. off + n - 1}
      Here(c, i) == {w \in written :
                       w.cluster = c /\ w.pos % bytes_per_cluster = i}
  IN  [c \in Clusters |-> [i \in 0 .. bytes_per_cluster - 1 |->
         IF Here(c, i) = {} THEN data[c][i]
         ELSE [dentry |-> e, pos |-> (CHOOSE w \in Here(c, i) : TRUE).pos]]]

\* The volume after reading n bytes: beyond the first cluster, the loop stops
\* at a number below 3.
ReadOn(here) == IF here.at < 3 \/ IsLast(here.at) THEN here ELSE Follow(here)
FAT16_read_cluster_chain(v, first, off, n) ==
  LET others == (off + n - 1) \div bytes_per_cluster - off \div bytes_per_cluster
  IN  Looped(ReadOn, Follow(Walk(v, first, off \div bytes_per_cluster)), others).volume

\* Mutant: the loop ends before it marks the last cluster.
Release_but_last(here) ==
  LET next == Follow(here)
  IN  IF IsLast(next.at) THEN here
      ELSE [volume |-> FAT16_mark_cluster(next.volume, here.at, Free), at |-> next.at]

\* Every cluster of the chain is marked free.
Release(here) ==
  LET next == Follow(here)
  IN  IF IsLast(here.at) THEN here
      ELSE [volume |-> FAT16_mark_cluster(next.volume, here.at, Free), at |-> next.at]
invalidate_cluster_chain(v, first) ==
  IF first = 0 THEN v
  ELSE Looped(Release, [volume |-> v, at |-> first], ClusterCount).volume

-----------------------------------------------------------------------------
(* The root directory.                                                     *)

\* Up to the dot at most eight characters are kept, behind it three; a name
\* without a dot loses all of them.
Dots(name) == {i \in DOMAIN name : name[i] = "."}
FAT16_encode_entry_name(name) ==
  LET dot == IF Dots(name) = {} THEN 0 ELSE Min(Dots(name))
  IN  [stem |-> SubSeq(name, 1, Min({dot - 1, StemLength})),
       extension |-> IF dot = 0 THEN <<>>
                     ELSE SubSeq(name, dot + 1,
                                 Min({dot + ExtensionLength, Len(name)}))]
FAT16_decode_entry_name(entry) ==
  IF entry.extension = <<>> THEN entry.stem
  ELSE entry.stem \o <<".">> \o entry.extension

\* The name under which a file that is created as `name' is found again.
ShortName(name) == FAT16_decode_entry_name(FAT16_encode_entry_name(name))

\* And that is not the name of a free entry.
ASSUME NamesAssumption == \A name \in Names : ShortName(name) \notin {Unused, Deleted}

Matches(name) == {e \in Dentries : dir[e].name = name}
Ended == \E e \in Dentries : dir[e].name = Unused

\* The walk over the entries ends at an unused one; a full directory without
\* the name has none, and the walk leaves the array.
LookupLeaves(name) == Matches(name) = {} /\ ~Ended

\* The entry is written with the rest of the directory.
NewDentry == {e \in Dentries : ~IsLive(e)}
FAT16_create_file(name) ==
  dir' = [dir EXCEPT ![Min(NewDentry)] =
            [name |-> ShortName(name), first |-> 0, size |-> 0]]

\* Every entry with the name goes; the numbers in it stay.
FAT16_delete_file(name) ==
  LET after[k \in 0 .. max_root_dentries] ==
        IF k = 0 THEN volume
        ELSE IF dir[k - 1].name # name THEN after[k - 1]
        ELSE invalidate_cluster_chain(after[k - 1], dir[k - 1].first)
  IN  /\ volume' = after[max_root_dentries]
      /\ dir' = [e \in Dentries |->
                   IF dir[e].name = name
                   THEN [dir[e] EXCEPT !.name = Deleted] ELSE dir[e]]

-----------------------------------------------------------------------------
(* The system calls.                                                       *)

Opened(h, e, truncate) ==
  inode' = [inode EXCEPT ![h] =
              [open |-> TRUE, dentry |-> e, first |-> dir'[e].first,
               size |-> IF truncate THEN 0 ELSE dir'[e].size]]

sys_open(h, name, create, truncate) ==
  /\ ~inode[h].open
  /\ UNCHANGED <<volume, data>>
  /\ \/ /\ LookupLeaves(name)
        /\ damage' = "overread"
        /\ UNCHANGED <<dir, inode, result>>
     \/ /\ Matches(name) # {}
        /\ UNCHANGED <<dir, damage>>
        /\ Opened(h, Min(Matches(name)), truncate)
        /\ result' = "ok"
     \/ /\ Matches(name) = {} /\ Ended /\ create
        /\ FAT16_create_file(name)
        /\ Opened(h, Min(NewDentry), truncate)
        /\ result' = "ok"
        /\ UNCHANGED damage
     \/ /\ Matches(name) = {} /\ Ended /\ ~create
        /\ result' = "ENOENT"
        /\ UNCHANGED <<dir, inode, damage>>

\* The inode is freed with the file.
sys_close(h) ==
  /\ inode[h].open
  /\ inode' = [inode EXCEPT ![h] = Closed]
  /\ result' = "ok"
  /\ UNCHANGED <<volume, dir, data, damage>>

\* first_cluster and absolute_first_sector are one field: a file whose first
\* cluster has the number of the root directory's sector is taken for it.
IsRoot(h) == inode[h].first = RootSector

OverwriteRoot ==
  /\ damage' = "directory overwritten"
  /\ UNCHANGED <<volume, dir, data, inode, result>>

\* Only a write that succeeds stores the first cluster in the entry.
WriteFile(h, off, n) ==
  LET e == inode[h].dentry
      a == adjust_allocated_clusters(volume, dir[e].first, off + n)
      ok == a.rc = "ok"
      end == IF ok THEN off + n ELSE off
  IN  /\ volume' = IF ok
                   THEN Walk(a.volume, a.first,
                             (off + n - 1) \div bytes_per_cluster).volume
                   ELSE a.volume
      /\ data' = IF ok
                 THEN FAT16_write_cluster_chain(a.volume, a.first, e, off, n)
                 ELSE data
      /\ dir' = [dir EXCEPT ![e].first = IF ok THEN a.first ELSE @,
                            ![e].size = Max({@, end})]
      /\ inode' = [inode EXCEPT ![h].first = a.first, ![h].size = Max({@, end})]
      /\ result' = a.rc
      /\ UNCHANGED damage

FAT16_write(h, off, n) ==
  /\ inode[h].open
  /\ off <= inode[h].size /\ off + n <= MaxSize
  /\ IF IsRoot(h) THEN OverwriteRoot ELSE WriteFile(h, off, n)

FAT16_read(h, off, n) ==
  LET i == inode[h]
  IN  /\ i.open /\ off < i.size
      /\ volume' = IF IsRoot(h) THEN volume
                   ELSE FAT16_read_cluster_chain(volume, i.first, off,
                                                 Min({n, i.size - off}))
      /\ result' = "ok"
      /\ UNCHANGED <<dir, data, inode, damage>>

\* What a byte was written for is forgotten with the file.
Forgotten(name) ==
  data' = [c \in Clusters |-> [i \in DOMAIN data[c] |->
             IF data[c][i].dentry \in Matches(name) THEN Nowhere
             ELSE data[c][i]]]

Unlinkable(name) ==
  /\ Matches(name) # {}
  /\ dir[Min(Matches(name))].first # RootSector

sys_unlink(name) ==
  /\ UnlinkOpen \/ \A h \in Handles :
                     inode[h].open => inode[h].dentry \notin Matches(name)
  /\ UNCHANGED inode
  /\ \/ /\ LookupLeaves(name)
        /\ damage' = "overread"
        /\ UNCHANGED <<volume, dir, data, result>>
     \/ /\ Unlinkable(name)
        /\ FAT16_delete_file(name)
        /\ Forgotten(name)
        /\ result' = "ok"
        /\ UNCHANGED damage
     \/ /\ ~Unlinkable(name) /\ ~LookupLeaves(name)
        /\ result' = "ENOENT"
        /\ UNCHANGED <<volume, dir, data, damage>>

\* The board is reset between two calls, and the card mounted again.
Mounted(fat, cached) ==
  [fat |-> fat, cached |-> cached, cache |-> [i \in Slots |-> fat[i]]]
FAT16_mount ==
  /\ \E cached \in CachedAtMount : volume' = Mounted(volume.fat, cached)
  /\ inode' = [h \in Handles |-> Closed]
  /\ result' = "ok"
  /\ UNCHANGED <<dir, data, damage>>

-----------------------------------------------------------------------------
\* The card is freshly formatted, or holds one file of one cluster, the
\* archive with the programs.
Init ==
  \E archive \in Names \cup {Unused}, cached \in CachedAtMount :
    LET there == archive # Unused
        Bytes == [i \in 0 .. bytes_per_cluster - 1 |-> Nowhere]
    IN  /\ there => ShortName(archive) = archive
        /\ volume = Mounted([t \in Table |->
                               IF t < 2 \/ (t = 2 /\ there) THEN EndOfChain
                               ELSE Free], cached)
        /\ dir = [e \in Dentries |->
                    IF e = 0 /\ there
                    THEN [name |-> archive, first |-> 2, size |-> 1] ELSE Vacant]
        /\ data = [c \in Clusters |->
                     IF c = 2 /\ there
                     THEN [Bytes EXCEPT ![0] = [dentry |-> 0, pos |-> 0]]
                     ELSE Bytes]
        /\ inode = [h \in Handles |-> Closed]
        /\ result = "ok"
        /\ damage = "none"

Call ==
  \/ \E h \in Handles, name \in Names, create, truncate \in BOOLEAN :
       sys_open(h, name, create, truncate)
  \/ \E h \in Handles : sys_close(h)
  \/ \E h \in Handles, off \in 0 .. MaxSize, n \in 1 .. MaxWrite :
       FAT16_write(h, off, n) \/ FAT16_read(h, off, n)
  \/ \E name \in Names : sys_unlink(name)
  \/ FAT16_mount

Next == Undamaged /\ Call

Spec == Init /\ [][Next]_vars

-----------------------------------------------------------------------------
(* Properties.                                                             *)

\* The volume, the directory and the inodes keep their types.
TypeOK ==
  /\ volume.fat \in [Table -> {Free, EndOfChain} \cup Clusters]
  /\ volume.cache \in [Slots -> {Free, EndOfChain} \cup Clusters]
  /\ volume.cached \in 0 .. SectorsPerFat - 1
  /\ dir \in [Dentries -> [name : {ShortName(n) : n \in Names} \cup {Unused, Deleted},
                           first : {0} \cup Clusters, size : 0 .. MaxSize]]
  /\ data \in [Clusters -> [0 .. bytes_per_cluster - 1 ->
                 [dentry : Dentries, pos : 0 .. MaxSize] \cup {Nowhere}]]
  /\ inode \in [Handles -> [open : BOOLEAN, dentry : Dentries,
                            first : {0} \cup Clusters, size : 0 .. MaxSize]]
  /\ result \in {"ok", "ENOENT", "EDQUOT"}
  /\ damage \in {"none", "overread", "directory overwritten"}

\* The n-th cluster of the chain that starts at c, as the card has it, and
\* what ends the chain from there on.
Nth(fat, c, n) ==
  LET next == [t \in Table \cup {EndOfChain} |->
                 IF t \in Clusters THEN fat[t] ELSE t]
      step[k \in 0 .. ClusterCount] ==
        IF k = 0 THEN c ELSE next[step[k - 1]]
  IN  step[n]
ClustersOf(e) ==
  {Nth(volume.fat, dir[e].first, n) : n \in 0 .. ClusterCount} \cap Clusters

\* The chain of every file ends, after clusters that are marked as used, and
\* no two files share a cluster: whatever was written, deleted and written
\* again through whatever sectors of the table were in the cache.
ChainsDisjoint ==
  \A e \in Dentries : IsLive(e) /\ dir[e].first # 0 =>
    /\ Nth(volume.fat, dir[e].first, ClusterCount) = EndOfChain
    /\ \A f \in Dentries \ {e} :
         IsLive(f) => ClustersOf(e) \cap ClustersOf(f) = {}

\* The byte that a read at `pos' finds in the file that starts at `first'.
ByteAt(first, pos) ==
  LET c == Nth(volume.fat, first, pos \div bytes_per_cluster)
  IN  IF c \in Clusters THEN data[c][pos % bytes_per_cluster] ELSE Nowhere

\* Every byte below a file's size is the one that was written there, for a
\* reader who opens the file and for those who have it open, however stale
\* their inodes are: FAT16_read takes the cluster and the size from there.
ReadBack ==
  /\ \A e \in Dentries : IsLive(e) =>
       \A pos \in 0 .. dir[e].size - 1 :
         ByteAt(dir[e].first, pos) = [dentry |-> e, pos |-> pos]
  /\ \A h \in Handles : inode[h].open =>
       \A pos \in 0 .. inode[h].size - 1 :
         /\ ~IsRoot(h)
         /\ ByteAt(inode[h].first, pos) = [dentry |-> inode[h].dentry,
                                           pos |-> pos]

Orphans == {c \in Clusters : volume.fat[c] # Free}
             \ UNION {ClustersOf(e) : e \in {f \in Dentries : IsLive(f)}}

\* A cluster is in use and in no file only after a write that failed: the
\* clusters such a write had marked are lost, deleting a file loses none.
LeaksOnlyOnFailure == [][Orphans' \subseteq Orphans \/ result' # "ok"]_vars
=============================================================================
