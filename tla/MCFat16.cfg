\* Three sectors of three entries: the clusters are 2 to 6, the last of them in
\* a sector that is not full.
CONSTANTS
  FAT_SECTOR_CACHE_SIZE = 3
  SectorsPerFat = 3
  ClusterCount = 7
  bytes_per_cluster = 2
  max_root_dentries = 3
  RootSector = 100
  CachedAtMount = {0}
  Names <- MCNames
  StemLength = 1
  ExtensionLength = 1
  Handles = {h1, h2}
  UnlinkOpen = FALSE
  MaxSize = 4
  MaxWrite = 2
SYMMETRY MCSymmetry
SPECIFICATION Spec
INVARIANTS TypeOK ChainsDisjoint ReadBack
PROPERTIES LeaksOnlyOnFailure
CHECK_DEADLOCK FALSE
