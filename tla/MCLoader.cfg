CONSTANTS
  Programs <- MCPrograms
  Library <- MCLibrary
  elf_hash <- MCHash
  INITIAL_PROCESS_COUNT = 2
  bufsz = 4
  MaxAddress = 6
  Rules <- MCRules
  MaxSpawns = 4
  MaxMoves = 1
SPECIFICATION Spec
INVARIANTS TypeOK LoadedAsLinked
PROPERTIES LostByFailedSpawnOnly
CHECK_DEADLOCK FALSE
