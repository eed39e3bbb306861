CONSTANTS
  MAX_OPEN_FILE_DESCRIPTORS = 5
  Paths <- MCPaths
  Names <- MCNames
  Rules <- AllRules
  Shells = {1}
  MaxPid = 2
  MaxPipe = 1
  MaxInode = 3
  MaxTransfer = 2
  MaxSize = 1
  MaxSent = 2
SPECIFICATION Spec
INVARIANTS TypeOK TreeExact FilesAreOwned NoUndefinedAccess Delivered
CHECK_DEADLOCK FALSE
