\* No handlers, one victim, and more pids than slots: slots are used again.
CONSTANTS
  max_processes = 3
  MaxPid = 5
  MaxPending = 1
  Catchable = {}
  Killable = {2}
  Readers = {2, 3}
SPECIFICATION Spec
INVARIANTS TypeOK ChildrenAreOurs CountFollowsTable NoLostWakeUp 
PROPERTIES ImplementsProcessLife
CHECK_DEADLOCK FALSE
