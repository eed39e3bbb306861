\* init and one child that catches SIGTERM and returns from its handler.
CONSTANTS
  max_processes = 2
  MaxPid = 2
  MaxPending = 1
  Catchable = {"SIGTERM"}
  Killable = {2}
  Readers = {}
SPECIFICATION Spec
INVARIANT RestoresWhatWasSaved
CHECK_DEADLOCK FALSE
