\* init and two more processes, which catch SIGTERM and kill one another.
CONSTANTS
  max_processes = 3
  MaxPid = 3
  MaxPending = 1
  Catchable = {"SIGTERM"}
  Killable = {0, 2, 3}
  Readers = {}
SPECIFICATION Spec
INVARIANTS NoLostChildExit RunningOffCpu
PROPERTIES IdlesOnlyWhenIdle ReadyRuns
CHECK_DEADLOCK FALSE
