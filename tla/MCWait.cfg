\* The user kills the shell, and init starts another one.
CONSTANTS
  max_processes = 4
  MaxPid = 6
  MaxPending = 2
  Catchable = {"SIGTERM"}
  Killable = {0, 1, 2, 3, 4, 5, 6}
  Readers = {3, 4, 5, 6}
  Sessions = {{"gsh"}}
SPECIFICATION USpec
INVARIANT WaitFindsAChild
CHECK_DEADLOCK FALSE
