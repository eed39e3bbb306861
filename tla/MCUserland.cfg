\* The shipped programs; the pids are init, LED, gsh and six commands.
CONSTANTS
  max_processes = 4
  MaxPid = 9
  MaxPending = 2
  Catchable = {"SIGTERM"}
  Killable = {0, 1, 2, 3, 4, 5, 6, 7, 8, 9}
  Readers = {3}
  Sessions = {{"LED"}}
SPECIFICATION USpec
INVARIANTS  RoomToSpawn OneShell
PROPERTIES ZombiesAreReaped TypedLineIsRead
