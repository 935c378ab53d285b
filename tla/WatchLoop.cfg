\* Two health clients and interrupted commands, three checks and two commands.
CONSTANTS
  Client = {c1, c2}
  MaxRound = 3
  MaxCmd = 2
SPECIFICATION WatchSpec
INVARIANT AloneIsTold
INVARIANT OwnResult
PROPERTY ClientsEnd
PROPERTY VmCmdEnds
CHECK_DEADLOCK FALSE
