SPECIFICATION LoopsSpec
CONSTANTS
  Clients = {c1, c2, c3}
  Chatters = {c1, c2}
  Listener = Listener
  Data = {"m"}
  Room = 2
  MaxOpen = 3
  Queue = 2
  MaxUnread = 1
  Capacity = 1
  MaxSaid = 3
  Callers = {d1, d2, d3}
  Procs = {p1, p2}
  None = None
INVARIANTS
  TableIsSound
  ReportsHold
  BoundedBypass
  NoZombieForgotten
  ErrnoIsAccepts
PROPERTIES
  EveryoneIsServed
  SendLoopEnds
  EveryoneIsAnswered
CHECK_DEADLOCK FALSE
