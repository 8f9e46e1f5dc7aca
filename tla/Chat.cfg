SPECIFICATION ChatSpec
CONSTANTS
  Clients = {c1, c2, c3, c4}
  Listener = Listener
  Data = {"m"}
  Room = 2
  MaxOpen = 3
  Queue = 1
  MaxUnread = 1
  Capacity = 1
  MaxSaid = 2
INVARIANT EveryoneHearsTheOthers
SYMMETRY Interchangeable
CHECK_DEADLOCK FALSE
