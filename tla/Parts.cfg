SPECIFICATION PartsSpec
CONSTANTS
  Parts = {"files", "sockets", "encryption", "tables", "echo", "datagrams"}
  Words <- MCWords
  Number <- MCNumber
  Small <- MCSmall
  Files <- MCFiles
  MaxFd = 5
  MaxAddr = 3
  MayNotResolve = TRUE
  Alphabets = {"upper", "lower", "digit"}
  Length <- MCLength
  Shift = 3
  Rest = {"#", "@"}
  Passwords <- MCPasswords
  Names = {"S1", "S2", "end", "NA"}
  Cells = {"1", "2"}
  MaxRows = 2
  Clients = {c1, c2}
  Listener = Listener
  Data = {"a", "b"}
  Room = 1
  MaxOpen = 2
  Queue = 1
  MaxUnread = 3
  Nul = Nul
  Size = 2
  MaxHeard = 2
  EndByte = EndByte
  Bytes = {"a", "b"}
  Hello <- MCHello
  MaxBufLen <- MCMaxBufLen
  MaxBytes = 2
  MaxSent = 2
  MaxWaiting = 2
INVARIANTS
  FilesAreRead
  WorksOrSaysSo
  NothingLeaks
  CanBeReadBack
  TableAsSent
  EchoIsHeard
  TextIsOneDatagram
CHECK_DEADLOCK FALSE
