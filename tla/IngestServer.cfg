CONSTANTS
  p = p
  x = x
  Callers = {p}
  Raw = {x}
  Script <- Scripts
  Bursts <- SomeBursts
  Good <- GoodRecords
  MaxBuffer = 3
  max_connections = 1
  require_hello = TRUE
  SocketRoom = 2
  MaxAttempts = 2
SPECIFICATION Spec
INVARIANTS
  ServerInv
  AcknowledgementsTrue
  StoredOnce
  PushIsComplete
PROPERTIES
  EverythingReturns
CHECK_DEADLOCK FALSE
