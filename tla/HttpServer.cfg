SPECIFICATION Spec
CONSTANTS
  Programs <- MCPrograms
  Clients = {c1, c2}
  Sockets = {ws1, ws2}
  Servers = {s1, s2}
  NoConn = NoConn
  NoServer = NoServer
  MaxFrames = 2
  MaxTimers = 1
INVARIANTS
  ServerInv
  HandledInOrder
PROPERTIES
  EveryRequestAnswered
  SocketsAreRead
