SPECIFICATION Spec
CONSTANTS
  Programs <- MCPrograms
  Workers = {w1, w2}
  Main = Main
  Messages = {m1, m2, m3}
  Nulls = {m3}
  Nothing = Nothing
INVARIANTS
  WorkersInv
  OwnIdentity
PROPERTIES
  TerminateReturns
  MessagesArrive
