CONSTANTS
  p1 = p1
  p2 = p2
  Loop = loop
  Ipc = ipc
  Nobody = nobody
  k1 = k1
  Peers = {p1}
  Keys = {k1}
  Callers = {loop, ipc}
  MaxRevokes = 1
  MaxWrites = 2
  MaxWipes = 1
  MaxRestarts = 1
  StoreMayFail = TRUE
SPECIFICATION Spec
INVARIANT TypeOK
INVARIANT MarkedWasConfirmed
 
PROPERTY ImplementsDelivery
