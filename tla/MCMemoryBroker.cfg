SPECIFICATION Spec
CONSTANTS
  e1 = e1
  e2 = e2
  e3 = e3
  e4 = e4
  s1 = s1
  s2 = s2
  Event <- MCEvent3
  Sub <- MCSub1
  Message <- MCMessage
  Size <- MCSize
  QueueDepth = 1
  MaxBytes = 2
  Capacity = 2
  IngressSize = 1
INVARIANTS
  RingIsWindow
  LogServed
PROPERTIES
  BrokerSettles
