SPECIFICATION BusSpec
CONSTANTS
  p1 = p1
  p2 = p2
  s1 = s1
  s2 = s2
  Publisher <- MCPublisher
  Sub <- MCSub
  MaxPublished <- MCMaxPublished
  Message <- BusMessage
  Size <- MCSize
  QueueDepth = 1
  MaxBytes = 3
INVARIANTS
  QueuesSound
PROPERTIES
  StreamEnds
