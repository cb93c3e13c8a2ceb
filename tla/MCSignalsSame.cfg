\* Expected violation: two processes report the same event.
SPECIFICATION Spec
CONSTANTS
  w1 = w1
  w2 = w2
  Writers <- MCWriters
  Ids = {1}
  EventOf <- SameEvent
  Inodes = {1, 2, 3, 4}
  MaxClock = 2
  NoFile = NoFile
INVARIANTS
  NeverHalfWritten
