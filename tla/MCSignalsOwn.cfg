\* Each process reports an event of its own.
SPECIFICATION Spec
CONSTANTS
  w1 = w1
  w2 = w2
  Writers <- MCWriters
  Ids = {1, 2}
  EventOf <- OwnEvents
  Inodes = {1, 2, 3, 4, 5, 6}
  MaxClock = 2
  NoFile = NoFile
INVARIANTS
  TypeOK
  NeverHalfWritten
  FinishedAreSeen
PROPERTIES
  LatestNeverGoesBack
  ImplementsStore
