SPECIFICATION SemaphoreSpec
CONSTANTS
  Waiters = {w1, w2}
  Posters = {p1, p2}
  NoThread = none
  MaxPosts = 2
INVARIANTS
  TypeOK
  NoLostWakeup
PROPERTIES
  ImplementsAtomic
