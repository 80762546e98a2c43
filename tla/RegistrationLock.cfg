\* Three requests for one registration and a pool of two connections: the holder
\* and a waiter use the pool up, and a backend that a destroyed client has left
\* is still there while others wait.
SPECIFICATION FairSpec
CONSTANTS
  Requests = {q1, q2, q3}
  Registrations = {r1}
  Backends = {b1, b2}
  PoolSize = 2
  NoBackend = NoBackend
  NoOne = NoOne
INVARIANTS
  LockInv
PROPERTIES
  WritesAreLocked
  ImplementsLock
  EveryRequestEnds
