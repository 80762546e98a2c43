\* The ceremony implements ClaimPromise, backends dropping included, and each
\* step of a submit finds what the steps before it established.
\* A settled registration gets no more requests: the system may stop.
SPECIFICATION Spec
CONSTANTS
  Workers = {w1, w2}
  NoOne = NoOne
  MaxAttempts = 1
  MaxTime = 5
  AttemptTTL = 1
  ProjectTTL = 2
  Retention = 4
  HandlerTime = 1
  BackendDrops = TRUE
SYMMETRY Symmetry
CHECK_DEADLOCK FALSE
INVARIANTS
  TeardownInv
PROPERTIES
  KeepsPromise
