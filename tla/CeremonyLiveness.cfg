\* Every run of the clock to the end of retention, with the fairness of FairSpec.
\* A settled registration gets no more requests: the system may stop.
SPECIFICATION FairSpec
CONSTANTS
  Workers = {w1}
  NoOne = NoOne
  MaxAttempts = 1
  MaxTime = 5
  AttemptTTL = 1
  ProjectTTL = 2
  Retention = 4
  HandlerTime = 1
  BackendDrops = FALSE
CHECK_DEADLOCK FALSE
PROPERTIES
  MovedIsReconciled
  UnclaimedIsPurged
