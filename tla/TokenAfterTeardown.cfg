\* The system may stop once the registration is settled.
SPECIFICATION Spec
CONSTANTS
  Workers = {w1, w2}
  NoOne = NoOne
  MaxAttempts = 1
  MaxTime = 2
  AttemptTTL = 1
  ProjectTTL = 2
  Retention = 4
  HandlerTime = 1
  BackendDrops = FALSE
CHECK_DEADLOCK FALSE
INVARIANTS
  NoFullTokenBehindOffer
