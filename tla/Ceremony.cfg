\* Two requests at a time, two claim codes, and a clock that reaches every
\* boundary: code, transfer, registration and retention expiry.
SPECIFICATION Spec
CONSTANTS
  Workers = {w1, w2}
  NoOne = NoOne
  MaxAttempts = 2
  MaxTime = 5
  AttemptTTL = 1
  ProjectTTL = 2
  Retention = 4
  HandlerTime = 1
  BackendDrops = FALSE
SYMMETRY Symmetry
\* After the retention period a settled registration gets no more requests.
CHECK_DEADLOCK FALSE
INVARIANTS
  TypeOK
  TeardownBeforeOffer
  PendingIsLatest
  OpenOfferIsLatest
  RedeemsLiveCode
  OfferComesWithCompute
  AcceptedMeansMoved
  ClaimedIsNeverPurged
  TerminalIsComplete
PROPERTIES
  NoCodeAfterMove
  NoHandOutAfterFreeze
