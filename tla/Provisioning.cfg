\* Every request, two operations to wait for, a failure, a lost answer or a
\* crash at every step, and the janitor after the retention period.
SPECIFICATION FairSpec
CONSTANTS
  Operations = {o1, o2}
\* A request whose project is settled is over.
CHECK_DEADLOCK FALSE
INVARIANTS
  TypeOK
  CreatedIsComplete
  PlainFailureIsClean
  ReadyBeforeKey
PROPERTIES
  RowsAreSettled
