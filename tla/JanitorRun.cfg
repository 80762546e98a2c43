\* Two registrations, the older one with a project that always fails, in every pair
\* of states that leave something to revoke; two overlapping runs, one more failure
\* anywhere, and triggers that keep coming.
SPECIFICATION FairSpec
CONSTANTS
  N = 2
  Poison = {1}
  Runs = {p1, p2}
  NoOne = NoOne
  Leftovers <- LiveLeftovers
  MaxFaults = 1
INVARIANTS
  TypeOK
  PurgedOnce
  EndedIsComplete
  AnswerAccounts
PROPERTIES
  DueIsSettled
