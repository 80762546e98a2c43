\* The registration's branch and database and another of each, every operation in any
\* order, a failure or a lost answer at every step, and the agent asking again.
SPECIFICATION Spec
CONSTANTS
  Branches = {main, preview}
  Databases = {neondb, other}
  OwnBranch = main
  OwnDatabase = neondb
INVARIANTS
  TypeOK
  ToldIsStored
PROPERTIES
  PrivateAuthIsKept
