\* The Data API is enabled and stored, the scopes are not, and the agent asks
\* again.
SPECIFICATION Spec
CONSTANTS
  Branches = {main}
  Databases = {neondb}
  OwnBranch = main
  OwnDatabase = neondb
INVARIANTS
  ToldIsQueryable
