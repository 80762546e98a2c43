\* Two role names and two computes: a role that changes, appears or disappears
\* while another is reset, a session on the compute that is still enabled. A
\* failure at every step, also in the next attempt, and three rounds in each.
SPECIFICATION FairSpec
CONSTANTS
  Roles = {r1, r2}
  Endpoints = {e1, e2}
  Nothing = Nothing
  MaxFaults = 2
\* A prepared transfer is the end of it.
CHECK_DEADLOCK FALSE
INVARIANTS
  RotationInv
  QuietWhenReturned
  ComputeIsAsTold
PROPERTIES
  PreparationSucceeds
