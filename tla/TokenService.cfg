\* Half seconds, an expiry between two seconds, tokens of one second, every step of
\* a claim, a deletion and the janitor at every instant, and a client that goes on.
SPECIFICATION FairSpec
CONSTANTS
  Second = 2
  AccessTTL = 1
  Expiries = {3}
  MaxNow = 3
  MaxLost = 1
  Jtis = {j1, j2}
  NoToken = NoToken
  Resources = {"audience"}
\* A client without its secret stops, and so does the clock.
CHECK_DEADLOCK FALSE
INVARIANTS
  TokenInv
  PrunedIsDead
PROPERTIES
  MintedIsAlive
  WishEnds
