SPECIFICATION FairSpec
CONSTANTS
  Requests = {q1, q2}
  Videos = {v1, v2, v3}
  Logins = {l1}
  Nothing = none
  MaxFiles = 2
  Slots = 1
  MaxBegun = 3
CHECK_DEADLOCK FALSE
INVARIANT NoPieceIsServed
INVARIANT PathsOutliveTheirUse
INVARIANT NoClientIsLost
PROPERTY NeverDownloadedTwice
PROPERTY EveryRequestEnds
