SPECIFICATION Spec
CONSTANTS
  Requests = {q1, q2}
  Videos = {v1, v2, v3}
  Logins = {l1}
  Nothing = none
  MaxFiles = 2
  Slots = 1
  MaxBegun = 4
SYMMETRY Symmetry
CHECK_DEADLOCK FALSE
INVARIANT RequestedAudioStays
