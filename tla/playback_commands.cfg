SPECIFICATION Spec
CONSTANTS
  Web = {w1, w2}
  Worker = wk
  Tracks = {a}
  NoTrack = none
  Ops <- CommandOps
  MaxId = 3
  MaxOps = 3
  MaxGen = 3
  InitFloor = 0
  InitLen = 2
  InitRepeat = {"none", "all"}
  MayFail = FALSE
  MayLose = FALSE
  InOrder = TRUE
SYMMETRY Symmetry
CHECK_DEADLOCK FALSE
INVARIANT ShownIsCommanded
INVARIANT ShuffleIndexFollows
