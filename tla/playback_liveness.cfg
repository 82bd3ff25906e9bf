SPECIFICATION FairSpec
CONSTANTS
  Web = {w1}
  Worker = wk
  Tracks = {a, b}
  NoTrack = none
  Ops <- AdvanceOps
  MaxId = 5
  MaxOps = 3
  MaxGen = 2
  InitFloor = 0
  InitLen = 2
  InitRepeat = {"all"}
  MayFail = FALSE
  MayLose = FALSE
  InOrder = TRUE
CHECK_DEADLOCK FALSE
PROPERTY PendingSettles
PROPERTY FinishedTrackIsFollowed
