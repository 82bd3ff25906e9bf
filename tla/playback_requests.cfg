SPECIFICATION Spec
CONSTANTS
  Web = {w1, w2}
  Worker = wk
  Tracks = {a}
  NoTrack = none
  Ops <- RequestOps
  MaxId = 3
  MaxOps = 3
  MaxGen = 3
  InitFloor = 0
  InitLen = 2
  InitRepeat = {"none"}
  MayFail = TRUE
  MayLose = TRUE
  InOrder = FALSE
SYMMETRY Symmetry
CHECK_DEADLOCK FALSE
INVARIANT TypeOK
INVARIANT PendingHasOwner
INVARIANT DetachedIsNotARow
PROPERTY OnlyRowsStartPlaying
PROPERTY TakeoversInOrder
PROPERTY IdsUniqueAfterClear
