SPECIFICATION FairSpec
CONSTANTS
  Calls = {c1, c2}
  Sources = {a, b}
  NoSource = none
  MaxLoops = 3
  MaxToggles = 1
  MaxControl = 1
CHECK_DEADLOCK FALSE
INVARIANT OneVoice
INVARIANT StatusOfSlot
PROPERTY EndsBeforeNextStart
PROPERTY StoppedStaysSilent
PROPERTY CallsAnswer
