SPECIFICATION Spec
CONSTANTS
  Calls = {c1, c2}
  Sources = {a, b}
  NoSource = none
  MaxLoops = 3
  MaxToggles = 0
  MaxControl = 2
SYMMETRY Symmetry
CHECK_DEADLOCK FALSE
PROPERTY StopSilences
