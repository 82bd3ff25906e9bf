SPECIFICATION Spec
CONSTANTS
  Operators = {o1}
  Releases = {r0, r1, r2}
  First = r0
  Tracks = {a, b}
  Nothing = none
  Defects = {"cover"}
  MaxRuns = 2
SYMMETRY Symmetry
CHECK_DEADLOCK FALSE
INVARIANT DeployedWasProbed
PROPERTY OutcomeIsTrue
PROPERTY WorkingWebStays
PROPERTY PlaybackSurvives
