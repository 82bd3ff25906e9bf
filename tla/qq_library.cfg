SPECIFICATION FairSpec
CONSTANTS
  Readers = {r1, r2}
  Cookies = {c1, c2}
  Flights = {f1, f2}
  None = none
  Telling = {c1}
  MaxPages = 2
INVARIANT CompleteIsWhole
PROPERTY AnswersAreCurrent
PROPERTY PromiseKept
PROPERTY EveryReaderIsAnswered
