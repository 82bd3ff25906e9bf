SPECIFICATION FairSpec
CONSTANTS
  Sockets = {s1, s2}
  MaxPending = 2
  MaxMessages = 3
CHECK_DEADLOCK FALSE
INVARIANT ChangesReachClients
INVARIANT NoLostWakeup
INVARIANT OrphansSleep
INVARIANT ClosedMeansQuiet
PROPERTY DroppedGetNothing
PROPERTY WritersGetOn
