SPECIFICATION Spec
CONSTANTS
  None = None
  Addrs = {"a1", "a2"}
  Hosts = {"h1"}
  Descs = {"d1", "d2"}
  DefaultOf <- MCDefaultOf
  Named <- MCNamed
  MaxEvents = 3
CHECK_DEADLOCK FALSE
INVARIANT RestingIsUpToDate
INVARIANT UnappliedIsPending
INVARIANT ChannelFollows
PROPERTY ChangesArrive
