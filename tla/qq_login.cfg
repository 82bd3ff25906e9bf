SPECIFICATION Spec
CONSTANTS
  Accounts = {a1, a2}
  Logins = {l1, l2}
  None = none
SYMMETRY Symmetry
INVARIANT PlayerFollowsStored
PROPERTY LoginSavesItsOwn
