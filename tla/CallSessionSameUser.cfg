\* Two calls with one user.
CONSTANTS
  c1 = c1
  c2 = c2
  u1 = u1
  Calls = {c1, c2}
  Users = {u1}
  UserOf <- SameUserOf
  Slots = {g1}
  ConnCap = 1
SPECIFICATION Spec
INVARIANT LiveCallHasMedia
CHECK_DEADLOCK FALSE
