\* One account and two requests that overlap.
CONSTANTS
  Users = {u1}
  Clients = {k1, k2}
  Listeners = {}
  StartBots = StartBots
  MaxBots = 2
  None = None
SPECIFICATION Spec
INVARIANT NeverTwoBots
