\* One account, two requests and a listener at a time, two bots one after another.
CONSTANTS
  Users = {u1}
  Clients = {k1, k2}
  Listeners = {l1}
  StartBots = StartBots
  MaxBots = 2
  None = None
SPECIFICATION FairSpec
INVARIANT OneLiveBot
INVARIANT LiveIsReachable
INVARIANT StoppedLeaves
PROPERTY StopTakesEffect
