\* One call, incoming or outgoing, and one short-lived goroutine racing with its setup.
CONSTANTS
  c1 = c1
  c2 = c2
  u1 = u1
  Calls = {c1}
  Users = {u1}
  UserOf <- SameUserOf
  Slots = {g1}
  ConnCap = 1
SPECIFICATION FairSpec
INVARIANT RegistriesAgree
INVARIANT EndedOnce
INVARIANT AbandonedOnlyByStop
INVARIANT LiveCallHasMedia
INVARIANT NativeReleased
PROPERTY ImplementsLife
PROPERTY EveryCallIsForgotten
\* The system stops when the process crashes, and when the bot is stopped and its calls are over.
CHECK_DEADLOCK FALSE
