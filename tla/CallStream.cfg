\* The hub of a call that starts and ends, two clients and channels of one place: replay,
\* live delivery, drops, resumption, refusals and a stuck replay all happen.
CONSTANTS
  Types = {"call_started", "call_ended"}
  Subs = {s1, s2}
  ChanCap = 1
  MaxEvents = 2
  None = None
SPECIFICATION FairStreamSpec
INVARIANT TypeOK
INVARIANT StreamIsComplete
INVARIANT StuckOnlyBehind
INVARIANT StreamTellsEnd
PROPERTY ImplementsLog
PROPERTY StreamsReturn
\* The call is over and every stream has returned, or a replay is stuck: the hub stops.
CHECK_DEADLOCK FALSE
