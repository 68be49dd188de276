\* Two messages of one sender, both at a time; one place in StartCh;
\* one restart.
CONSTANTS
  Senders = {s1}
  Messages = {m1, m2}
  Sender <- OneSender
  Concurrent = 2
  StartCap = 1
  MaxBots = 2
  RedisFails = TRUE
  None = None
  m1 = m1
  m2 = m2
  m3 = m3
  s1 = s1
SYMMETRY MessageSymmetry
SPECIFICATION Spec
INVARIANTS RepeatsAreExplained SavedAfterNotified NewDialogOnce OneListener
CHECK_DEADLOCK FALSE
