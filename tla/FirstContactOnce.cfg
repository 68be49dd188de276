\* Two messages handed over one after the other; Redis works; no restart.
CONSTANTS
  Senders = {s1}
  Messages = {m1, m2}
  Sender <- OneSender
  Concurrent = 1
  StartCap = 1
  MaxBots = 1
  RedisFails = FALSE
  None = None
  m1 = m1
  m2 = m2
  m3 = m3
  s1 = s1
SYMMETRY MessageSymmetry
SPECIFICATION Spec
INVARIANTS StartOnce
CHECK_DEADLOCK FALSE
