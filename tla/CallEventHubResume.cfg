\* One client that comes back for more events than a channel has places.
CONSTANTS
  Types = {t1}
  Subs = {s1}
  ChanCap = 1
  MaxEvents = 2
  None = None
SPECIFICATION FairSpec
PROPERTY ResumedStreamStarts
CHECK_DEADLOCK FALSE
