\* The page leaves while the handler writes to it.
CONSTANT StateCap = 1
SPECIFICATION FairSpec
PROPERTY DoneIsClosed
CHECK_DEADLOCK FALSE
