\* Shutdown: one bot, one handler, one module and the listener; one place in StartCh.
\* Library: two calls, enough for a frame that finds the queue full and one that finds every
\* worker busy.
\* Bridge: frames of two samples, chunks of one to three.
CONSTANTS
  Bots = {b1}
  Handlers = {handler1}
  Modules = {mod}
  Listener = listener
  StartCap = 1
  Handles = {h1, h2}
  Workers = 1
  QueueCap = 1
  FrameSize = 2
  QueueLimit = 1
  MaxChunk = 3
  MaxSamples = 4
  MaxDrains = 2
  CallIds = {c1, c2}
  Requests = {r1, r2}
  NoCall = NoCall
  MaxItems = 3
  Dialogs = {d1, d2}
  TxCap = 2
SPECIFICATION PartsSpec
INVARIANTS
  DatabaseLast
  BotsLeaveFirst
  MemoryOutlivesCall
  AudioInOrder
  InterruptionIsPrompt
  AnswerIsOwn
  StreamedOnce
  ModeFollowsOperator
PROPERTIES
  ImplementsLine
  ProcessEnds
  HandlesReleased
  BridgeEnds
\* The process ends, a call is over, a page has been served.
CHECK_DEADLOCK FALSE
