\* One authorisation; room for two states stands for the ten of the code.
CONSTANT StateCap = 2
SPECIFICATION FairSpec
INVARIANTS NoSendOnClosedDone PanicOnlyOnTimeout OutcomeTold
PROPERTIES ShownForward HandlerLeaves ReaderFollows
CHECK_DEADLOCK FALSE
