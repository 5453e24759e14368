SPECIFICATION FairSpec
CONSTANTS Sessions = 2 Loads = 2
CHECK_DEADLOCK FALSE
INVARIANTS SessionSafe
PROPERTIES ShutdownCompletes LoadingEnds
