SPECIFICATION Spec
CONSTANTS
    b1 = b1
    b2 = b2
    Block = {b1, b2}
    Dependency = dependency
    None = none
    Mode = "automatic"
    MaxPending = 2
    Loads <- MCLoads
INVARIANTS ProcessingUntilCemented AnnouncedOnce
PROPERTIES  WaitingWriterServed
CHECK_DEADLOCK FALSE
