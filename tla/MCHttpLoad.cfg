SPECIFICATION FairSpec
CONSTANTS
    Loads = {l1, l2}
    None = None
INVARIANTS
    TypeOK
    LiveWhenUsed
    TaskEndsWithLoad
PROPERTIES
    Implements
    LoadsEnd
    ContinuedPagesFinish
CHECK_DEADLOCK FALSE
