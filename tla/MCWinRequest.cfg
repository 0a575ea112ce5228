SPECIFICATION FairSpec
CONSTANTS
    MaxParts = 2
INVARIANTS
    TypeOK
    OneSignalPerWait
    FreedByTheLastHolder
PROPERTIES
    Implements
    RequestsEnd
CHECK_DEADLOCK FALSE
