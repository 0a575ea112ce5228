SPECIFICATION FairSpec
CONSTANTS
    Scripts = {s1, s2, s3}
    Main = Main
    None = None
INVARIANTS
    TypeOK
    DelayCountExact
    ClosuresMatch
    AssertsHold
    ParserEndsClean
    NoLostCheck
PROPERTIES
    IsABarrier
    PageIsReported
    ScriptsRun
CHECK_DEADLOCK FALSE
