SPECIFICATION FairSpec
CONSTANTS
    Main = Main
    Workers = {w1}
    Tasks = {t1, t2, t3}
    Codes = {c0, c1}
    None = None
INVARIANTS
    TypeOK
    Fifo
    AssertsHold
    ExitIsPrompt
PROPERTIES
    Implements
    QueuedTasksStart
    ExitEndsRun
CHECK_DEADLOCK FALSE
