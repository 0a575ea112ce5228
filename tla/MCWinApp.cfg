SPECIFICATION FairSpec
CONSTANTS
    App = App
    Others = {o1}
    Tasks = {t1, t2}
    Quit = Quit
    MaxDelay = 2
INVARIANTS
    TypeOK
    TasksRunOnce
PROPERTIES
    Implements
    TasksStart
    ExitEndsUnblockedApp
CHECK_DEADLOCK FALSE
