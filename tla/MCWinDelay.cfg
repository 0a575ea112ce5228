SPECIFICATION Spec
CONSTANTS
    App = App
    Others = {o1}
    Tasks = {t1, t2}
    Quit = Quit
    MaxDelay = 2
PROPERTIES
    DelaysKept
SYMMETRY Symmetry
CHECK_DEADLOCK FALSE
