SPECIFICATION Spec
CONSTANTS
    Main = Main
    Workers = {w1}
    Tasks = {t1, t2}
    Codes = {c0}
    None = None
SYMMETRY Symmetry
INVARIANT
    RefusedNeverRuns
CHECK_DEADLOCK FALSE
