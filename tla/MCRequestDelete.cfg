SPECIFICATION Spec
CONSTANTS
    Loads = {l1, l2}
    None = None
SYMMETRY Symmetry
INVARIANT
    RequestDeletedOnce
CHECK_DEADLOCK FALSE
