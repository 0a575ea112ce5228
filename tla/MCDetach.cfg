SPECIFICATION Spec
CONSTANTS
    Loads = {l1, l2}
    None = None
SYMMETRY Symmetry
INVARIANT
    DetachStopsLoads
CHECK_DEADLOCK FALSE
