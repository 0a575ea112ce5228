SPECIFICATION Spec
CONSTANTS
    Nodes = {n1, n2, n3, f1, f2}
    Fragments = {f1, f2}
    Document = Document
    None = None
SYMMETRY Symmetry
INVARIANTS
    TypeOK
    OnlyParsedFragmentsLeak
PROPERTY
    NothingInUseIsDeleted
CHECK_DEADLOCK FALSE
