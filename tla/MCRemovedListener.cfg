SPECIFICATION Spec
CONSTANTS
    e1 = e1
    Elements = {e1}
    Document = Document
    Window = Window
    Paths <- MCPaths
    Types = {"DOMContentLoaded"}
    Slots <- MCWindowSlot
    Functions = {f1, f2}
    Natives = {n1, n2, n3}
    None = None
SYMMETRY Symmetry
PROPERTY
    RemovedNotFired
CHECK_DEADLOCK FALSE
