SPECIFICATION FairSpec
CONSTANTS
    e1 = e1
    Elements = {e1}
    Document = Document
    Window = Window
    Paths <- MCPaths
    Types = {"load", "error", "readystatechange", "DOMContentLoaded", "unload"}
    Slots <- MCSlots
    Functions = {f1, f2}
    Natives = {n1, n2, n3}
    None = None
INVARIANTS
    TypeOK
    VectorIsThere
    NativesAreSound
PROPERTIES
    Implements
    DispatchEnds
CHECK_DEADLOCK FALSE
