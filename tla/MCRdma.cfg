SPECIFICATION Spec
CONSTANTS
    Threads = {t1, t2}
    Bufs = {b1}
    MaxMrs = 2
    MaxId = 3
    None = None
    Gone = Gone
INVARIANTS ContextSafe
PROPERTIES UndoTakesOwnRegion OrphansOnlyByUndo
