\* Two logs that grow, are rewritten, removed and unreadable in any order.
CONSTANTS
    f1 = f1
    f2 = f2
    Files = {f1, f2}
    Counts = {1}
    MaxLines = 2
    MaxEpoch = 2
    NoCheckpoint = NoCheckpoint
SPECIFICATION Spec
CONSTRAINT SomeWork
SYMMETRY LogSymmetry
INVARIANTS
    IncrementalIsExact
PROPERTIES
    CompleteScanMissesNothing
    NothingIsForgotten
