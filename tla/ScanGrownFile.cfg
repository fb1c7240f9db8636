\* The contract on files that have grown, across a restart.
CONSTANTS
    f1 = f1
    f2 = f2
    Files = {f1}
    Counts = {1}
    MaxLines = 3
    MaxEpoch = 1
    NoCheckpoint = NoCheckpoint
SPECIFICATION Spec
PROPERTIES
    GrownFileIsResumed
