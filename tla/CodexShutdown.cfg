\* What a test says of the close of a client.
CONSTANTS
    k1 = k1
    k2 = k2
    k3 = k3
    Process = {k1, k2, k3}
    NoProcess = NoProcess
SPECIFICATION Spec
PROPERTIES
    ShutdownIsForced
