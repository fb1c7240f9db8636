\* Collections one after another; a client never needs a third process.
CONSTANTS
    k1 = k1
    k2 = k2
    k3 = k3
    Process = {k1, k2, k3}
    NoProcess = NoProcess
SPECIFICATION FairSpec
INVARIANTS
    HoldsItsProcess
PROPERTIES
    CollectionEnds
