\* One provider with its quota, health and local jobs.
CONSTANTS
    p1 = p1
    p2 = p2
    Providers = {p1}
    Jobs <- AllKinds
    MaxReading = 1
    GenMod = 2
    MaxFailures = 1
    NoImage = NoImage
SPECIFICATION Spec
INVARIANTS
    ProgressIsReal
PROPERTIES
    ShownNeverGoesBack
    RequestsCoalesce
