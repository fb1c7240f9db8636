\* Two providers whose quota jobs race each other, the cache and the writer.
CONSTANTS
    p1 = p1
    p2 = p2
    Providers = {p1, p2}
    Jobs <- QuotaJobs
    MaxReading = 2
    GenMod = 2
    MaxFailures = 1
    NoImage = NoImage
SYMMETRY Interchangeable
SPECIFICATION Spec
INVARIANTS
    QuotasInOrder
    OneTaskPerJob
    ErrorTellsLastFailure
    OrderlyExitIsSaved
PROPERTIES
    FileNeverGoesBack
    NoWorkAfterStop
    LedgerSpec
