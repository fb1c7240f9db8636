\* One provider with its fetches, scans and health requests, with fairness.
CONSTANTS
    p1 = p1
    p2 = p2
    Providers = {p1}
    Scanned = {p1}
    Checked = {p1}
    MaxReading = 1
    GenMod = 2
SPECIFICATION FairSpec
INVARIANTS
    ProgressIsReal
    PollingGoesOn
    OrderlyExitIsSaved
PROPERTIES
    LedgerSpec
    SummaryYieldsToScan
    StopEnds
    FetchedAgain
    ReadingReachesTheFile
