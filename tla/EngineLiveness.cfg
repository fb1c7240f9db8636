\* One provider, its quota job, with fairness.
CONSTANTS
    p1 = p1
    p2 = p2
    Providers = {p1}
    Jobs <- QuotaOnly
    MaxReading = 2
    GenMod = 2
    MaxFailures = 1
    NoImage = NoImage
SPECIFICATION FairSpec
PROPERTIES
    StopEnds
    JobsRunAgain
    ReadingReachesTheFile
