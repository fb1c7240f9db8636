\* One read on either platform; the CLI prints four chunks, hangs or ends.
CONSTANTS
    Phrases <- OnePhrase
    MaxPrints = 4
    MaxCapture = 3
SPECIFICATION FairSpec
INVARIANTS
    UsageComesFromAnswer
    FreshMeansItLeft
PROPERTIES
    ProbeEndsClean
