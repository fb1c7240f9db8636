\* The algorithms without a state, over bounded inputs.
CONSTANTS
    NotFinite = NotFinite
    None = None
    Here = Here
    NoValue = NoValue
    Invalid = Invalid
    NoPercent = NoPercent
    NoReset = NoReset
    Cases <- MCCases
SPECIFICATION Spec
INVARIANTS
    PopoverOnScreen
    WorstSignalShown
    RightProgramIsStarted
    AnswersAreSound
