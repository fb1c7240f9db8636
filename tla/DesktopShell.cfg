\* The popover, the login setting and refreshes of one run of the program.
CONSTANTS
    w1 = w1
    w2 = w2
    Window = {w1, w2}
    NoWindow = NoWindow
    Mixes <- MCMixes
    MaxEvents = 2
SPECIFICATION Spec
INVARIANTS
    OnePopover
    MarkTellsSetting
    ShimmerIsBacked
PROPERTIES
    ClickOnOpenCloses
