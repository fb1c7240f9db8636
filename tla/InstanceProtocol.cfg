\* Three starts that own, ask, quit and crash again and again, and a stranger.
CONSTANTS
    p1 = p1
    p2 = p2
    p3 = p3
    Process = {p1, p2, p3}
    Stranger = Stranger
    NoOne = NoOne
SPECIFICATION FairSpec
INVARIANTS
    OneOwner
PROPERTIES
    AcceptedShowIsServed
    StartsAndExitsEnd
