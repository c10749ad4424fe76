SPECIFICATION CoreSpec
CONSTANTS
    Pet = {p1, p2}
    NoPet = NoPet
    Consumers = {c1, c2}
    QueueSize = 1
    Retries = 1
    Endings = {"busy", "good"}
    Unsendable = {}
    CutShort = {p1}
    MaxRuns = 2
    MaxCrashes = 1
    MaxFaults = 1
SYMMETRY ConsumerSymmetry
INVARIANTS
    InFlightStored
    NoDoubleDispatch
    AcceptedNotLost
    IInv
PROPERTIES
    Implements
