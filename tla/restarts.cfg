SPECIFICATION RestartsSpec
CONSTANTS
    p1 = p1
    Pet = {p1, p2, p3}
    NoPet = NoPet
    Consumers = {c1, c2}
    QueueSize = 2
    Retries = 1
    Endings = {"error", "busy", "bad", "good"}
    Unsendable = {}
    CutShort = {p1}
    MaxRuns = 4
    MaxCrashes = 2
    MaxFaults = 1
SYMMETRY ConsumerSymmetry
INVARIANTS
    DuplicateBound
    AttemptBound
    ErrorsRecorded
    CleanStop
    RefusedForgotten
    LateBound
