SPECIFICATION FairSpec
CONSTANTS
    Pet = {p1, p2}
    NoPet = NoPet
    Consumers = {c1}
    QueueSize = 1
    Retries = 1
    Endings = {"busy", "good"}
    Unsendable = {}
    CutShort = {p1}
    MaxRuns = 2
    MaxCrashes = 1
    MaxFaults = 1
PROPERTIES
    EventuallyReplied
    StopEnds
    RecoverEnds
