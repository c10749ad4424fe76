SPECIFICATION FairSpec
CONSTANTS
    Pet = {p1, p2}
    NoPet = NoPet
    Consumers = {c1}
    QueueSize = 1
    Retries = 1
    Endings = {"busy", "good"}
    Unsendable = {p1}
    CutShort = {}
    MaxRuns = 1
    MaxCrashes = 0
    MaxFaults = 0
PROPERTIES
    PetitionDeleted
