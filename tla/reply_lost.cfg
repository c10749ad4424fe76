SPECIFICATION Spec
CONSTANTS
    Pet = {p1}
    NoPet = NoPet
    Consumers = {c1}
    QueueSize = 1
    Retries = 1
    Endings = {"busy", "good"}
    Unsendable = {}
    CutShort = {}
    MaxRuns = 1
    MaxCrashes = 0
    MaxFaults = 1
INVARIANTS
    SavedBeforeDeleted
