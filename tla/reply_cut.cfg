SPECIFICATION Spec
CONSTANTS
    Pet = {p1}
    NoPet = NoPet
    Consumers = {c1}
    QueueSize = 1
    Retries = 1
    Endings = {"busy", "good"}
    Unsendable = {}
    CutShort = {p1}
    MaxRuns = 1
    MaxCrashes = 0
    MaxFaults = 0
PROPERTIES
    NewReplyReturns
