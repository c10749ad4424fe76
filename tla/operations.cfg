SPECIFICATION Spec
CONSTANTS
    r1 = r1
    r2 = r2
    Runners = {r1, r2}
    Txns = {1, 2}
    Docs = {1, 2}
    Scenarios <- Cases
    Components <- TarjanSort
    None = None
    Total = 5
    MaxBatch = 3
    Queries <- Asking
    ChunkSize = 2
    MaxPending = 2
    MaxLength = 5
    MaxPiece = 3
    MaxSeeks = 2
    MaxFaults = 1
INVARIANTS
    IterInv
    GridInv
    TxnInv
    TarjanCorrect
PROPERTIES
    Decides
    OperationsEnd
CHECK_DEADLOCK FALSE
