SPECIFICATION TxnSpec
CONSTANTS
    r1 = r1
    r2 = r2
    Runners = {r1, r2}
    Txns = {1, 2}
    Docs = {1, 2}
    Scenarios <- Cycle
    Components <- TarjanSort
    None = None
INVARIANTS
    NoTxnPanic
CHECK_DEADLOCK FALSE
