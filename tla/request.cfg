SPECIFICATION Spec
CONSTANTS
    Retries = 2
    RetryTime = 3
    BodySize = 2
INVARIANTS
    Backoff
    OnlyRetriedStayOpen
    RequestInv
PROPERTIES
    ImplementsAttempt
    RequestEnds
