SPECIFICATION Spec
CONSTANTS
    Retries = 1
    RetryTime = 1
    BodySize = 1
INVARIANTS
    RetrySendsBody
