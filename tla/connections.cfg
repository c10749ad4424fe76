SPECIFICATION ConnectionsSpec
CONSTANTS
    c1 = c1
    c2 = c2
    hostA = hostA
    hostB = hostB
    k1 = k1
    k2 = k2
    ann = ann
    svc = svc
    u = u
    Pinger = Pinger
    Clients = {c1, c2}
    Sockets = {k1, k2}
    PoolLimit = 1
    NoSocket = None
    Askers = {c1, c2}
    Nobody = None
    IdSpace = 10
    MaxWire = 2
    MaxDocs = 2
    Sharers = {c1, c2}
    Classic = {ann}
    Sasl = {svc}
    Source <- SourceOf
    NoCred = None
    SaslSteps = 2
    MaxLogout = 1
    MaxCommands = 2
    Addresses = {1, 2, 3}
    Near = 1
    PingWindow = 3
    Delays = {1, 2}
    MaxPings = 4
    Infos <- Described
    TagSets <- TagsAsked
    Elements = {e1, e2}
    Nothing = None
    FirstCap = 2
    SlowCap = 4
    MaxElems = 6
    Addrs = {hostA, hostB}
    Seeds = {hostA}
    Objects = {1, 2, 3, 4}
    Acquirers = {c1}
    Nil = None
    MaxRoleChanges = 1
    MaxSessions = 1
    ClusterModes <- DirectOrNot
    TagsMissed = FALSE
    Crowded = TRUE
    Callers = {c1, c2}
    Sessions = {x1, x2}
    Connections = {k1, k2}
    Creds = {u}
    None = None
    Plays <- Scenes
    MaxChanges = 2
INVARIANTS
    PoolInv
    SocketInv
    
    ServersInv
    ClusterInv
    SessionInv
    SessionPromises
PROPERTIES
    QueueIsFifo
    CallsReturn
    GoroutinesEnd
CHECK_DEADLOCK FALSE
