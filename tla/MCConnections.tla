---------------------------- MODULE MCConnections ----------------------------
(***************************************************************************)
(* The parts of mgo that find servers and share connections, each by       *)
(* itself, in one run: `part' says which one moves, the others stay in     *)
(* their initial state. The invariants are those of the modules.           *)
(***************************************************************************)
EXTENDS MgoPool, MgoSocket, MgoLogin, MgoServers, MgoQueue, MgoCluster, MgoSession, TLC

CONSTANTS c1, c2, hostA, hostB, k1, k2, ann, svc, u

VARIABLE part

----------------------------------------------------------------------------
\* A user of each mechanism, in two databases.
SourceOf(cred) == IF cred = svc THEN "other" ELSE "main"

\* Three addresses, a window of three pings, servers of every kind that
\* BestFit tells apart.
Info(master, ping, used) == [tags |-> [n \in {"dc"} |-> "ny"], mongos |-> FALSE,
                             master |-> master, ping |-> ping, used |-> used]
Described == {Info(FALSE, ping, used) : ping \in {1, 3}, used \in {0, 1}}
             \cup {Info(TRUE, 1, 0), [Info(FALSE, 1, 0) EXCEPT !.tags = <<>>],
                   [Info(FALSE, 1, 1) EXCEPT !.tags = <<>>, !.mongos = TRUE]}
TagsAsked == {{}, {[n \in {"dc"} |-> "ny"]}}

\* Two members of which one is a seed; direct or not, failing fast or not.
DirectOrNot == {[direct |-> on, failFast |-> on] : on \in BOOLEAN}

\* What the members are when the cluster is dialled: the seed is a slave, or
\* the last one up.
Roles == {(hostA :> "slave" @@ hostB :> "master"), (hostA :> "slave" @@ hostB :> "down"),
          (hostA :> "master" @@ hostB :> "down")}

\* Two goroutines on shared and cloned sessions, one with logins.
Playing(who, calls) == [callers |-> who, calls |-> calls]
Scenes == {Playing({c1, c2}, {"dial", "read", "write", "refresh", "mode", "close"}),
           Playing({c1, c2}, {"dial", "read", "write", "clone", "close"}),
           Playing({c1}, {"dial", "read", "write", "refresh", "mode", "copy", "close",
                          "login", "logout"})}

----------------------------------------------------------------------------
\* At rest, a part with several initial states is in one of them.
AtRest(p, cond) == part # p => cond

ConnectionsInit ==
    /\ part \in {"pool", "socket", "login", "servers", "queue", "cluster", "session"}
    /\ Init /\ SocketInit /\ LoginInit /\ ServersInit /\ QueueInit
    /\ ClusterInit
    /\ role \in Roles
    /\ AtRest("cluster", role[hostB] = "master" /\ ~mode.direct)
    /\ SessionInit
    /\ AtRest("session", "clone" \in play.calls)

NotPool == <<socketVars, loginVars, serversVars, queueVars, clusterVars, sessionVars>>
NotSocket == <<vars, loginVars, serversVars, queueVars, clusterVars, sessionVars>>
NotLogin == <<vars, socketVars, serversVars, queueVars, clusterVars, sessionVars>>
NotServers == <<vars, socketVars, loginVars, queueVars, clusterVars, sessionVars>>
NotQueue == <<vars, socketVars, loginVars, serversVars, clusterVars, sessionVars>>
NotCluster == <<vars, socketVars, loginVars, serversVars, queueVars, sessionVars>>
NotSession == <<vars, socketVars, loginVars, serversVars, queueVars, clusterVars>>

ConnectionsNext ==
    /\ \/ part = "pool" /\ Next /\ UNCHANGED NotPool
       \/ part = "socket" /\ SocketNext /\ UNCHANGED NotSocket
       \/ part = "login" /\ LoginNext /\ UNCHANGED NotLogin
       \/ part = "servers" /\ ServersNext /\ UNCHANGED NotServers
       \/ part = "queue" /\ QueueNext /\ UNCHANGED NotQueue
       \/ part = "cluster" /\ ClusterNext /\ UNCHANGED NotCluster
       \/ part = "session" /\ SessionNext /\ UNCHANGED NotSession
    /\ UNCHANGED part

allVars == <<part, vars, socketVars, loginVars, serversVars, queueVars,
             clusterVars, sessionVars>>

\* The fairness of each module, while it is the one that moves.
PoolFair ==
    /\ \A g \in {c1, c2, Pinger} :
         /\ WF_vars(part = "pool" /\ AcquireSocket(g))
         /\ WF_vars(part = "pool" /\ RecycleSocket(g))
    /\ WF_vars(part = "pool" /\ Call(Pinger))
    /\ WF_vars(part = "pool" /\ Release(Pinger))
    /\ WF_vars(part = "pool" /\ AfterPing)
    /\ \A s \in {k1, k2} : /\ WF_vars(part = "pool" /\ AbendSocket(s))
                         /\ WF_vars(part = "pool" /\ CloseSocket(s))

SocketFair ==
    /\ WF_socketVars(part = "socket" /\ ReadLoop)
    /\ \A g \in {c1, c2} : /\ WF_socketVars(part = "socket" /\ Notify(g))
                         /\ WF_socketVars(part = "socket" /\ Return(g))

ClusterFair ==
    /\ WF_clusterVars(part = "cluster" /\ SyncStep)
    /\ WF_clusterVars(part = "cluster" /\ ClientStep(c1))
    /\ WF_clusterVars(part = "cluster" /\ TimePasses(c1))

ConnectionsSpec ==
    /\ ConnectionsInit /\ [][ConnectionsNext]_allVars
    /\ PoolFair /\ SocketFair /\ ClusterFair

----------------------------------------------------------------------------
\* MgoSocket (WaitEnds) and MgoCluster (AcquireEnds): whoever waits for a
\* reply, or for a server, goes on, whatever dies meanwhile and however little
\* the server does.
Waits(g) ==
    \/ part = "socket" /\ stage[g] = "waiting"
    \/ part = "cluster" /\ g = c1 /\ client[c1].at # "idle"
CallsReturn == \A g \in {c1, c2} : Waits(g) ~> ~Waits(g)

\* MgoPool (ClosedSocketsDie, PingerEnds) and MgoCluster (LoopEnds): after a
\* close no connection, no pinger and no synchronisation goes on.
Over ==
    \/ part = "pool" /\ closed
    \/ part = "cluster" /\ OpenSessions = 0
Gone ==
    \/ part = "pool" /\ pc[Pinger] = "stopped" /\ \A s \in {k1, k2} : status[s] # "alive"
    \/ part = "cluster" /\ loop = "ended" /\ \A o \in 1..4 : ~object[o].open
GoroutinesEnd == Over ~> Gone
==============================================================================
