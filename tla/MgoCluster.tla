------------------------------ MODULE MgoCluster ------------------------------
(***************************************************************************)
(* How mgo keeps its idea of a replica set (mgo/cluster.go): one loop      *)
(* synchronises the topology by asking every server it hears of, all in    *)
(* parallel; clients take sockets from the servers found, drop a server    *)
(* that fails, ask for a new synchronisation and wait for it.              *)
(*                                                                         *)
(* A server is an address; a mongoServer is an object, as one address can  *)
(* get a new object after its old one was closed.  Every member of the     *)
(* replica set names all others.  BestFit is "any server" here.            *)
(***************************************************************************)
EXTENDS Integers, FiniteSets

CONSTANTS
  Addrs,           \* the members of the replica set
  Seeds,           \* cluster.userSeeds
  Objects,         \* bound on mongoServer objects; a closed one nobody holds is used again
  Acquirers,
  Nil,
  MaxRoleChanges,  \* bound on changes of role and limits reached
  MaxSessions,     \* bound on the sessions of the cluster
  ClusterModes,    \* cluster.direct and cluster.failFast
  TagsMissed,      \* slave reads ask for tags no server has
  Crowded          \* the connection limit of a server may be reached

\* newCluster is given one reference, its session's.
ASSUME ClusterAssumption ==
  /\ Seeds \subseteq Addrs /\ Nil \notin Addrs /\ Nil \notin Objects
  /\ MaxSessions \in Nat \ {0} /\ IsFiniteSet(Acquirers)
  /\ ClusterModes \subseteq [direct : BOOLEAN, failFast : BOOLEAN]

VARIABLES
  role,         \* what each member really is: "master", "slave" or "down"
  roleChanges,  \* how often that changed, or the connection limit was reached
  mode,
  servers,      \* cluster.servers: address -> object or Nil
  masters,      \* cluster.masters
  object,       \* per object: its address, whether open, info.Master, abended
  clusterRefs,  \* cluster.references
  dynaSeeds, mustSync,
  loop,         \* where syncServersLoop is
  spawned,      \* spawnSync goroutines not yet begun: <<address, byMaster>>
  talk,         \* per address: the goroutine that talks to it
  pending,      \* notYetAdded: address -> what would be added
  adding,       \* pending servers a master's answer has claimed
  addIfFound, seen, complete,  \* the other locals of an iteration
  reached,      \* members that answered in this iteration and were not dropped
  unresolved,   \* members whose address did not resolve when a master named them
  client,       \* per client: where AcquireSocket is
  clusterPanic

clusterVars == <<role, roleChanges, mode, servers, masters, object, clusterRefs, dynaSeeds,
                 mustSync, loop, spawned, talk, pending, adding, addIfFound, seen,
                 complete, reached, unresolved, client, clusterPanic>>
world == <<role, roleChanges, mode>>
known == <<servers, masters, object>>
iteration == <<spawned, talk, pending, adding, addIfFound, seen, complete, reached,
               unresolved>>

NoTalk == [at |-> "none", obj |-> Nil, master |-> FALSE]
NoCall == [at |-> "idle", slaveOk |-> FALSE, obj |-> Nil, started |-> FALSE,
           late |-> FALSE, counted |-> FALSE]
UnusedObject == [addr |-> Nil, open |-> FALSE, master |-> FALSE, abended |-> FALSE]

ClusterInit ==
  /\ role \in [Addrs -> {"master", "slave", "down"}]
  /\ Cardinality({a \in Addrs : role[a] = "master"}) <= 1
  /\ roleChanges = 0
  /\ mode \in ClusterModes
  /\ servers = [a \in Addrs |-> Nil] /\ masters = {}
  /\ object = [o \in Objects |-> UnusedObject]
  /\ clusterRefs = 1
  /\ dynaSeeds = {} /\ mustSync = FALSE
  /\ loop = "start"
  /\ spawned = {} /\ adding = {} /\ addIfFound = {} /\ seen = {} /\ reached = {}
  /\ unresolved = {} /\ complete = FALSE
  /\ talk = [a \in Addrs |-> NoTalk]
  /\ pending = [a \in Addrs |-> NoTalk]
  /\ client = [c \in Acquirers |-> NoCall]
  /\ clusterPanic = FALSE

Present == {a \in Addrs : servers[a] # Nil}

----------------------------------------------------------------------------
(* What more than one goroutine does.                                      *)

\* serverSynced.Broadcast.
Woken == [c \in Acquirers |->
            IF client[c].at = "waiting" THEN [client[c] EXCEPT !.at = "checking"]
                                        ELSE client[c]]

\* Mutant: masters.Remove is forgotten.
RemoveOnlyServer(o) ==
  LET a == object[o].addr
      gone == {o, servers[a]}
  IN
  /\ UNCHANGED masters
  /\ servers' = [servers EXCEPT ![a] = Nil]
  /\ object' = [x \in Objects |-> IF x \in gone THEN [object[x] EXCEPT !.open = FALSE]
                                                ELSE object[x]]

\* removeServer: whatever object has the address of o leaves the cluster,
\* and both are closed.
RemoveServer(o) ==
  LET a == object[o].addr
      gone == {o, servers[a]}
  IN
  /\ masters' = masters \ {a}
  /\ servers' = [servers EXCEPT ![a] = Nil]
  /\ object' = [x \in Objects |-> IF x \in gone THEN [object[x] EXCEPT !.open = FALSE]
                                                ELSE object[x]]

\* addServer of object o, found to be a master or not.
AddServer(o, master, kind) ==
  LET a == object[o].addr
      add == servers' = [servers EXCEPT ![a] = o]
      info == object' = [object EXCEPT ![o].master = master]
  IN
  \/ /\ servers[a] = Nil /\ ~kind
     /\ object' = [object EXCEPT ![o].open = FALSE]
     /\ UNCHANGED <<servers, masters, client, clusterPanic>>
  \/ /\ servers[a] = Nil /\ kind
     /\ add /\ info
     /\ masters' = IF master THEN masters \cup {a} ELSE masters
     /\ client' = Woken
     /\ UNCHANGED clusterPanic
  \/ /\ servers[a] \notin {Nil, o}
     /\ clusterPanic' = TRUE
     /\ UNCHANGED <<servers, masters, object, client>>
  \/ /\ servers[a] = o
     /\ masters' = IF object[o].master = master THEN masters
                   ELSE IF master THEN masters \cup {a} ELSE masters \ {a}
     /\ info
     /\ client' = Woken
     /\ UNCHANGED <<servers, clusterPanic>>

----------------------------------------------------------------------------
(* syncServersLoop and syncServersIteration.                               *)

LoopStart ==
  /\ loop = "start"
  /\ IF clusterRefs = 0
       THEN /\ loop' = "ended"
            /\ UNCHANGED <<clusterRefs, iteration>>
       ELSE /\ clusterRefs' = clusterRefs + 1
            /\ loop' = "iterating"
            /\ spawned' = (Seeds \cup dynaSeeds \cup Present) \X {FALSE}
            /\ talk' = [a \in Addrs |-> NoTalk]
            /\ pending' = [a \in Addrs |-> NoTalk]
            /\ adding' = {} /\ addIfFound' = {} /\ seen' = {} /\ reached' = {}
            /\ unresolved' = {} /\ complete' = FALSE
  /\ UNCHANGED <<world, known, dynaSeeds, mustSync, client, clusterPanic>>

\* The first critical section of a spawnSync goroutine, unless its address
\* does not resolve, as may be so of a member that is down.
BeginSync(a, byMaster) ==
  /\ <<a, byMaster>> \in spawned
  /\ spawned' = spawned \ {<<a, byMaster>>}
  /\ \/ /\ role[a] = "down"
        /\ unresolved' = IF byMaster THEN unresolved \cup {a} ELSE unresolved
        /\ UNCHANGED <<talk, pending, adding, addIfFound, seen>>
     \/ /\ byMaster /\ pending[a] # NoTalk
        /\ adding' = adding \cup {pending[a]}
        /\ pending' = [pending EXCEPT ![a] = NoTalk]
        /\ UNCHANGED <<talk, addIfFound, seen, unresolved>>
     \/ /\ ~(byMaster /\ pending[a] # NoTalk)
        /\ addIfFound' = IF byMaster THEN addIfFound \cup {a} ELSE addIfFound
        /\ IF a \in seen THEN UNCHANGED <<seen, talk>>
           ELSE /\ seen' = seen \cup {a}
                /\ talk' = [talk EXCEPT ![a].at = "server"]
        /\ UNCHANGED <<pending, adding, unresolved>>
  /\ UNCHANGED <<world, known, clusterRefs, dynaSeeds, mustSync, loop, complete, reached,
                 client, clusterPanic>>

\* The objects somebody may still look at.
Held == {talk[a].obj : a \in Addrs} \cup {pending[a].obj : a \in Addrs}
          \cup {p.obj : p \in adding} \cup {servers[a] : a \in Addrs}
          \cup {client[c].obj : c \in Acquirers}

Unused == {o \in Objects : o \notin Held /\ ~object[o].open}

\* cluster.server: the one in use, or a new object.
GetServer(a) ==
  /\ talk[a].at = "server"
  /\ \/ /\ servers[a] # Nil
        /\ talk' = [talk EXCEPT ![a] = [at |-> "syncing", obj |-> servers[a], master |-> FALSE]]
        /\ UNCHANGED object
     \/ /\ servers[a] = Nil
        /\ Unused # {}
        /\ LET o == CHOOSE x \in Unused : TRUE IN
             /\ object' = [object EXCEPT ![o] = [UnusedObject EXCEPT !.addr = a, !.open = TRUE]]
             /\ talk' = [talk EXCEPT ![a] = [at |-> "syncing", obj |-> o, master |-> FALSE]]
  /\ UNCHANGED <<world, servers, masters, clusterRefs, dynaSeeds, mustSync, loop, spawned,
                 pending, adding, addIfFound, seen, unresolved, complete, reached, client,
                 clusterPanic>>

\* syncServer tries three times (once with FailFast) and gives clients a
\* chance to time out in between.
Hiccup(a) ==
  /\ talk[a].at = "syncing"
  /\ ~mode.failFast
  /\ role[a] = "down"
  /\ client' = Woken
  /\ UNCHANGED <<world, known, clusterRefs, dynaSeeds, mustSync, loop, iteration, clusterPanic>>

SyncFails(a) ==
  /\ talk[a].at = "syncing"
  /\ role[a] = "down" \/ ~object[talk[a].obj].open
  /\ RemoveServer(talk[a].obj)
  /\ talk' = [talk EXCEPT ![a] = [NoTalk EXCEPT !.at = "done"]]
  /\ UNCHANGED <<world, clusterRefs, dynaSeeds, mustSync, loop, spawned, pending, adding,
                 addIfFound, seen, unresolved, complete, reached, client, clusterPanic>>

Peers(master) == IF mode.direct THEN {} ELSE Addrs \X {master}

\* The answer to ismaster: the server is added now, or once a master claims it.
SyncReplies(a) ==
  LET isMaster == role[a] = "master"
      found == [talk[a] EXCEPT !.at = "adding", !.master = isMaster]
  IN
  /\ talk[a].at = "syncing"
  /\ role[a] # "down" /\ object[talk[a].obj].open
  /\ reached' = reached \cup {a}
  /\ IF mode.direct \/ isMaster \/ a \in addIfFound
       THEN /\ complete' = TRUE
            /\ talk' = [talk EXCEPT ![a] = found]
            /\ UNCHANGED <<pending, spawned>>
       ELSE /\ pending' = [pending EXCEPT ![a] = found]
            /\ talk' = [talk EXCEPT ![a] = [NoTalk EXCEPT !.at = "done"]]
            /\ spawned' = spawned \cup Peers(FALSE)
            /\ UNCHANGED complete
  /\ UNCHANGED <<world, known, clusterRefs, dynaSeeds, mustSync, loop, adding, addIfFound,
                 seen, unresolved, client, clusterPanic>>

AddFound(a) ==
  /\ talk[a].at = "adding"
  /\ AddServer(talk[a].obj, talk[a].master, TRUE)
  /\ talk' = [talk EXCEPT ![a] = [NoTalk EXCEPT !.at = "done"]]
  /\ spawned' = spawned \cup Peers(talk[a].master)
  /\ UNCHANGED <<world, clusterRefs, dynaSeeds, mustSync, loop, pending, adding, addIfFound,
                 seen, unresolved, complete, reached>>

AddClaimed(p) ==
  /\ p \in adding
  /\ AddServer(p.obj, p.master, TRUE)
  /\ adding' = adding \ {p}
  /\ UNCHANGED <<world, clusterRefs, dynaSeeds, mustSync, loop, spawned, talk, pending,
                 addIfFound, seen, unresolved, complete, reached>>

\* wg.Wait is over.
AllDone == /\ loop = "iterating"
           /\ spawned = {} /\ adding = {}
           /\ \A a \in Addrs : talk[a].at \in {"none", "done"}

FinishPending(a) ==
  LET p == pending[a] IN
  /\ AllDone
  /\ p # NoTalk
  /\ IF complete THEN RemoveServer(p.obj) /\ UNCHANGED <<client, clusterPanic>>
                 ELSE AddServer(p.obj, p.master, FALSE)
  /\ pending' = [pending EXCEPT ![a] = NoTalk]
  /\ UNCHANGED <<world, clusterRefs, dynaSeeds, mustSync, loop, spawned, talk, adding,
                 addIfFound, seen, unresolved, complete, reached>>

FinishIteration ==
  /\ AllDone
  /\ \A a \in Addrs : pending[a] = NoTalk
  /\ dynaSeeds' = IF complete THEN Present ELSE dynaSeeds
  /\ loop' = "drain"
  /\ UNCHANGED <<world, known, clusterRefs, mustSync, iteration, client, clusterPanic>>

Drain ==
  /\ loop = "drain"
  /\ mustSync' = FALSE
  /\ loop' = "release"
  /\ UNCHANGED <<world, known, clusterRefs, dynaSeeds, iteration, client, clusterPanic>>

\* Release of the cluster, by the loop and by sessions: the last one closes
\* the servers and wakes the loop up.
ReleaseCluster ==
  \/ /\ clusterRefs = 0
     /\ clusterPanic' = TRUE
     /\ UNCHANGED <<clusterRefs, object, mustSync>>
  \/ /\ clusterRefs > 0
     /\ clusterRefs' = clusterRefs - 1
     /\ IF clusterRefs = 1
          THEN /\ object' = [o \in Objects |-> [object[o] EXCEPT !.open =
                               @ /\ o \notin {servers[a] : a \in Addrs}]]
               /\ mustSync' = TRUE
          ELSE UNCHANGED <<object, mustSync>>
     /\ UNCHANGED clusterPanic

LoopRelease ==
  /\ loop = "release"
  /\ ReleaseCluster
  /\ loop' = "tick"
  /\ UNCHANGED <<world, servers, masters, dynaSeeds, iteration, client>>

\* syncCount++, a broadcast, and whether to go round at once.
Tick ==
  /\ loop = "tick"
  /\ IF clusterRefs = 0 THEN loop' = "ended" /\ UNCHANGED client
     ELSE /\ client' = [c \in Acquirers |-> [Woken[c] EXCEPT !.counted = client[c].started]]
          /\ loop' = IF (~mode.direct /\ masters = {}) \/ Present = {} THEN "start" ELSE "select"
  /\ UNCHANGED <<world, known, clusterRefs, dynaSeeds, mustSync, iteration, clusterPanic>>

\* A request on the channel, or the delay of 30 seconds.
Select ==
  /\ loop = "select"
  /\ mustSync' \in {FALSE, mustSync}
  /\ loop' = "start"
  /\ UNCHANGED <<world, known, clusterRefs, dynaSeeds, iteration, client, clusterPanic>>

----------------------------------------------------------------------------
(* AcquireSocket of the cluster.                                           *)

\* The references that are not the loop's.
OpenSessions ==
  IF loop \in {"iterating", "drain", "release"} THEN clusterRefs - 1 ELSE clusterRefs

Become(c, r) == client' = [client EXCEPT ![c] = r]

CallCluster(c, slaveOk) ==
  /\ client[c].at = "idle"
  /\ OpenSessions > Cardinality({d \in Acquirers : client[d].at # "idle"})
  /\ Become(c, [NoCall EXCEPT !.at = "checking", !.slaveOk = slaveOk])
  /\ UNCHANGED <<world, known, clusterRefs, dynaSeeds, mustSync, loop, iteration, clusterPanic>>

ServersUsable(c) == masters # {} \/ (client[c].slaveOk /\ Present # {})
GiveUp(c) == /\ client[c].started
             /\ client[c].late \/ (mode.failFast /\ client[c].counted)

WaitForServers(c) ==
  /\ client[c].at = "checking"
  /\ ~ServersUsable(c)
  /\ ~GiveUp(c)
  /\ Become(c, [client[c] EXCEPT !.at = "waiting", !.started = TRUE])
  /\ mustSync' = TRUE
  /\ UNCHANGED <<world, known, clusterRefs, dynaSeeds, loop, iteration, clusterPanic>>

NoReachableServers(c) ==
  /\ client[c].at = "checking"
  /\ ~ServersUsable(c)
  /\ GiveUp(c)
  /\ Become(c, NoCall)
  /\ UNCHANGED <<world, known, clusterRefs, dynaSeeds, mustSync, loop, iteration, clusterPanic>>

Pick(c) ==
  /\ client[c].at = "checking"
  /\ ServersUsable(c)
  /\ IF TagsMissed /\ client[c].slaveOk THEN Become(c, [client[c] EXCEPT !.at = "sleeping"])
     ELSE \E a \in IF client[c].slaveOk THEN Present ELSE masters :
            Become(c, [client[c] EXCEPT !.at = "picked", !.obj = servers[a]])
  /\ UNCHANGED <<world, known, clusterRefs, dynaSeeds, mustSync, loop, iteration, clusterPanic>>

Retry(c) ==
  /\ client[c].at = "sleeping"
  /\ Become(c, [client[c] EXCEPT !.at = "checking", !.obj = Nil])
  /\ UNCHANGED <<world, known, clusterRefs, dynaSeeds, mustSync, loop, iteration, clusterPanic>>

Reachable(o) == object[o].open /\ role[object[o].addr] # "down"

\* The other sessions hold PoolLimit sockets of the server. That they give one
\* back is assumed, as MaxChanges bounds this too: the code waits for ever if
\* they do not.
LimitReached(c) ==
  /\ client[c].at = "picked"
  /\ roleChanges < MaxRoleChanges
  /\ roleChanges' = roleChanges + 1
  /\ Crowded /\ Reachable(client[c].obj)
  /\ Become(c, [client[c] EXCEPT !.at = "sleeping"])
  /\ UNCHANGED <<role, mode, known, clusterRefs, dynaSeeds, mustSync, loop, iteration, clusterPanic>>

ServerFails(c) ==
  /\ client[c].at = "picked"
  /\ ~Reachable(client[c].obj)
  /\ RemoveServer(client[c].obj)
  /\ reached' = reached \ {object[client[c].obj].addr}
  /\ mustSync' = TRUE
  /\ Become(c, [client[c] EXCEPT !.at = "checking", !.obj = Nil])
  /\ UNCHANGED <<world, clusterRefs, dynaSeeds, loop, spawned, talk, pending, adding,
                 addIfFound, seen, unresolved, complete, clusterPanic>>

\* A socket; that of a server that abended is confirmed to be a master's.
GotSocket(c) ==
  LET o == client[c].obj
      doubtful == object[o].abended /\ ~client[c].slaveOk
      refused == doubtful /\ role[object[o].addr] # "master"
  IN
  /\ client[c].at = "picked"
  /\ Reachable(o)
  /\ Become(c, IF refused THEN [client[c] EXCEPT !.at = "sleeping"] ELSE NoCall)
  /\ mustSync' = (mustSync \/ refused)
  /\ UNCHANGED <<world, known, clusterRefs, dynaSeeds, loop, iteration, clusterPanic>>

\* SyncTimeout passes for a client that waits.
TimePasses(c) ==
  /\ client[c].started /\ ~client[c].late
  /\ Become(c, [client[c] EXCEPT !.late = TRUE])
  /\ UNCHANGED <<world, known, clusterRefs, dynaSeeds, mustSync, loop, iteration, clusterPanic>>

\* Sessions are copied and closed; one that is in a call is not closed.
AcquireCluster ==
  /\ OpenSessions > 0 /\ OpenSessions < MaxSessions
  /\ clusterRefs' = clusterRefs + 1
  /\ UNCHANGED <<world, known, dynaSeeds, mustSync, loop, iteration, client, clusterPanic>>

SessionCloses ==
  /\ OpenSessions > Cardinality({c \in Acquirers : client[c].at # "idle"})
  /\ ReleaseCluster
  /\ UNCHANGED <<world, servers, masters, dynaSeeds, loop, iteration, client>>

----------------------------------------------------------------------------
\* A member changes its role; its connections break, and the server notes it.
Change(a) ==
  /\ roleChanges < MaxRoleChanges
  /\ roleChanges' = roleChanges + 1
  /\ \E r \in {"master", "slave", "down"} \ {role[a]} :
       /\ r = "master" => \A b \in Addrs \ {a} : role[b] # "master"
       /\ role' = [role EXCEPT ![a] = r]
  /\ object' = [o \in Objects |-> IF object[o].addr = a /\ object[o].open
                                    THEN [object[o] EXCEPT !.abended = TRUE] ELSE object[o]]
  /\ mustSync' = (mustSync \/ \E o \in Objects : object[o].addr = a /\ object[o].open)
  /\ reached' = reached \ {a}
  /\ UNCHANGED <<mode, servers, masters, clusterRefs, dynaSeeds, loop, spawned, talk,
                 pending, adding, addIfFound, seen, unresolved, complete, client, clusterPanic>>

SyncStep ==
  \/ LoopStart \/ FinishIteration \/ Drain \/ LoopRelease \/ Tick \/ Select
  \/ \E a \in Addrs :
       \/ \E byMaster \in BOOLEAN : BeginSync(a, byMaster)
       \/ GetServer(a) \/ SyncFails(a) \/ SyncReplies(a) \/ AddFound(a)
       \/ FinishPending(a)
  \/ \E p \in adding : AddClaimed(p)

ClientStep(c) ==
  \/ WaitForServers(c) \/ NoReachableServers(c) \/ Pick(c) \/ Retry(c)
  \/ ServerFails(c) \/ GotSocket(c)

ClusterNext ==
  \/ SyncStep
  \/ \E a \in Addrs : Hiccup(a) \/ Change(a)
  \/ \E c \in Acquirers : \/ \E slaveOk \in BOOLEAN : CallCluster(c, slaveOk)
                          \/ ClientStep(c) \/ LimitReached(c) \/ TimePasses(c)
  \/ AcquireCluster \/ SessionCloses

\* The goroutines of a synchronisation and of the clients run, and time
\* passes: servers answer or fail, as every socket there has a timeout.
ClusterFairness ==
  /\ WF_clusterVars(SyncStep)
  /\ \A c \in Acquirers : /\ WF_clusterVars(ClientStep(c))
                          /\ WF_clusterVars(TimePasses(c))

ClusterSpec == ClusterInit /\ [][ClusterNext]_clusterVars /\ ClusterFairness

----------------------------------------------------------------------------
ClusterTypeOK ==
  /\ role \in [Addrs -> {"master", "slave", "down"}]
  /\ servers \in [Addrs -> Objects \cup {Nil}] /\ masters \subseteq Addrs
  /\ object \in [Objects -> [addr : Addrs \cup {Nil}, open : BOOLEAN,
                             master : BOOLEAN, abended : BOOLEAN]]
  /\ clusterRefs \in 0 .. MaxSessions + 1
  /\ loop \in {"start", "iterating", "drain", "release", "tick", "select", "ended"}
  /\ \A a \in Addrs : servers[a] # Nil => object[servers[a]].addr = a

\* Neither panic is reached: no address gets a second object while it has
\* one (cluster.go:249), and no reference is released twice (cluster.go:89).
NoClusterPanic == ~clusterPanic

\* The masters are those of the known servers that were last seen as masters.
MastersKnown == masters = {a \in Present : object[servers[a]].master}

\* No server object is forgotten open: once an iteration is over every open
\* one (with its pinger and sockets) is in the cluster, and none is open when
\* the loop has ended.
NoServerForgotten ==
  /\ loop \in {"drain", "release", "tick", "select", "start"} =>
       \A o \in Objects : object[o].open => o \in {servers[a] : a \in Addrs}
  /\ loop = "ended" => \A o \in Objects : ~object[o].open

\* A synchronisation that heard of a master keeps every member it reached,
\* whichever of the member's answer and the master's word of it came first,
\* unless the member has changed or a client found it failing since, or its
\* address did not resolve when the master named it.
SyncFindsAll == loop = "drain" /\ complete => reached \subseteq Present \cup unresolved

\* AcquireSocket ends, with a socket or with an error: no wake-up is lost
\* between the loop and those who wait for it.
AcquireEnds == \A c \in Acquirers : client[c].at # "idle" ~> client[c].at = "idle"

\* The loop ends once nobody refers to the cluster, and leaves nothing open.
LoopEnds == OpenSessions = 0 ~> /\ loop = "ended"
                                /\ \A o \in Objects : ~object[o].open

ClusterInv ==
  ClusterTypeOK /\ NoClusterPanic /\ MastersKnown /\ NoServerForgotten /\ SyncFindsAll
=============================================================================
