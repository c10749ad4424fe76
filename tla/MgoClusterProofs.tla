-------------------------- MODULE MgoClusterProofs --------------------------
(***************************************************************************)
(* Proofs about the synchronisation of a cluster of mgo, for any number of *)
(* members, seeds, server objects, clients, sessions and changes of role,  *)
(* direct or not, failing fast or not; and about the sorted slice of its   *)
(* servers, the choice of one of them and their pings, for any addresses,  *)
(* descriptions and delays.                                                *)
(***************************************************************************)
EXTENDS MgoCluster, MgoServers, DataInduction, SequenceTheorems, FiniteSetTheorems, TLAPS

----------------------------------------------------------------------------
(* The inductive invariant                                                 *)

Talk == [at : {"none", "server", "syncing", "adding", "done"}, obj : Objects \cup {Nil},
         master : BOOLEAN]
Call == [at : {"idle", "checking", "waiting", "picked", "sleeping"}, slaveOk : BOOLEAN,
         obj : Objects \cup {Nil}, started : BOOLEAN, late : BOOLEAN, counted : BOOLEAN]

LocalsOk ==
  /\ mode \in [direct : BOOLEAN, failFast : BOOLEAN]
  /\ talk \in [Addrs -> Talk] /\ pending \in [Addrs -> Talk]
  /\ adding \subseteq Talk
  /\ client \in [Acquirers -> Call]
  /\ spawned \subseteq Addrs \X BOOLEAN
  /\ {seen, addIfFound, reached, unresolved, dynaSeeds} \subseteq SUBSET Addrs
  /\ complete \in BOOLEAN
  /\ clusterRefs \in Nat

\* An object that may be added is the one of its address, or that has none.
Free(o, a) == o \in Objects /\ object[o].addr = a /\ servers[a] \in {Nil, o}

\* At any time one goroutine deals with an address: it talks to the server, or
\* has left it pending, or a master's word has claimed that.
OneTalk(a) ==
  /\ talk[a].at # "none" <=> a \in seen
  /\ talk[a].at \in {"syncing", "adding"} => Free(talk[a].obj, a)
  /\ pending[a] # NoTalk => Free(pending[a].obj, a) /\ talk[a].at = "done"
OneClaim(p) ==
  LET a == object[p.obj].addr IN
    /\ a \in Addrs /\ Free(p.obj, a)
    /\ talk[a].at = "done" /\ pending[a] = NoTalk
    /\ \A q \in adding : object[q.obj].addr = a => q = p

PickedOk(c) == client[c].at = "picked" => /\ client[c].obj \in Objects
                                          /\ object[client[c].obj].addr \in Addrs

\* No goroutine of the iteration is left.
Settled == /\ spawned = {} /\ adding = {}
           /\ \A a \in Addrs : talk[a].at \in {"none", "done"}
Rests == loop # "iterating" => Settled /\ \A a \in Addrs : pending[a] = NoTalk

\* An open object is in the cluster or in the hands of the iteration.
Kept(o) ==
  \/ \E a \in Addrs : servers[a] = o
  \/ \E a \in Addrs : talk[a].at \in {"syncing", "adding"} /\ talk[a].obj = o
  \/ \E a \in Addrs : pending[a] # NoTalk /\ pending[a].obj = o
  \/ \E p \in adding : p.obj = o
OpenKept == \A o \in Objects : object[o].open => Kept(o)

\* The loop has a reference of its own while it synchronises.
RefsOk ==
  /\ OpenSessions \in 0 .. MaxSessions
  /\ loop \in {"iterating", "drain", "release"} => clusterRefs > 0
  /\ clusterRefs = 0 => \A o \in Objects : ~object[o].open
  /\ loop = "ended" => clusterRefs = 0

\* A master's word of an address is on its way, or remembered, or came too
\* late, or to nothing.
Named(b) == \/ <<b, TRUE>> \in spawned
            \/ b \in addIfFound
            \/ b \in unresolved
            \/ talk[b].at = "done" /\ pending[b] = NoTalk
WordOut ==
  /\ (addIfFound # {} \/ \E b \in Addrs : <<b, TRUE>> \in spawned) => \A b \in Addrs : Named(b)
  /\ complete /\ ~mode.direct =>
       \/ \A b \in Addrs : Named(b)
       \/ \E a \in Addrs : talk[a].at = "adding" /\ talk[a].master
  /\ \A b \in Addrs : pending[b] # NoTalk => b \notin addIfFound /\ ~mode.direct

\* A member reached is in the cluster or on its way there.
OnItsWay(b) ==
  \/ b \in Present \cup unresolved
  \/ talk[b].at = "adding"
  \/ pending[b] # NoTalk
  \/ \E p \in adding : object[p.obj].addr = b
  \/ Settled /\ ~complete
ReachedKept ==
  /\ \A b \in reached : talk[b].at \in {"adding", "done"}
  /\ loop \in {"iterating", "drain"} => \A b \in reached : OnItsWay(b)

ClusterIInv ==
  /\ ClusterTypeOK /\ LocalsOk
  /\ \A a \in Addrs : OneTalk(a)
  /\ \A p \in adding : OneClaim(p)
  /\ \A c \in Acquirers : PickedOk(c)
  /\ Rests
  /\ OpenKept
  /\ RefsOk
  /\ MastersKnown
  /\ WordOut
  /\ ReachedKept
  /\ NoClusterPanic

----------------------------------------------------------------------------
(* The initial states, and what the invariant says at once                 *)

Object == [addr : Addrs \cup {Nil}, open : BOOLEAN, master : BOOLEAN, abended : BOOLEAN]
Loops == {"start", "iterating", "drain", "release", "tick", "select", "ended"}

LEMMA InitIInv == ASSUME ClusterInit PROVE ClusterIInv
<1> USE ClusterAssumption DEF ClusterInit
<1>1. NoTalk \in Talk /\ NoCall \in Call /\ UnusedObject \in Object
  BY DEF NoTalk, Talk, NoCall, Call, UnusedObject, Object
<1>2. /\ servers \in [Addrs -> Objects \cup {Nil}] /\ \A a \in Addrs : servers[a] = Nil
      /\ object \in [Objects -> Object] /\ \A o \in Objects : object[o] = UnusedObject
      /\ talk \in [Addrs -> Talk] /\ \A a \in Addrs : talk[a] = NoTalk
      /\ pending \in [Addrs -> Talk] /\ \A a \in Addrs : pending[a] = NoTalk
      /\ client \in [Acquirers -> Call] /\ \A c \in Acquirers : client[c] = NoCall
  BY <1>1
<1>3. ClusterTypeOK
  BY <1>2 DEF ClusterTypeOK, Object
<1>4. LocalsOk
  BY <1>2 DEF LocalsOk
<1>5. \A a \in Addrs : OneTalk(a)
  BY <1>2 DEF OneTalk, NoTalk
<1>6. \A c \in Acquirers : PickedOk(c)
  BY <1>2 DEF PickedOk, NoCall
<1>7. \A o \in Objects : ~object[o].open
  BY <1>2 DEF UnusedObject
<1>8. Rests /\ OpenKept /\ RefsOk
  BY <1>2, <1>7 DEF Rests, Settled, NoTalk, OpenKept, RefsOk, OpenSessions
<1>9. MastersKnown
  BY <1>2 DEF MastersKnown, Present
<1>10. WordOut /\ ReachedKept
  BY <1>2 DEF WordOut, ReachedKept
<1>. QED
  BY <1>3, <1>4, <1>5, <1>6, <1>8, <1>9, <1>10 DEF ClusterIInv, NoClusterPanic

LEMMA IInvImplies == ASSUME ClusterIInv PROVE ClusterInv
<1> USE DEF ClusterIInv
<1>1. ASSUME loop # "iterating", NEW o \in Objects, object[o].open
      PROVE  o \in {servers[a] : a \in Addrs}
  <2>1. Settled /\ \A a \in Addrs : pending[a] = NoTalk
    BY <1>1 DEF Rests
  <2>2. Kept(o)
    BY <1>1 DEF OpenKept
  <2>. QED
    BY <2>1, <2>2 DEF Settled, Kept
<1>2. NoServerForgotten
  BY <1>1 DEF NoServerForgotten, RefsOk
<1>3. SyncFindsAll
  <2> SUFFICES ASSUME loop = "drain", complete, NEW b \in reached
               PROVE  b \in Present \cup unresolved
    BY DEF SyncFindsAll
  <2>1. Settled /\ pending[b] = NoTalk /\ b \in Addrs
    BY DEF Rests, LocalsOk
  <2>2. OnItsWay(b)
    BY DEF ReachedKept
  <2>. QED
    BY <2>1, <2>2 DEF OnItsWay, Settled
<1>. QED
  BY <1>2, <1>3 DEF ClusterInv

LEMMA RefsRange ==
  ASSUME clusterRefs \in Nat, OpenSessions \in 0 .. MaxSessions
  PROVE  clusterRefs \in 0 .. MaxSessions + 1
BY ClusterAssumption DEF OpenSessions

----------------------------------------------------------------------------
(* Steps that leave the iteration and the cluster's servers alone, but for *)
(* members that are no longer counted as reached and servers that close    *)

LEMMA Frame ==
  ASSUME ClusterIInv,
         UNCHANGED <<mode, servers, masters, spawned, talk, pending, adding, addIfFound, seen,
                     complete, unresolved, clusterPanic>>,
         reached' \subseteq reached,
         role' \in [Addrs -> {"master", "slave", "down"}],
         object' \in [Objects -> Object],
         \A o \in Objects : /\ object'[o].addr = object[o].addr
                            /\ object'[o].master = object[o].master
                            /\ object'[o].open => object[o].open,
         loop' \in Loops,
         loop' # "iterating" => Settled /\ \A a \in Addrs : pending[a] = NoTalk,
         loop' \in {"iterating", "drain"} => loop \in {"iterating", "drain"},
         client' \in [Acquirers -> Call], \A c \in Acquirers : PickedOk(c)',
         dynaSeeds' \subseteq Addrs, clusterRefs' \in Nat, RefsOk'
  PROVE  ClusterIInv'
<1> USE DEF ClusterIInv
<1>1. /\ servers \in [Addrs -> Objects \cup {Nil}]
      /\ \A a \in Addrs : servers[a] # Nil => servers[a] \in Objects /\ object[servers[a]].addr = a
  BY DEF ClusterTypeOK
<1>2. ClusterTypeOK'
  <2>1. clusterRefs' \in 0 .. MaxSessions + 1
    BY RefsRange, ClusterAssumption DEF RefsOk, OpenSessions
  <2>. QED
    BY <1>1, <2>1 DEF ClusterTypeOK, Object, Loops
<1>3. LocalsOk'
  BY DEF LocalsOk
<1>4. \A a \in Addrs, o \in Objects : Free(o, a) => Free(o, a)'
  BY DEF Free
<1>5. \A a \in Addrs : OneTalk(a)'
  BY <1>4 DEF OneTalk, Free
<1>6. \A p \in adding' : OneClaim(p)'
  BY <1>4 DEF OneClaim, Free
<1>7. Settled' <=> Settled
  BY DEF Settled
<1>8. Rests' /\ OpenKept'
  BY <1>7 DEF Rests, OpenKept, Kept
<1>9. MastersKnown'
  BY <1>1 DEF MastersKnown, Present
<1>10. WordOut'
  BY DEF WordOut, Named
<1>11. ReachedKept'
  <2>1. ASSUME NEW b \in reached, OnItsWay(b) PROVE OnItsWay(b)'
    <3>1. \A p \in adding : p.obj \in Objects
      BY DEF OneClaim, Free
    <3>. QED
      BY <1>7, <2>1, <3>1 DEF OnItsWay, Present
  <2>. QED
    BY <2>1 DEF ReachedKept
<1>. QED
  BY <1>2, <1>3, <1>5, <1>6, <1>8, <1>9, <1>10, <1>11 DEF NoClusterPanic

LEMMA RefsStay ==
  ASSUME RefsOk, clusterRefs' = clusterRefs, loop' = loop,
         \A o \in Objects : object'[o].open => object[o].open
  PROVE  RefsOk'
BY DEF RefsOk, OpenSessions

\* What only clients do.
LEMMA ClientsMove ==
  ASSUME ClusterIInv,
         UNCHANGED <<role, mode, known, clusterRefs, dynaSeeds, loop, iteration, clusterPanic>>,
         client' \in [Acquirers -> Call], \A c \in Acquirers : PickedOk(c)'
  PROVE  ClusterIInv'
<1> USE DEF ClusterIInv, known, iteration
<1>1. /\ role' \in [Addrs -> {"master", "slave", "down"}] /\ object' \in [Objects -> Object]
      /\ loop' \in Loops /\ dynaSeeds' \subseteq Addrs /\ clusterRefs' \in Nat
  BY DEF ClusterTypeOK, LocalsOk, Object, Loops
<1>2. RefsOk'
  BY RefsStay
<1>3. loop' # "iterating" => Settled /\ \A a \in Addrs : pending[a] = NoTalk
  BY DEF Rests
<1>. QED
  BY <1>1, <1>2, <1>3, Frame

\* A client is somewhere else, and where it was a server it still is.
LEMMA Becomes ==
  ASSUME LocalsOk, \A d \in Acquirers : PickedOk(d), NEW c \in Acquirers, NEW r \in Call,
         Become(c, r), \A o \in Objects : object'[o].addr = object[o].addr,
         r.at = "picked" => r.obj \in Objects /\ object[r.obj].addr \in Addrs
  PROVE  client' \in [Acquirers -> Call] /\ \A d \in Acquirers : PickedOk(d)'
<1>1. client \in [Acquirers -> Call] /\ client' = [client EXCEPT ![c] = r]
  BY DEF LocalsOk, Become
<1>2. /\ client' \in [Acquirers -> Call] /\ client'[c] = r
      /\ \A d \in Acquirers \ {c} : client'[d] = client[d]
  BY <1>1
<1>3. ASSUME NEW d \in Acquirers PROVE PickedOk(d)'
  <2>1. CASE d = c
    BY <1>2, <2>1 DEF PickedOk
  <2>2. CASE d # c
    <3>1. client'[d] = client[d] /\ PickedOk(d)
      BY <1>2, <2>2
    <3>. QED
      BY <3>1 DEF PickedOk
  <2>. QED
    BY <2>1, <2>2
<1>. QED
  BY <1>2, <1>3

\* Those who wait are woken, and nothing else of them changes.
LEMMA WokenOk ==
  ASSUME LocalsOk, \A d \in Acquirers : PickedOk(d)
  PROVE  /\ Woken \in [Acquirers -> Call]
         /\ \A d \in Acquirers : Woken[d].at = "picked" => /\ Woken[d].obj \in Objects
                                                           /\ object[Woken[d].obj].addr \in Addrs
         /\ \A d \in Acquirers : Woken[d].at = "picked" => Woken[d] = client[d]
<1>1. ASSUME NEW d \in Acquirers
      PROVE  /\ client[d] \in Call /\ [client[d] EXCEPT !.at = "checking"] \in Call
             /\ [client[d] EXCEPT !.at = "checking"].at = "checking"
  BY DEF LocalsOk, Call
<1>2. ASSUME NEW d \in Acquirers
      PROVE  Woken[d] = IF client[d].at = "waiting" THEN [client[d] EXCEPT !.at = "checking"]
                                                    ELSE client[d]
  BY DEF Woken
<1>3. Woken \in [Acquirers -> Call]
  BY <1>1 DEF Woken
<1>4. \A d \in Acquirers : Woken[d].at = "picked" => Woken[d] = client[d]
  BY <1>1, <1>2
<1>5. ASSUME NEW d \in Acquirers, Woken[d].at = "picked"
      PROVE  Woken[d].obj \in Objects /\ object[Woken[d].obj].addr \in Addrs
  BY <1>4, <1>5 DEF PickedOk
<1>. QED
  BY <1>3, <1>4, <1>5

LEMMA CallClusterKeepsIInv ==
  ASSUME ClusterIInv, NEW c \in Acquirers, NEW slaveOk \in BOOLEAN, CallCluster(c, slaveOk)
  PROVE  ClusterIInv'
<1> DEFINE r == [NoCall EXCEPT !.at = "checking", !.slaveOk = slaveOk]
<1>1. r \in Call /\ r.at = "checking"
  <2>1. [NoCall EXCEPT !.at = "checking"] \in Call
    BY DEF NoCall, Call
  <2>. QED
    BY <2>1 DEF NoCall, Call
<1> HIDE DEF r
<1>2. Become(c, r) /\ UNCHANGED <<world, known, clusterRefs, dynaSeeds, loop, iteration, clusterPanic>>
  BY DEF CallCluster, r
<1>3. UNCHANGED <<role, mode, known, clusterRefs, dynaSeeds, loop, iteration, clusterPanic>>
  BY <1>2 DEF world
<1>4. LocalsOk /\ (\A d \in Acquirers : PickedOk(d)) /\ \A o \in Objects : object'[o].addr = object[o].addr
  BY <1>2 DEF ClusterIInv, known
<1>5. client' \in [Acquirers -> Call] /\ \A d \in Acquirers : PickedOk(d)'
  BY <1>1, <1>2, <1>4, Becomes
<1>. QED
  BY <1>3, <1>5, ClientsMove

LEMMA ClientMovesKeepIInv ==
  ASSUME ClusterIInv, NEW c \in Acquirers,
         \/ WaitForServers(c) \/ NoReachableServers(c) \/ Pick(c) \/ Retry(c)
         \/ LimitReached(c) \/ GotSocket(c) \/ TimePasses(c)
  PROVE  ClusterIInv'
<1>1. client[c] \in Call
  BY DEF ClusterIInv, LocalsOk
<1>2. \A r \in Call, at \in {"checking", "waiting", "picked", "sleeping"} :
        /\ [r EXCEPT !.at = at] \in Call /\ [r EXCEPT !.at = at].at = at
        /\ [r EXCEPT !.at = at, !.started = TRUE] \in Call
        /\ [r EXCEPT !.at = at, !.started = TRUE].at = at
        /\ [r EXCEPT !.late = TRUE] \in Call /\ [r EXCEPT !.late = TRUE].at = r.at
        /\ [r EXCEPT !.late = TRUE].obj = r.obj
  BY DEF Call
<1>3. NoCall \in Call /\ NoCall.at = "idle"
  BY DEF NoCall, Call
<1>4. PICK r \in Call : /\ Become(c, r)
                        /\ r.at = "picked" => r.obj \in Objects /\ object[r.obj].addr \in Addrs
  <2>1. CASE WaitForServers(c)
    <3> DEFINE r == [client[c] EXCEPT !.at = "waiting", !.started = TRUE]
    <3>1. r \in Call /\ r.at = "waiting"
      BY <1>1, <1>2, <1>3
    <3>2. Become(c, r)
      BY <2>1 DEF WaitForServers
    <3> HIDE DEF r
    <3>. QED
      BY <3>1, <3>2
  <2>2. CASE NoReachableServers(c)
    BY <1>3, <2>2 DEF NoReachableServers
  <2>3. CASE Pick(c) /\ TagsMissed /\ client[c].slaveOk
    <3> DEFINE r == [client[c] EXCEPT !.at = "sleeping"]
    <3>1. r \in Call /\ r.at = "sleeping"
      BY <1>1, <1>2
    <3>2. Become(c, r)
      BY <2>3 DEF Pick
    <3> HIDE DEF r
    <3>. QED
      BY <3>1, <3>2
  <2>4. CASE Pick(c) /\ ~(TagsMissed /\ client[c].slaveOk)
    <3>1. PICK a \in IF client[c].slaveOk THEN Present ELSE masters :
            Become(c, [client[c] EXCEPT !.at = "picked", !.obj = servers[a]])
      BY <2>4 DEF Pick
    <3>2. a \in Addrs /\ servers[a] # Nil
      BY <3>1 DEF ClusterIInv, MastersKnown, Present
    <3>3. servers[a] \in Objects /\ object[servers[a]].addr = a
      BY <3>2 DEF ClusterIInv, ClusterTypeOK
    <3> DEFINE r == [client[c] EXCEPT !.at = "picked", !.obj = servers[a]]
    <3>4. r \in Call /\ r.obj = servers[a]
      BY <1>1, <3>3 DEF Call
    <3>5. Become(c, r)
      BY <3>1
    <3> HIDE DEF r
    <3>. QED
      BY <3>2, <3>3, <3>4, <3>5
  <2>5. CASE Retry(c)
    <3> DEFINE r == [client[c] EXCEPT !.at = "checking", !.obj = Nil]
    <3>1. r \in Call /\ r.at = "checking"
      BY <1>1 DEF Call
    <3>2. Become(c, r)
      BY <2>5 DEF Retry
    <3> HIDE DEF r
    <3>. QED
      BY <3>1, <3>2
  <2>6. CASE LimitReached(c)
    <3> DEFINE r == [client[c] EXCEPT !.at = "sleeping"]
    <3>1. r \in Call /\ r.at = "sleeping"
      BY <1>1, <1>2, <1>3
    <3>2. Become(c, r)
      BY <2>6 DEF LimitReached
    <3> HIDE DEF r
    <3>. QED
      BY <3>1, <3>2
  <2>7. CASE GotSocket(c)
    <3> DEFINE r == [client[c] EXCEPT !.at = "sleeping"]
    <3>1. r \in Call /\ r.at = "sleeping"
      BY <1>1, <1>2
    <3>2. Become(c, r) \/ Become(c, NoCall)
      BY <2>7 DEF GotSocket
    <3> HIDE DEF r
    <3>. QED
      BY <1>3, <3>1, <3>2
  <2>8. CASE TimePasses(c)
    <3> DEFINE r == [client[c] EXCEPT !.late = TRUE]
    <3>1. r \in Call /\ r.at = client[c].at /\ r.obj = client[c].obj
      BY <1>1, <1>2
    <3>2. Become(c, r)
      BY <2>8 DEF TimePasses
    <3>3. PickedOk(c)
      BY DEF ClusterIInv
    <3> HIDE DEF r
    <3>. QED
      BY <3>1, <3>2, <3>3 DEF PickedOk
  <2>. QED
    BY <2>1, <2>2, <2>3, <2>4, <2>5, <2>6, <2>7, <2>8
<1>5. UNCHANGED <<role, mode, known, clusterRefs, dynaSeeds, loop, iteration, clusterPanic>>
  BY DEF WaitForServers, NoReachableServers, Pick, Retry, LimitReached, GotSocket, TimePasses, world
<1>6. LocalsOk /\ (\A d \in Acquirers : PickedOk(d)) /\ \A o \in Objects : object'[o].addr = object[o].addr
  BY <1>5 DEF ClusterIInv, known
<1>7. client' \in [Acquirers -> Call] /\ \A d \in Acquirers : PickedOk(d)'
  BY <1>4, <1>6, Becomes
<1>. QED
  BY <1>5, <1>7, ClientsMove

LEMMA HiccupKeepsIInv ==
  ASSUME ClusterIInv, NEW a \in Addrs, Hiccup(a)
  PROVE  ClusterIInv'
<1>1. /\ UNCHANGED <<role, mode, known, clusterRefs, dynaSeeds, loop, iteration, clusterPanic>>
      /\ client' = Woken
  BY DEF Hiccup, world
<1>2. client' \in [Acquirers -> Call] /\ \A d \in Acquirers : PickedOk(d)'
  BY <1>1, WokenOk DEF ClusterIInv, PickedOk, known
<1>. QED
  BY <1>1, <1>2, ClientsMove

----------------------------------------------------------------------------
(* The loop outside of an iteration, and the references                    *)

\* A step of the loop that touches neither servers nor references.
LEMMA LoopMoves ==
  ASSUME ClusterIInv, UNCHANGED <<role, mode, known, clusterRefs, iteration, clusterPanic>>,
         client' \in [Acquirers -> Call], \A c \in Acquirers : PickedOk(c)',
         dynaSeeds' \subseteq Addrs,
         \/ /\ loop = "iterating" /\ loop' = "drain"
            /\ AllDone /\ \A a \in Addrs : pending[a] = NoTalk
         \/ loop = "drain" /\ loop' = "release"
         \/ loop \in {"tick", "select"} /\ loop' \in {"start", "select"}
         \/ loop \in {"tick", "start"} /\ loop' = "ended" /\ clusterRefs = 0
  PROVE  ClusterIInv'
<1> USE DEF ClusterIInv, known, iteration
<1>1. /\ role' \in [Addrs -> {"master", "slave", "down"}] /\ object' \in [Objects -> Object]
      /\ loop' \in Loops /\ clusterRefs' \in Nat
  BY DEF ClusterTypeOK, LocalsOk, Object, Loops
<1>2. Settled /\ \A a \in Addrs : pending[a] = NoTalk
  BY DEF Rests, AllDone, Settled
<1>3. loop' \in {"iterating", "drain"} => loop \in {"iterating", "drain"}
  OBVIOUS
<1>4. RefsOk'
  BY DEF RefsOk, OpenSessions
<1>. QED
  BY <1>1, <1>2, <1>3, <1>4, Frame

LEMMA LoopStepsKeepIInv ==
  ASSUME ClusterIInv,
         FinishIteration \/ Drain \/ Select \/ Tick \/ (LoopStart /\ clusterRefs = 0)
  PROVE  ClusterIInv'
<1>1. UNCHANGED <<role, mode, known, clusterRefs, iteration, clusterPanic>>
  BY DEF FinishIteration, Drain, Select, Tick, LoopStart, world
<1>2. dynaSeeds' \subseteq Addrs
  BY DEF FinishIteration, Drain, Select, Tick, LoopStart, ClusterIInv, LocalsOk, Present
<1>3. client' \in [Acquirers -> Call] /\ \A c \in Acquirers : PickedOk(c)'
  <2>1. CASE client' = client
    BY <1>1, <2>1 DEF ClusterIInv, LocalsOk, PickedOk, known
  <2>2. CASE client' = [c \in Acquirers |-> [Woken[c] EXCEPT !.counted = client[c].started]]
    <3>1. /\ Woken \in [Acquirers -> Call]
          /\ \A d \in Acquirers : Woken[d].at = "picked" => /\ Woken[d].obj \in Objects
                                                            /\ object[Woken[d].obj].addr \in Addrs
      BY WokenOk DEF ClusterIInv
    <3>2. ASSUME NEW c \in Acquirers
          PROVE  client'[c] \in Call /\ client'[c].at = Woken[c].at /\ client'[c].obj = Woken[c].obj
      <4>1. Woken[c] \in Call /\ client[c].started \in BOOLEAN
        BY <3>1 DEF ClusterIInv, LocalsOk, Call
      <4>2. client'[c] = [Woken[c] EXCEPT !.counted = client[c].started]
        BY <2>2
      <4> DEFINE w == Woken[c]
                 b == client[c].started
      <4>3. w \in Call /\ b \in BOOLEAN /\ client'[c] = [w EXCEPT !.counted = b]
        BY <4>1, <4>2
      <4> HIDE DEF w, b
      <4>4. client'[c] \in Call /\ client'[c].at = w.at /\ client'[c].obj = w.obj
        BY <4>3 DEF Call
      <4>. QED
        BY <4>4 DEF w
    <3>3. client' \in [Acquirers -> Call]
      BY <2>2, <3>2
    <3>4. ASSUME NEW c \in Acquirers PROVE PickedOk(c)'
      BY <1>1, <3>1, <3>2 DEF PickedOk, known
    <3>. QED
      BY <3>3, <3>4
  <2>. QED
    BY <2>1, <2>2 DEF FinishIteration, Drain, Select, Tick, LoopStart
<1>4. \/ /\ loop = "iterating" /\ loop' = "drain"
         /\ AllDone /\ \A a \in Addrs : pending[a] = NoTalk
      \/ loop = "drain" /\ loop' = "release"
      \/ loop \in {"tick", "select"} /\ loop' \in {"start", "select"}
      \/ loop \in {"tick", "start"} /\ loop' = "ended" /\ clusterRefs = 0
  BY DEF FinishIteration, Drain, Select, Tick, LoopStart, AllDone
<1>. QED
  BY <1>1, <1>2, <1>3, <1>4, LoopMoves

\* An iteration begins with nothing under way and nothing heard.
LEMMA LoopStartKeepsIInv ==
  ASSUME ClusterIInv, LoopStart, clusterRefs # 0
  PROVE  ClusterIInv'
<1> USE DEF ClusterIInv
<1>1. /\ loop = "start" /\ loop' = "iterating" /\ clusterRefs' = clusterRefs + 1
      /\ spawned' = (Seeds \cup dynaSeeds \cup Present) \X {FALSE}
      /\ talk' = [a \in Addrs |-> NoTalk] /\ pending' = [a \in Addrs |-> NoTalk]
      /\ adding' = {} /\ addIfFound' = {} /\ seen' = {} /\ reached' = {} /\ unresolved' = {}
      /\ complete' = FALSE
      /\ UNCHANGED <<role, mode, servers, masters, object, dynaSeeds, client, clusterPanic>>
  BY DEF LoopStart, world, known
<1>2. NoTalk \in Talk /\ NoTalk.at = "none"
  BY DEF NoTalk, Talk
<1>3. /\ talk' \in [Addrs -> Talk] /\ pending' \in [Addrs -> Talk]
      /\ \A a \in Addrs : talk'[a] = NoTalk /\ pending'[a] = NoTalk
  BY <1>1, <1>2
<1>4. RefsOk' /\ clusterRefs' \in Nat /\ clusterRefs' \in 0 .. MaxSessions + 1
  <2>1. clusterRefs \in Nat \ {0} /\ OpenSessions = clusterRefs /\ OpenSessions' = clusterRefs
    BY <1>1 DEF LocalsOk, OpenSessions
  <2>. QED
    BY <1>1, <2>1, ClusterAssumption DEF RefsOk
<1>5. ClusterTypeOK'
  BY <1>1, <1>4 DEF ClusterTypeOK
<1>6. LocalsOk'
  <2>1. spawned' \subseteq Addrs \X BOOLEAN
    BY <1>1, ClusterAssumption DEF LocalsOk, Present
  <2>. QED
    BY <1>1, <1>3, <1>4, <2>1 DEF LocalsOk
<1>7. \A a \in Addrs : OneTalk(a)'
  BY <1>1, <1>2, <1>3 DEF OneTalk
<1>8. \A c \in Acquirers : PickedOk(c)'
  BY <1>1 DEF PickedOk
<1>9. OpenKept'
  <2>1. ASSUME NEW o \in Objects, object[o].open PROVE \E a \in Addrs : servers[a] = o
    <3>1. Kept(o) /\ Settled /\ \A a \in Addrs : pending[a] = NoTalk
      BY <1>1, <2>1 DEF OpenKept, Rests
    <3>. QED
      BY <3>1 DEF Kept, Settled
  <2>. QED
    BY <1>1, <2>1 DEF OpenKept, Kept
<1>10. Rests' /\ MastersKnown' /\ ReachedKept'
  BY <1>1 DEF Rests, MastersKnown, Present, ReachedKept
<1>11. WordOut'
  BY <1>1, <1>3 DEF WordOut
<1>. QED
  BY <1>1, <1>4, <1>5, <1>6, <1>7, <1>8, <1>9, <1>10, <1>11 DEF NoClusterPanic

\* The last reference closes every server, as all open ones are in the
\* cluster whenever the loop does not hold a reference.
LEMMA Released ==
  ASSUME ClusterIInv, loop # "iterating", clusterRefs > 0, ReleaseCluster
  PROVE  /\ clusterRefs' = clusterRefs - 1 /\ clusterPanic' = clusterPanic
         /\ object' \in [Objects -> Object]
         /\ \A o \in Objects : /\ object'[o].addr = object[o].addr
                               /\ object'[o].master = object[o].master
                               /\ object'[o].open => object[o].open
         /\ clusterRefs' = 0 => \A o \in Objects : ~object'[o].open
<1> USE DEF ClusterIInv
<1>1. clusterRefs \in Nat /\ object \in [Objects -> Object]
  BY DEF LocalsOk, ClusterTypeOK, Object
<1>2. clusterRefs' = clusterRefs - 1 /\ clusterPanic' = clusterPanic
  BY <1>1 DEF ReleaseCluster
<1>3. CASE clusterRefs = 1
  <2> DEFINE inUse == {servers[a] : a \in Addrs}
  <2>1. object' = [o \in Objects |-> [object[o] EXCEPT !.open = @ /\ o \notin inUse]]
    BY <1>1, <1>3 DEF ReleaseCluster
  <2>2. ASSUME NEW o \in Objects, object[o].open PROVE o \in inUse
    <3>1. Kept(o) /\ Settled /\ \A a \in Addrs : pending[a] = NoTalk
      BY <2>2 DEF OpenKept, Rests
    <3>. QED
      BY <3>1 DEF Kept, Settled
  <2> HIDE DEF inUse
  <2>3. ASSUME NEW o \in Objects
        PROVE  /\ object'[o] \in Object /\ object'[o].addr = object[o].addr
               /\ object'[o].master = object[o].master /\ ~object'[o].open
    <3>1. object[o] \in Object
      BY <1>1
    <3>2. object'[o] = [object[o] EXCEPT !.open = @ /\ o \notin inUse]
      BY <2>1
    <3>3. ~(object[o].open /\ o \notin inUse)
      BY <2>2
    <3>4. object'[o] = [object[o] EXCEPT !.open = FALSE]
      BY <3>1, <3>2, <3>3 DEF Object
    <3>. QED
      BY <3>1, <3>4 DEF Object
  <2>4. object' \in [Objects -> Object]
    BY <2>1, <2>3
  <2>. QED
    BY <1>2, <2>3, <2>4
<1>4. CASE clusterRefs # 1
  BY <1>1, <1>2, <1>4 DEF ReleaseCluster
<1>. QED
  BY <1>3, <1>4

LEMMA LoopReleaseKeepsIInv ==
  ASSUME ClusterIInv, LoopRelease
  PROVE  ClusterIInv'
<1> USE DEF ClusterIInv
<1>1. /\ loop = "release" /\ loop' = "tick" /\ ReleaseCluster /\ clusterRefs > 0
      /\ UNCHANGED <<role, mode, servers, masters, dynaSeeds, iteration, client>>
  BY DEF LoopRelease, world, RefsOk
<1>2. /\ clusterRefs' = clusterRefs - 1 /\ clusterPanic' = clusterPanic
      /\ object' \in [Objects -> Object]
      /\ \A o \in Objects : /\ object'[o].addr = object[o].addr
                            /\ object'[o].master = object[o].master
                            /\ object'[o].open => object[o].open
      /\ clusterRefs' = 0 => \A o \in Objects : ~object'[o].open
  BY <1>1, Released
<1>3. RefsOk' /\ clusterRefs' \in Nat
  <2>1. clusterRefs' \in Nat /\ OpenSessions' = OpenSessions
    BY <1>1, <1>2 DEF LocalsOk, OpenSessions
  <2>. QED
    BY <1>1, <1>2, <2>1 DEF RefsOk
<1>4. /\ role' \in [Addrs -> {"master", "slave", "down"}] /\ dynaSeeds' \subseteq Addrs
      /\ client' \in [Acquirers -> Call] /\ \A c \in Acquirers : PickedOk(c)'
  BY <1>1, <1>2 DEF ClusterTypeOK, LocalsOk, PickedOk
<1>5. Settled /\ \A a \in Addrs : pending[a] = NoTalk
  BY <1>1 DEF Rests
<1>. QED
  BY <1>1, <1>2, <1>3, <1>4, <1>5, Frame DEF iteration, Loops

LEMMA SessionClosesKeepsIInv ==
  ASSUME ClusterIInv, SessionCloses
  PROVE  ClusterIInv'
<1> USE DEF ClusterIInv
<1>1. /\ ReleaseCluster /\ OpenSessions > Cardinality({c \in Acquirers : client[c].at # "idle"})
      /\ UNCHANGED <<role, mode, servers, masters, dynaSeeds, loop, iteration, client>>
  BY DEF SessionCloses, world
<1>2. Cardinality({c \in Acquirers : client[c].at # "idle"}) \in Nat
  BY ClusterAssumption, FS_Subset, FS_CardinalityType
<1>3. /\ OpenSessions \in Nat \ {0} /\ clusterRefs \in Nat \ {0}
      /\ loop \in {"iterating", "drain", "release"} => clusterRefs > 1
      /\ clusterRefs' = clusterRefs - 1 /\ clusterPanic' = clusterPanic
  <2>1. OpenSessions \in Nat \ {0} /\ clusterRefs \in Nat
    BY <1>1, <1>2, ClusterAssumption DEF RefsOk, LocalsOk
  <2>2. clusterRefs > 0 /\ (loop \in {"iterating", "drain", "release"} => clusterRefs > 1)
    BY <2>1 DEF OpenSessions
  <2>. QED
    BY <1>1, <2>1, <2>2 DEF ReleaseCluster
<1>4. /\ object' \in [Objects -> Object]
      /\ \A o \in Objects : /\ object'[o].addr = object[o].addr
                            /\ object'[o].master = object[o].master
                            /\ object'[o].open => object[o].open
      /\ clusterRefs' = 0 => \A o \in Objects : ~object'[o].open
  <2>1. CASE loop = "iterating"
    <3>1. object' = object
      BY <1>1, <1>3, <2>1 DEF ReleaseCluster
    <3>. QED
      BY <1>3, <2>1, <3>1 DEF ClusterTypeOK, Object
  <2>2. CASE loop # "iterating"
    BY <1>1, <1>3, <2>2, Released
  <2>. QED
    BY <2>1, <2>2
<1>5. RefsOk' /\ clusterRefs' \in Nat
  <2>1. clusterRefs' \in Nat /\ OpenSessions' = OpenSessions - 1
    BY <1>1, <1>3 DEF OpenSessions
  <2>2. OpenSessions' \in 0 .. MaxSessions
    BY <1>3, <2>1, ClusterAssumption DEF RefsOk
  <2>. QED
    BY <1>1, <1>3, <1>4, <2>1, <2>2 DEF RefsOk
<1>6. /\ role' \in [Addrs -> {"master", "slave", "down"}] /\ dynaSeeds' \subseteq Addrs
      /\ client' \in [Acquirers -> Call] /\ (\A c \in Acquirers : PickedOk(c)') /\ loop' \in Loops
  BY <1>1, <1>4 DEF ClusterTypeOK, LocalsOk, PickedOk, Loops
<1>7. loop' # "iterating" => Settled /\ \A a \in Addrs : pending[a] = NoTalk
  BY <1>1 DEF Rests
<1>. QED
  BY <1>1, <1>3, <1>4, <1>5, <1>6, <1>7, Frame DEF iteration

LEMMA AcquireClusterKeepsIInv ==
  ASSUME ClusterIInv, AcquireCluster
  PROVE  ClusterIInv'
<1> USE DEF ClusterIInv
<1>1. /\ OpenSessions > 0 /\ OpenSessions < MaxSessions /\ clusterRefs' = clusterRefs + 1
      /\ UNCHANGED <<role, mode, known, dynaSeeds, loop, iteration, client, clusterPanic>>
  BY DEF AcquireCluster, world
<1>2. RefsOk' /\ clusterRefs' \in Nat
  <2>1. clusterRefs \in Nat /\ OpenSessions' = OpenSessions + 1 /\ clusterRefs > 0
    BY <1>1 DEF LocalsOk, OpenSessions
  <2>. QED
    BY <1>1, <2>1, ClusterAssumption DEF RefsOk
<1>3. /\ role' \in [Addrs -> {"master", "slave", "down"}] /\ dynaSeeds' \subseteq Addrs
      /\ client' \in [Acquirers -> Call] /\ (\A c \in Acquirers : PickedOk(c)') /\ loop' \in Loops
      /\ object' \in [Objects -> Object]
  BY <1>1 DEF ClusterTypeOK, LocalsOk, PickedOk, Loops, Object, known
<1>4. loop' # "iterating" => Settled /\ \A a \in Addrs : pending[a] = NoTalk
  BY <1>1 DEF Rests
<1>. QED
  BY <1>1, <1>2, <1>3, <1>4, Frame DEF iteration, known

LEMMA ChangeKeepsIInv ==
  ASSUME ClusterIInv, NEW a \in Addrs, Change(a)
  PROVE  ClusterIInv'
<1> USE DEF ClusterIInv
<1>1. /\ UNCHANGED <<mode, servers, masters, clusterRefs, dynaSeeds, loop, spawned, talk, pending,
                     adding, addIfFound, seen, unresolved, complete, client, clusterPanic>>
      /\ reached' \subseteq reached
      /\ object' = [o \in Objects |-> IF object[o].addr = a /\ object[o].open
                                      THEN [object[o] EXCEPT !.abended = TRUE] ELSE object[o]]
      /\ \E r \in {"master", "slave", "down"} : role' = [role EXCEPT ![a] = r]
  BY DEF Change
<1>2. role' \in [Addrs -> {"master", "slave", "down"}]
  BY <1>1 DEF ClusterTypeOK
<1>3. ASSUME NEW o \in Objects
      PROVE  /\ object'[o] \in Object /\ object'[o].addr = object[o].addr
             /\ object'[o].master = object[o].master /\ object'[o].open = object[o].open
  <2>1. object[o] \in Object
    BY DEF ClusterTypeOK, Object
  <2>2. object'[o] = object[o] \/ object'[o] = [object[o] EXCEPT !.abended = TRUE]
    BY <1>1
  <2>. QED
    BY <2>1, <2>2 DEF Object
<1>4. object' \in [Objects -> Object]
  BY <1>1, <1>3
<1>5. /\ dynaSeeds' \subseteq Addrs /\ client' \in [Acquirers -> Call] /\ loop' \in Loops
      /\ clusterRefs' \in Nat /\ \A c \in Acquirers : PickedOk(c)'
  BY <1>1, <1>3 DEF ClusterTypeOK, LocalsOk, PickedOk, Loops
<1>6. RefsOk'
  BY <1>1, <1>3, RefsStay
<1>7. loop' # "iterating" => Settled /\ \A b \in Addrs : pending[b] = NoTalk
  BY <1>1 DEF Rests
<1>. QED
  BY <1>1, <1>2, <1>3, <1>4, <1>5, <1>6, <1>7, Frame

----------------------------------------------------------------------------
(* What the shared functions do                                            *)

LEMMA RemoveServerDoes ==
  ASSUME ClusterTypeOK, MastersKnown, NEW a \in Addrs, NEW o \in Objects, object[o].addr = a,
         RemoveServer(o)
  PROVE  /\ servers' \in [Addrs -> Objects \cup {Nil}] /\ servers'[a] = Nil
         /\ \A b \in Addrs \ {a} : servers'[b] = servers[b]
         /\ object' \in [Objects -> Object]
         /\ \A x \in Objects : /\ object'[x].addr = object[x].addr
                               /\ object'[x].open => object[x].open /\ x # o /\ x # servers[a]
         /\ \A b \in Addrs : servers'[b] # Nil => object'[servers'[b]].addr = b
         /\ masters' \subseteq Addrs /\ MastersKnown'
<1>1. /\ servers \in [Addrs -> Objects \cup {Nil}] /\ masters \subseteq Addrs
      /\ object \in [Objects -> Object]
      /\ \A b \in Addrs : servers[b] # Nil => object[servers[b]].addr = b
  BY DEF ClusterTypeOK, Object
<1> DEFINE gone == {o, servers[a]}
<1>2. /\ masters' = masters \ {a} /\ servers' = [servers EXCEPT ![a] = Nil]
      /\ object' = [x \in Objects |-> IF x \in gone THEN [object[x] EXCEPT !.open = FALSE]
                                                    ELSE object[x]]
  BY DEF RemoveServer
<1>3. ASSUME NEW x \in Objects
      PROVE  /\ object'[x] \in Object /\ object'[x].addr = object[x].addr
             /\ object'[x].master = object[x].master
             /\ object'[x].open => object[x].open /\ x \notin gone
  <2>1. object[x] \in Object
    BY <1>1
  <2>2. object'[x] = IF x \in gone THEN [object[x] EXCEPT !.open = FALSE] ELSE object[x]
    BY <1>2
  <2> HIDE DEF gone
  <2>. QED
    BY <2>1, <2>2 DEF Object
<1>4. object' \in [Objects -> Object]
  <2> HIDE DEF gone
  <2>. QED
    BY <1>2, <1>3
<1>5. /\ servers' \in [Addrs -> Objects \cup {Nil}] /\ servers'[a] = Nil
      /\ \A b \in Addrs \ {a} : servers'[b] = servers[b]
  BY <1>1, <1>2
<1>6. \A b \in Addrs : servers'[b] # Nil => b # a /\ servers'[b] = servers[b] /\ servers'[b] \in Objects
  BY <1>1, <1>5
<1>7. MastersKnown'
  BY <1>2, <1>3, <1>5, <1>6 DEF MastersKnown, Present
<1>. QED
  BY <1>1, <1>2, <1>3, <1>4, <1>5, <1>6, <1>7

\* An object that is free for its address is added without a panic.
LEMMA AddServerDoes ==
  ASSUME ClusterTypeOK, MastersKnown, LocalsOk, \A d \in Acquirers : PickedOk(d),
         NEW a \in Addrs, NEW o, Free(o, a),
         NEW master \in BOOLEAN, NEW kind \in BOOLEAN, AddServer(o, master, kind)
  PROVE  /\ clusterPanic' = clusterPanic
         /\ servers' \in [Addrs -> Objects \cup {Nil}]
         /\ \A b \in Addrs \ {a} : servers'[b] = servers[b]
         /\ servers'[a] \in {servers[a], o} /\ (kind => servers'[a] = o)
         /\ servers'[a] = Nil => ~object'[o].open
         /\ object' \in [Objects -> Object]
         /\ \A x \in Objects : /\ object'[x].addr = object[x].addr
                               /\ object'[x].open => object[x].open
         /\ \A b \in Addrs : servers'[b] # Nil => object'[servers'[b]].addr = b
         /\ masters' \subseteq Addrs /\ MastersKnown'
         /\ client' \in [Acquirers -> Call] /\ \A d \in Acquirers : PickedOk(d)'
<1>1. /\ servers \in [Addrs -> Objects \cup {Nil}] /\ masters \subseteq Addrs
      /\ object \in [Objects -> Object]
      /\ \A b \in Addrs : servers[b] # Nil => servers[b] \in Objects /\ object[servers[b]].addr = b
      /\ Nil \notin Objects
  BY ClusterAssumption DEF ClusterTypeOK, Object
<1>2. o \in Objects /\ object[o].addr = a /\ servers[a] \in {Nil, o}
  BY DEF Free
<1>3. \/ /\ servers[a] = Nil /\ ~kind /\ object' = [object EXCEPT ![o].open = FALSE]
         /\ UNCHANGED <<servers, masters, client, clusterPanic>>
      \/ /\ servers[a] = Nil /\ kind /\ servers' = [servers EXCEPT ![a] = o]
         /\ object' = [object EXCEPT ![o].master = master]
         /\ masters' = IF master THEN masters \cup {a} ELSE masters
         /\ client' = Woken /\ UNCHANGED clusterPanic
      \/ /\ servers[a] = o
         /\ masters' = IF object[o].master = master THEN masters
                       ELSE IF master THEN masters \cup {a} ELSE masters \ {a}
         /\ object' = [object EXCEPT ![o].master = master]
         /\ client' = Woken /\ UNCHANGED <<servers, clusterPanic>>
  BY <1>2 DEF AddServer
<1>4. /\ object' \in [Objects -> Object]
      /\ \A x \in Objects : /\ object'[x].addr = object[x].addr
                            /\ object'[x].open => object[x].open
                            /\ x # o => object'[x] = object[x]
  <2>1. object[o] \in Object
    BY <1>1, <1>2
  <2>2. /\ [object[o] EXCEPT !.open = FALSE] \in Object
        /\ [object[o] EXCEPT !.open = FALSE].addr = object[o].addr
        /\ ~[object[o] EXCEPT !.open = FALSE].open
        /\ [object[o] EXCEPT !.master = master] \in Object
        /\ [object[o] EXCEPT !.master = master].addr = object[o].addr
        /\ [object[o] EXCEPT !.master = master].open = object[o].open
    BY <2>1 DEF Object
  <2>3. PICK r \in Object : /\ object' = [object EXCEPT ![o] = r]
                            /\ r.addr = object[o].addr /\ (r.open => object[o].open)
    BY <1>3, <2>2
  <2>. QED
    BY <1>1, <1>2, <2>3
<1>5. servers[a] = Nil /\ ~kind => ~object'[o].open
  <2>1. object[o] \in Object
    BY <1>1, <1>2
  <2>2. ~[object[o] EXCEPT !.open = FALSE].open
    BY <2>1 DEF Object
  <2>. QED
    BY <1>1, <1>2, <1>3, <2>2
<1>6. servers[a] # Nil \/ kind => object'[o].master = master
  <2>1. object[o] \in Object
    BY <1>1, <1>2
  <2>2. [object[o] EXCEPT !.master = master].master = master
    BY <2>1 DEF Object
  <2>. QED
    BY <1>1, <1>2, <1>3, <2>2
<1>7. /\ servers' \in [Addrs -> Objects \cup {Nil}]
      /\ \A b \in Addrs \ {a} : servers'[b] = servers[b]
      /\ servers'[a] = IF servers[a] = Nil /\ ~kind THEN Nil ELSE o
  BY <1>1, <1>2, <1>3
<1>8. ASSUME NEW b \in Addrs, servers'[b] # Nil
      PROVE  /\ servers'[b] \in Objects /\ object'[servers'[b]].addr = b
             /\ b # a => servers'[b] = servers[b] /\ servers'[b] # o
  BY <1>1, <1>2, <1>4, <1>7, <1>8
<1>9. MastersKnown'
  <2>1. masters = {b \in Addrs : servers[b] # Nil /\ object[servers[b]].master}
    BY DEF MastersKnown, Present
  <2>2. ASSUME NEW b \in Addrs
        PROVE  b \in masters' <=> servers'[b] # Nil /\ object'[servers'[b]].master
    <3>1. CASE b # a
      <4>1. b \in masters' <=> b \in masters
        BY <1>3, <3>1
      <4>2. servers'[b] = servers[b]
        BY <1>7, <3>1
      <4>3. servers[b] # Nil => object'[servers[b]] = object[servers[b]]
        BY <1>4, <1>8, <3>1, <4>2
      <4>. QED
        BY <2>1, <4>1, <4>2, <4>3
    <3>2. CASE b = a /\ servers[a] = Nil /\ ~kind
      BY <1>3, <1>7, <2>1, <3>2, <1>1, <1>2
    <3>3. CASE b = a /\ servers[a] = Nil /\ kind
      <4>1. masters' = IF master THEN masters \cup {a} ELSE masters
        BY <1>1, <1>2, <1>3, <3>3
      <4>2. a \notin masters
        BY <2>1, <3>3
      <4>. QED
        BY <1>1, <1>2, <1>6, <1>7, <3>3, <4>1, <4>2
    <3>4. CASE b = a /\ servers[a] = o
      <4>1. masters' = IF object[o].master = master THEN masters
                       ELSE IF master THEN masters \cup {a} ELSE masters \ {a}
        BY <1>1, <1>2, <1>3, <3>4
      <4>2. a \in masters <=> object[o].master
        BY <1>1, <1>2, <2>1, <3>4
      <4>3. object'[o].master = master /\ servers'[a] = o /\ o # Nil
        BY <1>1, <1>2, <1>6, <1>7, <3>4
      <4>4. object[o].master \in BOOLEAN
        BY <1>1, <1>2 DEF Object
      <4>5. a \in masters' <=> master
        BY <4>1, <4>2, <4>4
      <4>. QED
        BY <3>4, <4>3, <4>5
    <3>. QED
      BY <1>2, <3>1, <3>2, <3>3, <3>4
  <2>3. masters' \subseteq Addrs
    BY <1>1, <1>3
  <2>. QED
    BY <2>2, <2>3 DEF MastersKnown, Present
<1>10. masters' \subseteq Addrs
  BY <1>1, <1>3
<1>11. client' \in [Acquirers -> Call] /\ \A d \in Acquirers : PickedOk(d)'
  <2>1. CASE client' = client
    BY <1>4, <2>1 DEF LocalsOk, PickedOk
  <2>2. CASE client' = Woken
    BY <1>4, <2>2, WokenOk DEF PickedOk
  <2>. QED
    BY <1>3, <2>1, <2>2
<1>. QED
  BY <1>1, <1>2, <1>3, <1>4, <1>5, <1>7, <1>8, <1>9, <1>10, <1>11

\* What no step of the iteration touches.
LEMMA Common ==
  ASSUME ClusterIInv, UNCHANGED <<role, mode, clusterRefs, dynaSeeds, loop, clusterPanic>>,
         servers' \in [Addrs -> Objects \cup {Nil}], masters' \subseteq Addrs,
         object' \in [Objects -> Object],
         \A b \in Addrs : servers'[b] # Nil => object'[servers'[b]].addr = b,
         loop = "iterating" \/ \A o \in Objects : object'[o].open => object[o].open
  PROVE  ClusterTypeOK' /\ RefsOk' /\ NoClusterPanic'
<1>1. ClusterTypeOK' /\ NoClusterPanic'
  BY DEF ClusterIInv, ClusterTypeOK, NoClusterPanic, Object
<1>2. CASE loop = "iterating"
  <2>1. clusterRefs > 0 /\ OpenSessions' = OpenSessions /\ clusterRefs \in Nat
    BY <1>2 DEF ClusterIInv, RefsOk, OpenSessions, LocalsOk
  <2>. QED
    BY <1>1, <1>2, <2>1 DEF ClusterIInv, RefsOk
<1>3. CASE loop # "iterating"
  BY <1>1, <1>3, RefsStay DEF ClusterIInv
<1>. QED
  BY <1>1, <1>2, <1>3

----------------------------------------------------------------------------
(* The goroutines of an iteration                                          *)

LEMMA BeginSyncKeepsIInv ==
  ASSUME ClusterIInv, NEW a \in Addrs, NEW byMaster \in BOOLEAN, BeginSync(a, byMaster)
  PROVE  ClusterIInv'
<1> USE DEF ClusterIInv
<1>1. /\ <<a, byMaster>> \in spawned /\ spawned' = spawned \ {<<a, byMaster>>}
      /\ UNCHANGED <<role, mode, servers, masters, object, clusterRefs, dynaSeeds, loop, complete,
                     reached, client, clusterPanic>>
  BY DEF BeginSync, world, known
<1>2. loop = "iterating" /\ ~Settled
  BY <1>1 DEF Rests, Settled
<1>3. ClusterTypeOK' /\ RefsOk' /\ NoClusterPanic'
  BY <1>1, <1>2 DEF ClusterTypeOK, RefsOk, OpenSessions, NoClusterPanic
<1>4. /\ MastersKnown' /\ Rests' /\ \A c \in Acquirers : PickedOk(c)'
      /\ \A o, b : Free(o, b)' <=> Free(o, b)
  BY <1>1, <1>2 DEF MastersKnown, Present, Rests, PickedOk, Free
<1>5. /\ talk \in [Addrs -> Talk] /\ pending \in [Addrs -> Talk] /\ adding \subseteq Talk
      /\ NoTalk \in Talk /\ OneTalk(a) /\ spawned \subseteq Addrs \X BOOLEAN
  BY DEF LocalsOk, NoTalk, Talk
<1> SUFFICES /\ LocalsOk' /\ (\A b \in Addrs : OneTalk(b)') /\ (\A p \in adding' : OneClaim(p)')
             /\ OpenKept' /\ WordOut' /\ ReachedKept'
  BY <1>3, <1>4
<1>6. \A b \in Addrs \ {a} : <<b, TRUE>> \in spawned => <<b, TRUE>> \in spawned'
  BY <1>1
<1>7. \A b \in Addrs : <<b, TRUE>> \in spawned' => <<b, TRUE>> \in spawned
  BY <1>1
<1>8. byMaster => \A b \in Addrs : Named(b)
  BY <1>1 DEF WordOut
<1>9. ~byMaster => (<<a, TRUE>> \in spawned => <<a, TRUE>> \in spawned')
  BY <1>1
<1>10. CASE /\ UNCHANGED <<talk, pending, adding, addIfFound, seen>>
            /\ unresolved' = IF byMaster THEN unresolved \cup {a} ELSE unresolved
  <2>1. LocalsOk'
    BY <1>1, <1>10 DEF LocalsOk
  <2>2. (\A b \in Addrs : OneTalk(b)') /\ \A p \in adding' : OneClaim(p)'
    BY <1>1, <1>4, <1>10 DEF OneTalk, OneClaim
  <2>3. OpenKept'
    BY <1>1, <1>10 DEF OpenKept, Kept
  <2>4. ASSUME NEW b \in Addrs, Named(b) PROVE Named(b)'
    BY <1>6, <1>9, <1>10, <2>4 DEF Named
  <2>5. WordOut'
    BY <1>1, <1>7, <1>10, <2>4 DEF WordOut
  <2>6. ASSUME NEW b \in reached, OnItsWay(b) PROVE OnItsWay(b)'
    BY <1>1, <1>2, <1>10, <2>6 DEF OnItsWay, Present
  <2>7. ReachedKept'
    BY <1>1, <1>2, <1>10, <2>6 DEF ReachedKept
  <2>. QED
    BY <2>1, <2>2, <2>3, <2>5, <2>7
<1>11. CASE /\ byMaster /\ pending[a] # NoTalk
            /\ adding' = adding \cup {pending[a]}
            /\ pending' = [pending EXCEPT ![a] = NoTalk]
            /\ UNCHANGED <<talk, addIfFound, seen, unresolved>>
  <2>1. /\ pending' \in [Addrs -> Talk] /\ pending'[a] = NoTalk
        /\ \A b \in Addrs \ {a} : pending'[b] = pending[b]
    BY <1>5, <1>11
  <2>2. Free(pending[a].obj, a) /\ talk[a].at = "done" /\ pending[a] \in Talk
    BY <1>5, <1>11 DEF OneTalk
  <2>3. LocalsOk'
    BY <1>1, <1>11, <2>1, <2>2 DEF LocalsOk
  <2>4. \A b \in Addrs : OneTalk(b)'
    BY <1>1, <1>4, <1>11, <2>1 DEF OneTalk
  <2>5. \A p \in adding' : OneClaim(p)'
    <3>1. PICK p \in Talk : p = pending[a]
      BY <2>2
    <3>2. Free(p.obj, a) /\ object[p.obj].addr = a
      BY <2>2, <3>1 DEF Free
    <3>3. ASSUME NEW q \in adding PROVE object[q.obj].addr # a
      BY <1>11 DEF OneClaim
    <3>4. adding' = adding \cup {p}
      BY <1>11, <3>1
    <3>5. OneClaim(p)'
      BY <1>1, <1>4, <1>11, <2>1, <2>2, <3>2, <3>3, <3>4 DEF OneClaim
    <3>6. ASSUME NEW q \in adding PROVE OneClaim(q)'
      BY <1>1, <1>4, <1>11, <2>1, <3>2, <3>3, <3>4 DEF OneClaim
    <3>. QED
      BY <3>4, <3>5, <3>6
  <2>6. OpenKept'
    <3>1. ASSUME NEW o \in Objects, Kept(o) PROVE Kept(o)'
      BY <1>1, <1>11, <2>1, <3>1 DEF Kept
    <3>. QED
      BY <1>1, <3>1 DEF OpenKept
  <2>7. \A b \in Addrs : Named(b)'
    BY <1>6, <1>8, <1>11, <2>1, <2>2 DEF Named
  <2>8. WordOut'
    BY <1>1, <1>11, <2>1, <2>7 DEF WordOut
  <2>9. ASSUME NEW b \in reached, OnItsWay(b) PROVE OnItsWay(b)'
    <3>1. object[pending[a].obj].addr = a /\ b \in Addrs
      BY <2>2 DEF Free, LocalsOk
    <3>. QED
      BY <1>1, <1>2, <1>11, <2>1, <2>9, <3>1 DEF OnItsWay, Present
  <2>10. ReachedKept'
    BY <1>1, <1>2, <1>11, <2>9 DEF ReachedKept
  <2>. QED
    BY <2>3, <2>4, <2>5, <2>6, <2>8, <2>10
<1>12. CASE /\ ~(byMaster /\ pending[a] # NoTalk)
            /\ addIfFound' = IF byMaster THEN addIfFound \cup {a} ELSE addIfFound
            /\ IF a \in seen THEN UNCHANGED <<seen, talk>>
               ELSE /\ seen' = seen \cup {a}
                    /\ talk' = [talk EXCEPT ![a].at = "server"]
            /\ UNCHANGED <<pending, adding, unresolved>>
  <2>1. /\ talk' \in [Addrs -> Talk] /\ \A b \in Addrs \ {a} : talk'[b] = talk[b]
        /\ a \in seen => talk'[a] = talk[a]
        /\ a \notin seen => talk[a].at = "none" /\ talk'[a].at = "server"
    <3>1. [talk[a] EXCEPT !.at = "server"] \in Talk /\ [talk[a] EXCEPT !.at = "server"].at = "server"
      BY <1>5 DEF Talk
    <3>. QED
      BY <1>5, <1>12, <3>1 DEF OneTalk
  <2>2. /\ \A b \in Addrs : b \in seen' <=> b \in seen \/ b = a
        /\ \A b \in Addrs : talk[b].at \in {"syncing", "adding", "done"} => talk'[b] = talk[b]
        /\ \A b \in Addrs : b # a \/ b \in seen \/ pending[b] = NoTalk
    BY <1>5, <1>12, <2>1 DEF OneTalk
  <2>3. LocalsOk'
    BY <1>1, <1>12, <2>1 DEF LocalsOk
  <2>4. \A b \in Addrs : OneTalk(b)'
    <3>1. ASSUME NEW b \in Addrs \ {a} PROVE OneTalk(b)'
      BY <1>4, <1>12, <2>1, <2>2 DEF OneTalk
    <3>2. OneTalk(a)'
      <4>1. CASE a \in seen
        BY <1>4, <1>5, <1>12, <2>1, <4>1 DEF OneTalk
      <4>2. CASE a \notin seen
        BY <1>5, <1>12, <2>1, <2>2, <4>2 DEF OneTalk
      <4>. QED
        BY <4>1, <4>2
    <3>. QED
      BY <3>1, <3>2
  <2>5. \A p \in adding' : OneClaim(p)'
    BY <1>1, <1>4, <1>12, <2>2 DEF OneClaim
  <2>6. OpenKept'
    <3>1. ASSUME NEW o \in Objects, Kept(o) PROVE Kept(o)'
      BY <1>1, <1>12, <2>2, <3>1 DEF Kept
    <3>. QED
      BY <1>1, <3>1 DEF OpenKept
  <2>7. ASSUME NEW b \in Addrs, Named(b) PROVE Named(b)'
    BY <1>6, <1>9, <1>12, <2>2, <2>7 DEF Named
  <2>8. WordOut'
    <3>1. (addIfFound' # {} \/ \E b \in Addrs : <<b, TRUE>> \in spawned') => \A b \in Addrs : Named(b)'
      BY <1>7, <1>8, <1>12, <2>7 DEF WordOut
    <3>2. complete' /\ ~mode'.direct =>
            \/ \A b \in Addrs : Named(b)'
            \/ \E b \in Addrs : talk'[b].at = "adding" /\ talk'[b].master
      BY <1>1, <2>2, <2>7 DEF WordOut
    <3>3. \A b \in Addrs : pending'[b] # NoTalk => b \notin addIfFound' /\ ~mode'.direct
      BY <1>1, <1>12 DEF WordOut
    <3>. QED
      BY <3>1, <3>2, <3>3 DEF WordOut
  <2>9. ASSUME NEW b \in reached, OnItsWay(b) PROVE OnItsWay(b)'
    <3>1. b \in Addrs
      BY DEF LocalsOk
    <3>. QED
      BY <1>1, <1>2, <1>12, <2>2, <2>9, <3>1 DEF OnItsWay, Present
  <2>10. ReachedKept'
    <3>1. \A b \in reached : b \in Addrs
      BY DEF LocalsOk
    <3>. QED
      BY <1>1, <1>2, <2>2, <2>9, <3>1 DEF ReachedKept
  <2>. QED
    BY <2>3, <2>4, <2>5, <2>6, <2>8, <2>10
<1>. QED
  BY <1>10, <1>11, <1>12 DEF BeginSync

\* A goroutine of this iteration is at work.
LEMMA AtWork ==
  ASSUME ClusterIInv, NEW a \in Addrs, talk[a].at \in {"server", "syncing", "adding"}
  PROVE  /\ loop = "iterating" /\ ~Settled /\ ~AllDone
         /\ a \in seen /\ pending[a] = NoTalk
         /\ \A p \in adding : object[p.obj].addr # a
<1>1. ~Settled /\ ~AllDone
  BY DEF Settled, AllDone
<1>2. a \in seen /\ pending[a] = NoTalk
  BY DEF ClusterIInv, OneTalk
<1>3. \A p \in adding : object[p.obj].addr # a
  BY DEF ClusterIInv, OneClaim
<1>. QED
  BY <1>1, <1>2, <1>3 DEF ClusterIInv, Rests

LEMMA GetServerKeepsIInv ==
  ASSUME ClusterIInv, NEW a \in Addrs, GetServer(a)
  PROVE  ClusterIInv'
<1> USE DEF ClusterIInv
<1>1. /\ talk[a].at = "server"
      /\ UNCHANGED <<role, mode, servers, masters, clusterRefs, dynaSeeds, loop, spawned, pending,
                     adding, addIfFound, seen, unresolved, complete, reached, client, clusterPanic>>
  BY DEF GetServer, world
<1>2. /\ loop = "iterating" /\ ~Settled /\ a \in seen /\ pending[a] = NoTalk
      /\ \A p \in adding : object[p.obj].addr # a
  BY <1>1, AtWork
<1>3. /\ servers \in [Addrs -> Objects \cup {Nil}] /\ masters \subseteq Addrs
      /\ object \in [Objects -> Object] /\ Nil \notin Objects
      /\ \A b \in Addrs : servers[b] # Nil => servers[b] \in Objects /\ object[servers[b]].addr = b
      /\ talk \in [Addrs -> Talk]
  BY ClusterAssumption DEF ClusterTypeOK, LocalsOk, Object
<1>4. PICK o \in Objects :
        /\ talk' = [talk EXCEPT ![a] = [at |-> "syncing", obj |-> o, master |-> FALSE]]
        /\ \/ servers[a] = o /\ object' = object
           \/ /\ servers[a] = Nil /\ o \in Unused
              /\ object' = [object EXCEPT ![o] = [UnusedObject EXCEPT !.addr = a, !.open = TRUE]]
  <2>1. CASE servers[a] # Nil
    BY <1>3, <2>1 DEF GetServer
  <2>2. CASE servers[a] = Nil
    <3>1. Unused # {} => (CHOOSE x \in Unused : TRUE) \in Unused
      OBVIOUS
    <3>. QED
      BY <2>2, <3>1 DEF GetServer, Unused
  <2>. QED
    BY <2>1, <2>2
<1>5. /\ talk' \in [Addrs -> Talk] /\ talk'[a].at = "syncing" /\ talk'[a].obj = o
      /\ \A b \in Addrs \ {a} : talk'[b] = talk[b]
  <2>1. [at |-> "syncing", obj |-> o, master |-> FALSE] \in Talk
    BY DEF Talk
  <2>. QED
    BY <1>3, <1>4, <2>1
\* The object is not one that anybody looks at, unless it is a's.
<1>6. /\ object' \in [Objects -> Object] /\ object'[o].addr = a
      /\ \A x \in Objects \ {o} : object'[x] = object[x]
  <2>1. PICK u \in Object : u = UnusedObject
    BY DEF Object, UnusedObject
  <2>2. /\ [UnusedObject EXCEPT !.addr = a, !.open = TRUE] \in Object
        /\ [UnusedObject EXCEPT !.addr = a, !.open = TRUE].addr = a
    BY <2>1 DEF Object
  <2>3. \/ object' = object /\ object[o].addr = a
        \/ \E w \in Object : w.addr = a /\ object' = [object EXCEPT ![o] = w]
    BY <1>3, <1>4, <2>2
  <2>. QED
    BY <1>3, <2>3
<1>7. /\ \A b \in Addrs : servers[b] = o => object' = object
      /\ \A b \in Addrs : servers[b] # Nil => object'[servers[b]] = object[servers[b]]
      /\ \A b \in Addrs : talk[b].obj \in Objects => object'[talk[b].obj] = object[talk[b].obj]
      /\ \A b \in Addrs : pending[b].obj \in Objects => object'[pending[b].obj] = object[pending[b].obj]
      /\ \A p \in adding : p.obj \in Objects => object'[p.obj] = object[p.obj]
      /\ \A c \in Acquirers : client[c].obj \in Objects => object'[client[c].obj] = object[client[c].obj]
  BY <1>3, <1>4, <1>6 DEF Unused, Held
<1>8. servers[a] \in {Nil, o}
  BY <1>4
<1>9. ClusterTypeOK' /\ RefsOk' /\ NoClusterPanic'
  <2>1. /\ servers' \in [Addrs -> Objects \cup {Nil}] /\ masters' \subseteq Addrs
        /\ \A b \in Addrs : servers'[b] # Nil => object'[servers'[b]].addr = b
    BY <1>1, <1>3, <1>7
  <2>. QED
    BY <1>1, <1>2, <1>6, <2>1, Common
<1>10. LocalsOk'
  BY <1>1, <1>5 DEF LocalsOk
<1>11. \A b \in Addrs : OneTalk(b)'
  <2>1. OneTalk(a)'
    BY <1>1, <1>2, <1>5, <1>6, <1>8 DEF OneTalk, Free
  <2>2. ASSUME NEW b \in Addrs \ {a} PROVE OneTalk(b)'
    BY <1>1, <1>5, <1>7 DEF OneTalk, Free
  <2>. QED
    BY <2>1, <2>2
<1>12. \A p \in adding' : OneClaim(p)'
  <2>1. \A p \in adding : p.obj \in Objects /\ object'[p.obj] = object[p.obj]
    BY <1>7 DEF OneClaim, Free
  <2>. QED
    BY <1>1, <1>2, <1>5, <2>1 DEF OneClaim, Free
<1>13. (\A c \in Acquirers : PickedOk(c)') /\ Rests'
  BY <1>1, <1>2, <1>7 DEF PickedOk, Rests
<1>14. OpenKept'
  <2>1. Kept(o)'
    BY <1>5 DEF Kept
  <2>2. ASSUME NEW x \in Objects \ {o}, object'[x].open PROVE Kept(x)'
    <3>1. Kept(x)
      BY <1>6, <2>2 DEF OpenKept
    <3>. QED
      BY <1>1, <1>5, <3>1 DEF Kept
  <2>. QED
    BY <2>1, <2>2 DEF OpenKept
<1>15. MastersKnown'
  BY <1>1, <1>3, <1>7 DEF MastersKnown, Present
<1>16. WordOut'
  <2>1. ASSUME NEW b \in Addrs, Named(b) PROVE Named(b)'
    BY <1>1, <1>5, <2>1 DEF Named
  <2>2. ASSUME NEW b \in Addrs, talk[b].at = "adding" PROVE talk'[b] = talk[b]
    BY <1>1, <1>5, <2>2
  <2>. QED
    BY <1>1, <2>1, <2>2 DEF WordOut
<1>17. ReachedKept'
  <2>1. \A b \in reached : b \in Addrs \ {a}
    BY <1>1 DEF ReachedKept, LocalsOk
  <2>2. ASSUME NEW b \in reached, OnItsWay(b) PROVE OnItsWay(b)'
    <3>1. \A p \in adding : p.obj \in Objects /\ object'[p.obj] = object[p.obj]
      BY <1>7 DEF OneClaim, Free
    <3>. QED
      BY <1>1, <1>2, <1>5, <2>1, <2>2, <3>1 DEF OnItsWay, Present
  <2>. QED
    BY <1>1, <1>5, <2>1, <2>2 DEF ReachedKept
<1>. QED
  BY <1>9, <1>10, <1>11, <1>12, <1>13, <1>14, <1>15, <1>16, <1>17

LEMMA SyncRepliesKeepsIInv ==
  ASSUME ClusterIInv, NEW a \in Addrs, SyncReplies(a)
  PROVE  ClusterIInv'
<1> USE DEF ClusterIInv
<1>1. /\ talk[a].at = "syncing" /\ reached' = reached \cup {a}
      /\ UNCHANGED <<role, mode, servers, masters, object, clusterRefs, dynaSeeds, loop, adding,
                     addIfFound, seen, unresolved, client, clusterPanic>>
  BY DEF SyncReplies, world, known
<1>2. /\ loop = "iterating" /\ ~Settled /\ a \in seen /\ pending[a] = NoTalk
      /\ \A p \in adding : object[p.obj].addr # a
  BY <1>1, AtWork
<1>3. /\ talk \in [Addrs -> Talk] /\ pending \in [Addrs -> Talk]
      /\ NoTalk \in Talk /\ NoTalk.at = "none" /\ Free(talk[a].obj, a)
  BY <1>1 DEF LocalsOk, NoTalk, Talk, OneTalk
<1>4. PICK found \in Talk :
        /\ found.at = "adding" /\ found.obj = talk[a].obj
        /\ found.master <=> role[a] = "master"
        /\ \/ /\ mode.direct \/ role[a] = "master" \/ a \in addIfFound
              /\ complete' = TRUE /\ talk' = [talk EXCEPT ![a] = found]
              /\ UNCHANGED <<pending, spawned>>
           \/ /\ ~mode.direct /\ a \notin addIfFound
              /\ pending' = [pending EXCEPT ![a] = found]
              /\ talk' = [talk EXCEPT ![a] = [NoTalk EXCEPT !.at = "done"]]
              /\ spawned' = spawned \cup (Addrs \X {FALSE})
              /\ UNCHANGED complete
  <2> DEFINE found == [talk[a] EXCEPT !.at = "adding", !.master = (role[a] = "master")]
  <2>1. found \in Talk /\ found.at = "adding" /\ found.obj = talk[a].obj
        /\ found.master = (role[a] = "master")
    BY <1>3 DEF Talk
  <2>2. \/ /\ mode.direct \/ role[a] = "master" \/ a \in addIfFound
           /\ complete' = TRUE /\ talk' = [talk EXCEPT ![a] = found]
           /\ UNCHANGED <<pending, spawned>>
        \/ /\ ~mode.direct /\ a \notin addIfFound
           /\ pending' = [pending EXCEPT ![a] = found]
           /\ talk' = [talk EXCEPT ![a] = [NoTalk EXCEPT !.at = "done"]]
           /\ spawned' = spawned \cup (Addrs \X {FALSE})
           /\ UNCHANGED complete
    BY DEF SyncReplies, Peers
  <2> HIDE DEF found
  <2>. QED
    BY <2>1, <2>2
<1>5. ClusterTypeOK' /\ RefsOk' /\ NoClusterPanic'
  BY <1>1, <1>2 DEF ClusterTypeOK, RefsOk, OpenSessions, NoClusterPanic
<1>6. /\ MastersKnown' /\ Rests' /\ \A c \in Acquirers : PickedOk(c)'
      /\ \A o, b : Free(o, b)' <=> Free(o, b)
  BY <1>1, <1>2 DEF MastersKnown, Present, Rests, PickedOk, Free
<1> SUFFICES /\ LocalsOk' /\ (\A b \in Addrs : OneTalk(b)') /\ (\A p \in adding' : OneClaim(p)')
             /\ OpenKept' /\ WordOut' /\ ReachedKept'
  BY <1>5, <1>6
<1>7. \A b \in reached' : b \in Addrs
  BY <1>1 DEF LocalsOk
<1>8. CASE /\ mode.direct \/ role[a] = "master" \/ a \in addIfFound
           /\ complete' = TRUE /\ talk' = [talk EXCEPT ![a] = found]
           /\ UNCHANGED <<pending, spawned>>
  <2>1. /\ talk' \in [Addrs -> Talk] /\ talk'[a] = found
        /\ \A b \in Addrs \ {a} : talk'[b] = talk[b]
    BY <1>3, <1>8
  <2>2. LocalsOk'
    BY <1>1, <1>8, <2>1 DEF LocalsOk
  <2>3. \A b \in Addrs : OneTalk(b)'
    <3>1. OneTalk(a)'
      BY <1>1, <1>2, <1>3, <1>4, <1>6, <1>8, <2>1 DEF OneTalk
    <3>2. ASSUME NEW b \in Addrs \ {a} PROVE OneTalk(b)'
      BY <1>1, <1>6, <1>8, <2>1 DEF OneTalk
    <3>. QED
      BY <3>1, <3>2
  <2>4. \A p \in adding' : OneClaim(p)'
    BY <1>1, <1>2, <1>6, <1>8, <2>1 DEF OneClaim
  <2>5. OpenKept'
    <3>1. ASSUME NEW o \in Objects, Kept(o) PROVE Kept(o)'
      BY <1>1, <1>4, <1>8, <2>1, <3>1 DEF Kept
    <3>. QED
      BY <1>1, <3>1 DEF OpenKept
  <2>6. ASSUME NEW b \in Addrs, Named(b) PROVE Named(b)'
    BY <1>1, <1>8, <2>1, <2>6 DEF Named
  <2>7. WordOut'
    <3>1. (addIfFound' # {} \/ \E b \in Addrs : <<b, TRUE>> \in spawned') => \A b \in Addrs : Named(b)'
      BY <1>1, <1>8, <2>6 DEF WordOut
    <3>2. ~mode.direct => \/ \A b \in Addrs : Named(b)'
                          \/ \E b \in Addrs : talk'[b].at = "adding" /\ talk'[b].master
      <4>1. CASE role[a] = "master"
        BY <1>4, <2>1, <4>1
      <4>2. CASE a \in addIfFound
        BY <2>6, <4>2 DEF WordOut
      <4>. QED
        BY <1>8, <4>1, <4>2
    <3>. QED
      BY <1>1, <1>8, <3>1, <3>2 DEF WordOut
  <2>8. ASSUME NEW b \in reached, OnItsWay(b) PROVE OnItsWay(b)'
    BY <1>1, <1>2, <1>7, <1>8, <2>1, <2>8 DEF OnItsWay, Present, ReachedKept
  <2>9. OnItsWay(a)'
    BY <1>4, <2>1 DEF OnItsWay
  <2>10. ReachedKept'
    BY <1>1, <1>2, <1>4, <1>7, <2>1, <2>8, <2>9 DEF ReachedKept
  <2>. QED
    BY <2>2, <2>3, <2>4, <2>5, <2>7, <2>10
<1>9. CASE /\ ~mode.direct /\ a \notin addIfFound
           /\ pending' = [pending EXCEPT ![a] = found]
           /\ talk' = [talk EXCEPT ![a] = [NoTalk EXCEPT !.at = "done"]]
           /\ spawned' = spawned \cup (Addrs \X {FALSE})
           /\ UNCHANGED complete
  <2>1. /\ talk' \in [Addrs -> Talk] /\ talk'[a].at = "done"
        /\ \A b \in Addrs \ {a} : talk'[b] = talk[b]
        /\ pending' \in [Addrs -> Talk] /\ pending'[a] = found /\ found # NoTalk
        /\ \A b \in Addrs \ {a} : pending'[b] = pending[b]
    <3>1. [NoTalk EXCEPT !.at = "done"] \in Talk /\ [NoTalk EXCEPT !.at = "done"].at = "done"
      BY DEF NoTalk, Talk
    <3>. QED
      BY <1>3, <1>4, <1>9, <3>1
  <2>2. \A b \in Addrs : <<b, TRUE>> \in spawned' <=> <<b, TRUE>> \in spawned
    BY <1>9
  <2>3. LocalsOk'
    <3>1. spawned' \subseteq Addrs \X BOOLEAN
      BY <1>9 DEF LocalsOk
    <3>2. reached' \subseteq Addrs
      BY <1>7
    <3>3. /\ talk' \in [Addrs -> Talk] /\ pending' \in [Addrs -> Talk] /\ complete' = complete
      BY <1>9, <2>1
    <3>. QED
      BY <1>1, <3>1, <3>2, <3>3 DEF LocalsOk
  <2>4. \A b \in Addrs : OneTalk(b)'
    <3>1. OneTalk(a)'
      BY <1>1, <1>2, <1>3, <1>4, <1>6, <2>1 DEF OneTalk
    <3>2. ASSUME NEW b \in Addrs \ {a} PROVE OneTalk(b)'
      BY <1>1, <1>6, <2>1 DEF OneTalk
    <3>. QED
      BY <3>1, <3>2
  <2>5. \A p \in adding' : OneClaim(p)'
    BY <1>1, <1>2, <1>6, <2>1 DEF OneClaim
  <2>6. OpenKept'
    <3>1. ASSUME NEW o \in Objects, Kept(o) PROVE Kept(o)'
      <4>1. CASE o = talk[a].obj
        <5>1. pending'[a] # NoTalk /\ pending'[a].obj = o
          BY <1>4, <2>1, <4>1
        <5>. QED
          BY <5>1 DEF Kept
      <4>2. CASE o # talk[a].obj
        BY <1>1, <1>2, <2>1, <3>1, <4>2 DEF Kept
      <4>. QED
        BY <4>1, <4>2
    <3>. QED
      BY <1>1, <3>1 DEF OpenKept
  <2>7. ASSUME NEW b \in Addrs, Named(b) PROVE Named(b)'
    BY <1>1, <2>1, <2>2, <2>7 DEF Named
  <2>8. WordOut'
    <3>1. (addIfFound' # {} \/ \E b \in Addrs : <<b, TRUE>> \in spawned') => \A b \in Addrs : Named(b)'
      BY <1>1, <2>2, <2>7 DEF WordOut
    <3>2. complete' /\ ~mode'.direct =>
            \/ \A b \in Addrs : Named(b)'
            \/ \E b \in Addrs : talk'[b].at = "adding" /\ talk'[b].master
      BY <1>1, <1>9, <2>1, <2>7 DEF WordOut
    <3>3. \A b \in Addrs : pending'[b] # NoTalk => b \notin addIfFound' /\ ~mode'.direct
      BY <1>1, <1>9, <2>1 DEF WordOut
    <3>. QED
      BY <3>1, <3>2, <3>3 DEF WordOut
  <2>9. ASSUME NEW b \in reached, OnItsWay(b) PROVE OnItsWay(b)'
    BY <1>1, <1>2, <1>7, <2>1, <2>9 DEF OnItsWay, Present, ReachedKept
  <2>10. OnItsWay(a)'
    BY <2>1 DEF OnItsWay
  <2>11. ReachedKept'
    BY <1>1, <1>2, <1>7, <2>1, <2>9, <2>10 DEF ReachedKept
  <2>. QED
    BY <2>3, <2>4, <2>5, <2>6, <2>8, <2>11
<1>. QED
  BY <1>4, <1>8, <1>9

LEMMA SyncFailsKeepsIInv ==
  ASSUME ClusterIInv, NEW a \in Addrs, SyncFails(a)
  PROVE  ClusterIInv'
<1> USE DEF ClusterIInv
<1>1. /\ talk[a].at = "syncing" /\ RemoveServer(talk[a].obj)
      /\ talk' = [talk EXCEPT ![a] = [NoTalk EXCEPT !.at = "done"]]
      /\ UNCHANGED <<role, mode, clusterRefs, dynaSeeds, loop, spawned, pending, adding,
                     addIfFound, seen, unresolved, complete, reached, client, clusterPanic>>
  BY DEF SyncFails, world
<1>2. /\ loop = "iterating" /\ ~Settled /\ a \in seen /\ pending[a] = NoTalk
      /\ \A p \in adding : object[p.obj].addr # a
  BY <1>1, AtWork
<1>3. PICK o \in Objects : o = talk[a].obj /\ object[o].addr = a /\ servers[a] \in {Nil, o}
  BY <1>1 DEF OneTalk, Free
<1>4. /\ servers' \in [Addrs -> Objects \cup {Nil}] /\ servers'[a] = Nil
      /\ \A b \in Addrs \ {a} : servers'[b] = servers[b]
      /\ object' \in [Objects -> Object]
      /\ \A x \in Objects : /\ object'[x].addr = object[x].addr
                            /\ object'[x].open => object[x].open /\ x # o /\ x # servers[a]
      /\ \A b \in Addrs : servers'[b] # Nil => object'[servers'[b]].addr = b
      /\ masters' \subseteq Addrs /\ MastersKnown'
  BY <1>1, <1>3, RemoveServerDoes
<1>5. /\ talk' \in [Addrs -> Talk] /\ talk'[a].at = "done"
      /\ \A b \in Addrs \ {a} : talk'[b] = talk[b]
  <2>1. [NoTalk EXCEPT !.at = "done"] \in Talk /\ [NoTalk EXCEPT !.at = "done"].at = "done"
    BY DEF NoTalk, Talk
  <2>. QED
    BY <1>1, <2>1 DEF LocalsOk
<1>6. ClusterTypeOK' /\ RefsOk' /\ NoClusterPanic'
  BY <1>1, <1>2, <1>4, Common
<1>7. LocalsOk'
  BY <1>1, <1>5 DEF LocalsOk
<1>8. \A b \in Addrs, x \in Objects : Free(x, b) => Free(x, b)'
  BY <1>4 DEF Free
<1>9. \A b \in Addrs : OneTalk(b)'
  <2>1. OneTalk(a)'
    BY <1>1, <1>2, <1>5 DEF OneTalk
  <2>2. ASSUME NEW b \in Addrs \ {a} PROVE OneTalk(b)'
    BY <1>1, <1>5, <1>8 DEF OneTalk, Free
  <2>. QED
    BY <2>1, <2>2
<1>10. \A p \in adding' : OneClaim(p)'
  <2>1. \A p \in adding : p.obj \in Objects /\ object'[p.obj].addr = object[p.obj].addr
    BY <1>4 DEF OneClaim, Free
  <2>. QED
    BY <1>1, <1>2, <1>5, <1>8, <2>1 DEF OneClaim
<1>11. (\A c \in Acquirers : PickedOk(c)') /\ Rests'
  BY <1>1, <1>2, <1>4 DEF PickedOk, Rests
<1>12. OpenKept'
  <2>1. ASSUME NEW x \in Objects, object'[x].open PROVE Kept(x)'
    <3>1. Kept(x) /\ x # o /\ x # servers[a]
      BY <1>4, <2>1 DEF OpenKept
    <3>. QED
      BY <1>1, <1>3, <1>4, <1>5, <3>1 DEF Kept
  <2>. QED
    BY <2>1 DEF OpenKept
<1>13. WordOut'
  <2>1. ASSUME NEW b \in Addrs, Named(b) PROVE Named(b)'
    BY <1>1, <1>2, <1>5, <2>1 DEF Named
  <2>2. ASSUME NEW b \in Addrs, talk[b].at = "adding" PROVE talk'[b] = talk[b]
    BY <1>1, <1>5, <2>2
  <2>. QED
    BY <1>1, <2>1, <2>2 DEF WordOut
<1>14. ReachedKept'
  <2>1. \A b \in reached : b \in Addrs \ {a}
    BY <1>1 DEF ReachedKept, LocalsOk
  <2>2. ASSUME NEW b \in reached, OnItsWay(b) PROVE OnItsWay(b)'
    <3>1. \A p \in adding : p.obj \in Objects /\ object'[p.obj].addr = object[p.obj].addr
      BY <1>4 DEF OneClaim, Free
    <3>. QED
      BY <1>1, <1>2, <1>4, <1>5, <2>1, <2>2, <3>1 DEF OnItsWay, Present
  <2>. QED
    BY <1>1, <1>2, <1>5, <2>1, <2>2 DEF ReachedKept
<1>. QED
  BY <1>4, <1>6, <1>7, <1>9, <1>10, <1>11, <1>12, <1>13, <1>14

\* A member that answered to a master's question or is a master itself: a
\* master's word of all members goes out with it.
LEMMA AddFoundKeepsIInv ==
  ASSUME ClusterIInv, NEW a \in Addrs, AddFound(a)
  PROVE  ClusterIInv'
<1> USE DEF ClusterIInv
<1>1. /\ talk[a].at = "adding" /\ AddServer(talk[a].obj, talk[a].master, TRUE)
      /\ talk' = [talk EXCEPT ![a] = [NoTalk EXCEPT !.at = "done"]]
      /\ spawned' = spawned \cup Peers(talk[a].master)
      /\ UNCHANGED <<role, mode, clusterRefs, dynaSeeds, loop, pending, adding,
                     addIfFound, seen, unresolved, complete, reached>>
  BY DEF AddFound, world
<1>2. /\ loop = "iterating" /\ ~Settled /\ a \in seen /\ pending[a] = NoTalk
      /\ \A p \in adding : object[p.obj].addr # a
  BY <1>1, AtWork
<1>3. PICK o \in Objects, m \in BOOLEAN : o = talk[a].obj /\ m = talk[a].master /\ Free(o, a)
  <2>1. talk[a].master \in BOOLEAN
    BY DEF LocalsOk, Talk
  <2>. QED
    BY <1>1, <2>1 DEF OneTalk, Free
<1>4. /\ clusterPanic' = clusterPanic
      /\ servers' \in [Addrs -> Objects \cup {Nil}] /\ servers'[a] = o
      /\ \A b \in Addrs \ {a} : servers'[b] = servers[b]
      /\ object' \in [Objects -> Object]
      /\ \A x \in Objects : /\ object'[x].addr = object[x].addr
                            /\ object'[x].open => object[x].open
      /\ \A b \in Addrs : servers'[b] # Nil => object'[servers'[b]].addr = b
      /\ masters' \subseteq Addrs /\ MastersKnown'
      /\ client' \in [Acquirers -> Call] /\ \A d \in Acquirers : PickedOk(d)'
  <2>1. PICK kind \in BOOLEAN : kind /\ AddServer(o, m, kind)
    BY <1>1, <1>3
  <2>2. ClusterTypeOK /\ MastersKnown /\ LocalsOk /\ \A d \in Acquirers : PickedOk(d)
    OBVIOUS
  <2>3. Free(o, a) /\ a \in Addrs /\ m \in BOOLEAN /\ kind \in BOOLEAN /\ AddServer(o, m, kind)
    BY <1>3, <2>1
  <2>4. /\ clusterPanic' = clusterPanic
        /\ servers' \in [Addrs -> Objects \cup {Nil}]
        /\ \A b \in Addrs \ {a} : servers'[b] = servers[b]
        /\ servers'[a] \in {servers[a], o} /\ (kind => servers'[a] = o)
        /\ servers'[a] = Nil => ~object'[o].open
        /\ object' \in [Objects -> Object]
        /\ \A x \in Objects : /\ object'[x].addr = object[x].addr
                              /\ object'[x].open => object[x].open
        /\ \A b \in Addrs : servers'[b] # Nil => object'[servers'[b]].addr = b
        /\ masters' \subseteq Addrs /\ MastersKnown'
        /\ client' \in [Acquirers -> Call] /\ \A d \in Acquirers : PickedOk(d)'
    BY ONLY <2>2, <2>3, AddServerDoes, Zenon
  <2>. QED
    BY <2>1, <2>4
<1>5. /\ talk' \in [Addrs -> Talk] /\ talk'[a].at = "done"
      /\ \A b \in Addrs \ {a} : talk'[b] = talk[b]
  <2>1. [NoTalk EXCEPT !.at = "done"] \in Talk /\ [NoTalk EXCEPT !.at = "done"].at = "done"
    BY DEF NoTalk, Talk
  <2>. QED
    BY <1>1, <2>1 DEF LocalsOk
<1>6. ClusterTypeOK' /\ RefsOk' /\ NoClusterPanic'
  BY <1>1, <1>2, <1>4, Common
<1>7. /\ spawned' \subseteq Addrs \X BOOLEAN
      /\ \A b \in Addrs : <<b, TRUE>> \in spawned => <<b, TRUE>> \in spawned'
      /\ \A b \in Addrs : <<b, TRUE>> \in spawned' => <<b, TRUE>> \in spawned \/ (m /\ ~mode.direct)
      /\ m /\ ~mode.direct => \A b \in Addrs : <<b, TRUE>> \in spawned'
  <2>1. spawned' = spawned \cup (IF mode.direct THEN {} ELSE Addrs \X {m})
    BY <1>1, <1>3 DEF Peers
  <2>2. spawned' \subseteq Addrs \X BOOLEAN
    BY <2>1 DEF LocalsOk
  <2>. QED
    BY <2>1, <2>2
<1>8. LocalsOk'
  BY <1>1, <1>4, <1>5, <1>7 DEF LocalsOk
<1>9. \A b \in Addrs \ {a}, x \in Objects : Free(x, b) => Free(x, b)'
  BY <1>4 DEF Free
<1>10. \A b \in Addrs : OneTalk(b)'
  <2>1. OneTalk(a)'
    BY <1>1, <1>2, <1>5 DEF OneTalk
  <2>2. ASSUME NEW b \in Addrs \ {a} PROVE OneTalk(b)'
    BY <1>1, <1>5, <1>9 DEF OneTalk, Free
  <2>. QED
    BY <2>1, <2>2
<1>11. \A p \in adding : p.obj \in Objects /\ object'[p.obj].addr = object[p.obj].addr
  BY <1>4 DEF OneClaim, Free
<1>12. \A p \in adding' : OneClaim(p)'
  BY <1>1, <1>2, <1>5, <1>9, <1>11 DEF OneClaim
<1>13. Rests'
  BY <1>1, <1>2 DEF Rests
<1>14. OpenKept'
  <2>1. ASSUME NEW x \in Objects, object'[x].open PROVE Kept(x)'
    <3>1. Kept(x)
      BY <1>4, <2>1 DEF OpenKept
    <3>2. CASE x = o
      BY <1>4, <3>2 DEF Kept
    <3>3. CASE x # o
      <4>1. servers[a] = x => servers[a] = Nil /\ Nil \notin Objects
        BY <1>3, <3>3, ClusterAssumption DEF Free
      <4>. QED
        BY <1>1, <1>3, <1>4, <1>5, <3>1, <3>3, <4>1 DEF Kept
    <3>. QED
      BY <3>2, <3>3
  <2>. QED
    BY <2>1 DEF OpenKept
<1>15. WordOut'
  <2>1. ASSUME NEW b \in Addrs, Named(b) PROVE Named(b)'
    BY <1>1, <1>2, <1>5, <1>7, <2>1 DEF Named
  <2>2. m /\ ~mode.direct => \A b \in Addrs : Named(b)'
    BY <1>7 DEF Named
  <2>3. (addIfFound' # {} \/ \E b \in Addrs : <<b, TRUE>> \in spawned') => \A b \in Addrs : Named(b)'
    BY <1>1, <1>7, <2>1, <2>2 DEF WordOut
  <2>4. complete' /\ ~mode'.direct =>
          \/ \A b \in Addrs : Named(b)'
          \/ \E b \in Addrs : talk'[b].at = "adding" /\ talk'[b].master
    <3>1. ASSUME NEW b \in Addrs, talk[b].at = "adding", talk[b].master
          PROVE  talk'[b] = talk[b] \/ m
      BY <1>3, <1>5, <3>1
    <3>. QED
      BY <1>1, <2>1, <2>2, <3>1 DEF WordOut
  <2>. QED
    BY <1>1, <2>3, <2>4 DEF WordOut
<1>16. ReachedKept'
  <2>1. \A b \in reached : b \in Addrs
    BY DEF LocalsOk
  <2>2. ASSUME NEW b \in reached, OnItsWay(b) PROVE OnItsWay(b)'
    <3>1. CASE b = a
      BY <1>3, <1>4, <3>1, ClusterAssumption DEF OnItsWay, Present
    <3>2. CASE b # a
      BY <1>1, <1>2, <1>4, <1>5, <1>11, <2>1, <2>2, <3>2 DEF OnItsWay, Present
    <3>. QED
      BY <3>1, <3>2
  <2>. QED
    BY <1>1, <1>2, <1>5, <2>1, <2>2 DEF ReachedKept
<1>. QED
  BY <1>4, <1>6, <1>8, <1>10, <1>12, <1>13, <1>14, <1>15, <1>16

LEMMA AddClaimedKeepsIInv ==
  ASSUME ClusterIInv, NEW p \in adding, AddClaimed(p)
  PROVE  ClusterIInv'
<1> USE DEF ClusterIInv
<1>1. /\ AddServer(p.obj, p.master, TRUE) /\ adding' = adding \ {p}
      /\ UNCHANGED <<role, mode, clusterRefs, dynaSeeds, loop, spawned, talk, pending,
                     addIfFound, seen, unresolved, complete, reached>>
  BY DEF AddClaimed, world
<1>2. loop = "iterating" /\ ~Settled
  BY DEF Rests, Settled
<1>3. PICK a \in Addrs, o \in Objects, m \in BOOLEAN :
        /\ o = p.obj /\ m = p.master /\ Free(o, a)
        /\ talk[a].at = "done" /\ pending[a] = NoTalk
        /\ \A q \in adding : object[q.obj].addr = a => q = p
  <2>1. p.master \in BOOLEAN /\ OneClaim(p)
    BY DEF LocalsOk, Talk
  <2>. QED
    BY <2>1 DEF OneClaim, Free
<1>4. /\ clusterPanic' = clusterPanic
      /\ servers' \in [Addrs -> Objects \cup {Nil}] /\ servers'[a] = o
      /\ \A b \in Addrs \ {a} : servers'[b] = servers[b]
      /\ object' \in [Objects -> Object]
      /\ \A x \in Objects : /\ object'[x].addr = object[x].addr
                            /\ object'[x].open => object[x].open
      /\ \A b \in Addrs : servers'[b] # Nil => object'[servers'[b]].addr = b
      /\ masters' \subseteq Addrs /\ MastersKnown'
      /\ client' \in [Acquirers -> Call] /\ \A d \in Acquirers : PickedOk(d)'
  <2>1. PICK kind \in BOOLEAN : kind /\ AddServer(o, m, kind)
    BY <1>1, <1>3
  <2>2. ClusterTypeOK /\ MastersKnown /\ LocalsOk /\ \A d \in Acquirers : PickedOk(d)
    OBVIOUS
  <2>3. Free(o, a) /\ a \in Addrs /\ m \in BOOLEAN /\ kind \in BOOLEAN /\ AddServer(o, m, kind)
    BY <1>3, <2>1
  <2>4. /\ clusterPanic' = clusterPanic
        /\ servers' \in [Addrs -> Objects \cup {Nil}]
        /\ \A b \in Addrs \ {a} : servers'[b] = servers[b]
        /\ servers'[a] \in {servers[a], o} /\ (kind => servers'[a] = o)
        /\ servers'[a] = Nil => ~object'[o].open
        /\ object' \in [Objects -> Object]
        /\ \A x \in Objects : /\ object'[x].addr = object[x].addr
                              /\ object'[x].open => object[x].open
        /\ \A b \in Addrs : servers'[b] # Nil => object'[servers'[b]].addr = b
        /\ masters' \subseteq Addrs /\ MastersKnown'
        /\ client' \in [Acquirers -> Call] /\ \A d \in Acquirers : PickedOk(d)'
    BY ONLY <2>2, <2>3, AddServerDoes, Zenon
  <2>. QED
    BY <2>1, <2>4
<1>5. ClusterTypeOK' /\ RefsOk' /\ NoClusterPanic'
  BY <1>1, <1>2, <1>4, Common
<1>6. LocalsOk'
  BY <1>1, <1>4 DEF LocalsOk
<1>7. \A b \in Addrs \ {a}, x \in Objects : Free(x, b) => Free(x, b)'
  BY <1>4 DEF Free
<1>8. \A b \in Addrs : OneTalk(b)'
  <2>1. OneTalk(a)'
    BY <1>1, <1>3 DEF OneTalk
  <2>2. ASSUME NEW b \in Addrs \ {a} PROVE OneTalk(b)'
    BY <1>1, <1>7 DEF OneTalk, Free
  <2>. QED
    BY <2>1, <2>2
<1>9. \A q \in adding : q.obj \in Objects /\ object'[q.obj].addr = object[q.obj].addr
  BY <1>4 DEF OneClaim, Free
<1>10. \A q \in adding' : q \in adding /\ object[q.obj].addr # a
  BY <1>1, <1>3
<1>11. \A q \in adding' : OneClaim(q)'
  BY <1>1, <1>7, <1>9, <1>10 DEF OneClaim
<1>12. Rests'
  BY <1>1, <1>2 DEF Rests
<1>13. OpenKept'
  <2>1. ASSUME NEW x \in Objects, object'[x].open PROVE Kept(x)'
    <3>1. Kept(x)
      BY <1>4, <2>1 DEF OpenKept
    <3>2. CASE x = o
      BY <1>4, <3>2 DEF Kept
    <3>3. CASE x # o
      <4>1. servers[a] = x => servers[a] = Nil /\ Nil \notin Objects
        BY <1>3, <3>3, ClusterAssumption DEF Free
      <4>. QED
        BY <1>1, <1>3, <1>4, <3>1, <3>3, <4>1 DEF Kept
    <3>. QED
      BY <3>2, <3>3
  <2>. QED
    BY <2>1 DEF OpenKept
<1>14. WordOut'
  BY <1>1 DEF WordOut, Named
<1>15. ReachedKept'
  <2>1. \A b \in reached : b \in Addrs
    BY DEF LocalsOk
  <2>2. ASSUME NEW b \in reached, OnItsWay(b) PROVE OnItsWay(b)'
    <3>1. CASE b = a
      BY <1>3, <1>4, <3>1, ClusterAssumption DEF OnItsWay, Present
    <3>2. CASE b # a
      <4>1. object[p.obj].addr = a
        BY <1>3 DEF Free
      <4>. QED
        BY <1>1, <1>2, <1>4, <1>9, <2>1, <2>2, <3>2, <4>1 DEF OnItsWay, Present
    <3>. QED
      BY <3>1, <3>2
  <2>. QED
    BY <1>1, <1>2, <2>1, <2>2 DEF ReachedKept
<1>. QED
  BY <1>4, <1>5, <1>6, <1>8, <1>11, <1>12, <1>13, <1>14, <1>15

\* Once wg.Wait is over nothing is left but the servers pending.  If a master
\* was heard of they go: it named them all, so one that is pending still is one
\* whose address did not resolve.  If none was heard of, those known stay.
LEMMA FinishPendingKeepsIInv ==
  ASSUME ClusterIInv, NEW a \in Addrs, FinishPending(a)
  PROVE  ClusterIInv'
<1> USE DEF ClusterIInv
<1>1. /\ AllDone /\ pending[a] # NoTalk
      /\ IF complete THEN RemoveServer(pending[a].obj) /\ UNCHANGED <<client, clusterPanic>>
                     ELSE AddServer(pending[a].obj, pending[a].master, FALSE)
      /\ pending' = [pending EXCEPT ![a] = NoTalk]
      /\ UNCHANGED <<role, mode, clusterRefs, dynaSeeds, loop, spawned, talk, adding,
                     addIfFound, seen, unresolved, complete, reached>>
  BY DEF FinishPending, world
<1>2. loop = "iterating" /\ Settled /\ Settled'
  BY <1>1 DEF AllDone, Settled
<1>3. PICK o \in Objects, m \in BOOLEAN : o = pending[a].obj /\ m = pending[a].master /\ Free(o, a)
  <2>1. pending[a].master \in BOOLEAN
    BY DEF LocalsOk, Talk
  <2>. QED
    BY <1>1, <2>1 DEF OneTalk, Free
<1>4. talk[a].at = "done" /\ object[o].addr = a /\ servers[a] \in {Nil, o} /\ Nil \notin Objects
  BY <1>1, <1>3, ClusterAssumption DEF OneTalk, Free
<1>5. /\ pending' \in [Addrs -> Talk] /\ pending'[a] = NoTalk
      /\ \A b \in Addrs \ {a} : pending'[b] = pending[b]
  <2>1. NoTalk \in Talk
    BY DEF NoTalk, Talk
  <2>. QED
    BY <1>1, <2>1 DEF LocalsOk
<1>6. /\ clusterPanic' = clusterPanic
      /\ servers' \in [Addrs -> Objects \cup {Nil}]
      /\ \A b \in Addrs \ {a} : servers'[b] = servers[b]
      /\ servers'[a] = Nil => ~object'[o].open
      /\ object' \in [Objects -> Object]
      /\ \A x \in Objects : /\ object'[x].addr = object[x].addr
                            /\ object'[x].open => object[x].open
      /\ \A b \in Addrs : servers'[b] # Nil => object'[servers'[b]].addr = b
      /\ masters' \subseteq Addrs /\ MastersKnown'
      /\ client' \in [Acquirers -> Call] /\ \A d \in Acquirers : PickedOk(d)'
  <2>1. CASE complete
    <3>1. /\ servers' \in [Addrs -> Objects \cup {Nil}] /\ servers'[a] = Nil
          /\ \A b \in Addrs \ {a} : servers'[b] = servers[b]
          /\ object' \in [Objects -> Object]
          /\ \A x \in Objects : /\ object'[x].addr = object[x].addr
                                /\ object'[x].open => object[x].open /\ x # o /\ x # servers[a]
          /\ \A b \in Addrs : servers'[b] # Nil => object'[servers'[b]].addr = b
          /\ masters' \subseteq Addrs /\ MastersKnown'
      BY <1>1, <1>3, <1>4, <2>1, RemoveServerDoes
    <3>2. client' \in [Acquirers -> Call] /\ \A d \in Acquirers : PickedOk(d)'
      BY <1>1, <2>1, <3>1 DEF LocalsOk, PickedOk
    <3>. QED
      BY <1>1, <2>1, <3>1, <3>2
  <2>2. CASE ~complete
    <3>1. PICK kind \in BOOLEAN : ~kind /\ AddServer(o, m, kind)
      BY <1>1, <1>3, <2>2
    <3>2. ClusterTypeOK /\ MastersKnown /\ LocalsOk /\ \A d \in Acquirers : PickedOk(d)
      OBVIOUS
    <3>3. Free(o, a) /\ a \in Addrs /\ m \in BOOLEAN /\ kind \in BOOLEAN /\ AddServer(o, m, kind)
      BY <1>3, <3>1
    <3>. QED
      BY ONLY <3>2, <3>3, AddServerDoes, Zenon
  <2>. QED
    BY <2>1, <2>2
<1>7. ClusterTypeOK' /\ RefsOk' /\ NoClusterPanic'
  BY <1>1, <1>2, <1>6, Common
<1>8. LocalsOk'
  BY <1>1, <1>5, <1>6 DEF LocalsOk
<1>9. \A b \in Addrs \ {a}, x \in Objects : Free(x, b) => Free(x, b)'
  BY <1>6 DEF Free
<1>10. \A b \in Addrs : OneTalk(b)'
  <2>1. OneTalk(a)'
    BY <1>1, <1>4, <1>5 DEF OneTalk
  <2>2. ASSUME NEW b \in Addrs \ {a} PROVE OneTalk(b)'
    BY <1>1, <1>5, <1>9 DEF OneTalk, Free
  <2>. QED
    BY <2>1, <2>2
<1>11. (\A q \in adding' : OneClaim(q)') /\ Rests'
  BY <1>1, <1>2 DEF Settled, Rests
<1>12. OpenKept'
  <2>1. ASSUME NEW x \in Objects, object'[x].open PROVE Kept(x)'
    <3>1. Kept(x)
      BY <1>6, <2>1 DEF OpenKept
    <3>2. PICK b \in Addrs : servers[b] = x \/ (pending[b] # NoTalk /\ pending[b].obj = x)
      BY <1>2, <3>1 DEF Kept, Settled
    <3>3. CASE b # a
      BY <1>5, <1>6, <3>2, <3>3 DEF Kept
    <3>4. CASE b = a
      <4>1. x = o
        BY <1>3, <1>4, <3>2, <3>4
      <4>2. servers'[a] # Nil
        BY <1>6, <2>1, <4>1
      <4>3. servers'[a] = o
        BY <1>4, <4>2, <1>1, <1>3 DEF RemoveServer, AddServer, LocalsOk, ClusterTypeOK
      <4>. QED
        BY <4>1, <4>3 DEF Kept
    <3>. QED
      BY <3>3, <3>4
  <2>. QED
    BY <2>1 DEF OpenKept
<1>13. WordOut'
  <2>1. ASSUME NEW b \in Addrs, Named(b) PROVE Named(b)'
    BY <1>1, <1>5, <2>1 DEF Named
  <2>. QED
    BY <1>1, <1>5, <2>1 DEF WordOut
<1>14. ReachedKept'
  <2>1. \A b \in reached : b \in Addrs
    BY DEF LocalsOk
  <2>2. ASSUME NEW b \in reached, OnItsWay(b) PROVE OnItsWay(b)'
    <3>1. CASE ~complete
      BY <1>1, <1>2, <3>1 DEF OnItsWay
    <3>2. CASE complete /\ b # a
      BY <1>1, <1>2, <1>5, <1>6, <2>1, <2>2, <3>2 DEF OnItsWay, Present, Settled
    <3>3. CASE complete /\ b = a
      <4>1. ~mode.direct /\ a \notin addIfFound
        BY <1>1 DEF WordOut
      <4>2. Named(a)
        BY <1>2, <3>3, <4>1 DEF WordOut, Settled
      <4>3. a \in unresolved
        BY <1>1, <1>2, <4>1, <4>2 DEF Named, Settled
      <4>. QED
        BY <1>1, <3>3, <4>3 DEF OnItsWay
    <3>. QED
      BY <3>1, <3>2, <3>3
  <2>. QED
    BY <1>1, <1>2, <2>1, <2>2 DEF ReachedKept
<1>. QED
  BY <1>6, <1>7, <1>8, <1>10, <1>11, <1>12, <1>13, <1>14

\* A client that finds a server failing drops whatever object its address has.
LEMMA ServerFailsKeepsIInv ==
  ASSUME ClusterIInv, NEW c \in Acquirers, ServerFails(c)
  PROVE  ClusterIInv'
<1> USE DEF ClusterIInv
<1>1. /\ client[c].at = "picked" /\ RemoveServer(client[c].obj)
      /\ reached' = reached \ {object[client[c].obj].addr}
      /\ Become(c, [client[c] EXCEPT !.at = "checking", !.obj = Nil])
      /\ UNCHANGED <<role, mode, clusterRefs, dynaSeeds, loop, spawned, talk, pending, adding,
                     addIfFound, seen, unresolved, complete, clusterPanic>>
  BY DEF ServerFails, world
<1>2. PICK o \in Objects, a \in Addrs : o = client[c].obj /\ object[o].addr = a
  BY <1>1 DEF PickedOk
<1>3. /\ servers' \in [Addrs -> Objects \cup {Nil}] /\ servers'[a] = Nil
      /\ \A b \in Addrs \ {a} : servers'[b] = servers[b]
      /\ object' \in [Objects -> Object]
      /\ \A x \in Objects : /\ object'[x].addr = object[x].addr
                            /\ object'[x].open => object[x].open /\ x # o /\ x # servers[a]
      /\ \A b \in Addrs : servers'[b] # Nil => object'[servers'[b]].addr = b
      /\ masters' \subseteq Addrs /\ MastersKnown'
  BY <1>1, <1>2, RemoveServerDoes
<1>4. client' \in [Acquirers -> Call] /\ \A d \in Acquirers : PickedOk(d)'
  <2>1. PICK r \in Call : r.at = "checking" /\ Become(c, r)
    <3>1. client[c] \in Call
      BY DEF LocalsOk
    <3> DEFINE r == [client[c] EXCEPT !.at = "checking", !.obj = Nil]
    <3>2. r \in Call /\ r.at = "checking"
      BY <3>1 DEF Call
    <3>3. Become(c, r)
      BY <1>1
    <3> HIDE DEF r
    <3>. QED
      BY <3>2, <3>3
  <2>. QED
    BY <1>3, <2>1, Becomes
<1>5. ClusterTypeOK' /\ RefsOk' /\ NoClusterPanic'
  BY <1>1, <1>3, Common
<1>6. LocalsOk'
  BY <1>1, <1>4 DEF LocalsOk
<1>7. \A b \in Addrs, x \in Objects : Free(x, b) => Free(x, b)'
  BY <1>3 DEF Free
<1>8. \A b \in Addrs : OneTalk(b)'
  BY <1>1, <1>7 DEF OneTalk, Free
<1>9. \A p \in adding : p.obj \in Objects /\ object'[p.obj].addr = object[p.obj].addr
  BY <1>3 DEF OneClaim, Free
<1>10. \A p \in adding' : OneClaim(p)'
  BY <1>1, <1>7, <1>9 DEF OneClaim
<1>11. Rests' /\ (Settled' <=> Settled)
  BY <1>1 DEF Rests, Settled
<1>12. OpenKept'
  <2>1. ASSUME NEW x \in Objects, object'[x].open PROVE Kept(x)'
    <3>1. Kept(x) /\ x # servers[a]
      BY <1>3, <2>1 DEF OpenKept
    <3>. QED
      BY <1>1, <1>3, <3>1 DEF Kept
  <2>. QED
    BY <2>1 DEF OpenKept
<1>13. WordOut'
  BY <1>1 DEF WordOut, Named
<1>14. ReachedKept'
  <2>1. \A b \in reached' : b \in reached /\ b \in Addrs \ {a}
    BY <1>1, <1>2 DEF LocalsOk
  <2>2. ASSUME NEW b \in reached', OnItsWay(b) PROVE OnItsWay(b)'
    BY <1>1, <1>3, <1>9, <1>11, <2>1, <2>2 DEF OnItsWay, Present
  <2>. QED
    BY <1>1, <2>1, <2>2 DEF ReachedKept
<1>. QED
  BY <1>3, <1>4, <1>5, <1>6, <1>8, <1>10, <1>11, <1>12, <1>13, <1>14

----------------------------------------------------------------------------
(* The theorem                                                             *)

LEMMA NextKeepsIInv ==
  ASSUME ClusterIInv, [ClusterNext]_clusterVars
  PROVE  ClusterIInv'
<1>1. CASE LoopStart
  BY <1>1, LoopStepsKeepIInv, LoopStartKeepsIInv
<1>2. CASE FinishIteration \/ Drain \/ Tick \/ Select
  BY <1>2, LoopStepsKeepIInv
<1>3. CASE LoopRelease
  BY <1>3, LoopReleaseKeepsIInv
<1>4. ASSUME NEW a \in Addrs, NEW byMaster \in BOOLEAN, BeginSync(a, byMaster)
      PROVE  ClusterIInv'
  BY <1>4, BeginSyncKeepsIInv
<1>5. ASSUME NEW a \in Addrs,
             \/ GetServer(a) \/ SyncFails(a) \/ SyncReplies(a) \/ AddFound(a)
             \/ FinishPending(a) \/ Hiccup(a) \/ Change(a)
      PROVE  ClusterIInv'
  BY <1>5, GetServerKeepsIInv, SyncFailsKeepsIInv, SyncRepliesKeepsIInv, AddFoundKeepsIInv,
     FinishPendingKeepsIInv, HiccupKeepsIInv, ChangeKeepsIInv
<1>6. ASSUME NEW p \in adding, AddClaimed(p) PROVE ClusterIInv'
  BY <1>6, AddClaimedKeepsIInv
<1>7. ASSUME NEW c \in Acquirers, NEW slaveOk \in BOOLEAN, CallCluster(c, slaveOk)
      PROVE  ClusterIInv'
  BY <1>7, CallClusterKeepsIInv
<1>8. ASSUME NEW c \in Acquirers, ClientStep(c) \/ LimitReached(c) \/ TimePasses(c)
      PROVE  ClusterIInv'
  BY <1>8, ClientMovesKeepIInv, ServerFailsKeepsIInv DEF ClientStep
<1>9. CASE AcquireCluster \/ SessionCloses
  BY <1>9, AcquireClusterKeepsIInv, SessionClosesKeepsIInv
<1>10. CASE UNCHANGED clusterVars
  <2>1. /\ UNCHANGED <<role, mode, known, clusterRefs, dynaSeeds, loop, iteration, clusterPanic>>
        /\ UNCHANGED client
    BY <1>10 DEF clusterVars, known, iteration
  <2>2. client' \in [Acquirers -> Call] /\ \A c \in Acquirers : PickedOk(c)'
    BY <2>1 DEF ClusterIInv, LocalsOk, PickedOk, known
  <2>. QED
    BY <2>1, <2>2, ClientsMove
<1>. QED
  BY <1>1, <1>2, <1>3, <1>4, <1>5, <1>6, <1>7, <1>8, <1>9, <1>10 DEF ClusterNext, SyncStep

\* For any replica set, however its members come and go: neither panic of the
\* cluster is reached, its masters are the servers last seen as masters, no
\* server object is left open outside of the cluster, all are closed when the
\* loop has ended, and a synchronisation that heard of a master keeps every
\* member it reached.
THEOREM ClusterCorrect == ClusterSpec => []ClusterInv
<1>1. ClusterInit => ClusterIInv
  BY InitIInv
<1>2. ClusterIInv /\ [ClusterNext]_clusterVars => ClusterIInv'
  BY NextKeepsIInv
<1>3. ClusterIInv => ClusterInv
  BY IInvImplies
<1>. QED
  BY <1>1, <1>2, <1>3, PTL DEF ClusterSpec

----------------------------------------------------------------------------
(* The servers a cluster knows: the search by halves                       *)

Increasing(list) == \A i, j \in 1 .. Len(list) : i < j => list[i] < list[j]

\* Where the search of addr from i to j ends: behind the last lesser one.
Upto(list, addr, i, j) == {i} \cup {k \in (i + 1) .. j : list[k] < addr}
Before(list, addr, i, j) == Max(Upto(list, addr, i, j))

LEMMA BeforeIs ==
  ASSUME NEW list, NEW addr, NEW i \in Nat, NEW j \in Nat
  PROVE  /\ Before(list, addr, i, j) \in Upto(list, addr, i, j)
         /\ \A k \in Upto(list, addr, i, j) : k <= Before(list, addr, i, j)
         /\ Before(list, addr, i, j) \in Nat
         /\ i >= j => Before(list, addr, i, j) = i
         /\ i <= j => Before(list, addr, i, j) <= j
<1>. DEFINE S == Upto(list, addr, i, j)
            m == IF i >= j THEN i ELSE j
<1>1. S \subseteq Nat /\ S # {} /\ (\A k \in S : k <= m) /\ m \in Nat /\ i \in S
  BY DEF Upto
<1>2. Max(S) \in S /\ \A k \in S : k <= Max(S)
  <2>. HIDE DEF S, m
  <2>. QED
    BY <1>1, HasGreatest
<1>. QED
  BY <1>1, <1>2 DEF Before, Upto

LEMMA BeforeNone ==
  ASSUME NEW list, NEW addr, NEW i \in Nat, NEW j \in Nat, i >= j
  PROVE  Before(list, addr, i, j) = i
  BY BeforeIs

LEMMA BeforeOnly ==
  ASSUME NEW list, NEW addr, NEW i \in Nat, NEW j \in Nat,
         NEW m \in Upto(list, addr, i, j), \A k \in Upto(list, addr, i, j) : k <= m
  PROVE  Before(list, addr, i, j) = m
<1>. DEFINE S == Upto(list, addr, i, j)
<1>1. S \subseteq Nat
  BY DEF Upto
<1>2. Max(S) = m
  <2>. HIDE DEF S
  <2>1. m \in S /\ \A k \in S : k <= m
    BY DEF S
  <2>. QED
    BY <1>1, <2>1, MaxUnique
<1>. QED
  BY <1>2 DEF Before

\* Each half that is left has the end of the whole.
LEMMA Halves ==
  ASSUME NEW list \in Seq(Nat), Increasing(list), NEW addr \in Nat,
         NEW i \in 0 .. Len(list), NEW j \in 0 .. Len(list), i < j,
         NEW h, h = (i + j) \div 2
  PROVE  /\ h \in i .. (j - 1)
         /\ list[h + 1] >= addr => Before(list, addr, i, j) = Before(list, addr, i, h)
         /\ ~ (list[h + 1] >= addr) => Before(list, addr, i, j) = Before(list, addr, h + 1, j)
<1>1. h \in i .. (j - 1) /\ h \in Nat /\ i \in Nat /\ j \in Nat /\ h + 1 \in 1 .. Len(list)
  OBVIOUS
<1>2. \A k \in 1 .. Len(list) : list[k] \in Nat
  OBVIOUS
<1>3. ASSUME list[h + 1] >= addr
      PROVE  Upto(list, addr, i, j) = Upto(list, addr, i, h)
  <2>1. ASSUME NEW k \in (h + 1) .. j PROVE ~ (list[k] < addr)
    <3>1. k \in 1 .. Len(list) /\ list[k] \in Nat /\ list[h + 1] \in Nat
      BY <1>1, <1>2
    <3>2. k = h + 1 \/ list[h + 1] < list[k]
      BY <1>1, <3>1 DEF Increasing
    <3>. QED
      BY <1>3, <3>1, <3>2
  <2>. QED
    BY <1>1, <2>1 DEF Upto
<1>4. ASSUME ~ (list[h + 1] >= addr)
      PROVE  Before(list, addr, i, j) = Before(list, addr, h + 1, j)
  <2>1. list[h + 1] < addr /\ h + 1 \in Nat
    BY <1>1, <1>2, <1>4
  <2>. DEFINE m == Before(list, addr, h + 1, j)
  <2>2. m \in Upto(list, addr, h + 1, j) /\ \A k \in Upto(list, addr, h + 1, j) : k <= m
    BY <1>1, <2>1, BeforeIs
  <2>3. m \in Upto(list, addr, i, j) /\ m >= h + 1
    BY <1>1, <2>1, <2>2 DEF Upto
  <2>4. ASSUME NEW k \in Upto(list, addr, i, j) PROVE k <= m
    <3>1. k \in Nat /\ (k <= h + 1 \/ k \in Upto(list, addr, h + 1, j))
      BY <1>1 DEF Upto
    <3>. QED
      BY <1>1, <2>2, <2>3, <3>1, BeforeIs
  <2>. HIDE DEF m
  <2>5. Before(list, addr, i, j) = m
    BY <1>1, <2>3, <2>4, BeforeOnly
  <2>. QED
    BY <2>5 DEF m
<1>. QED
  BY <1>1, <1>3, <1>4 DEF Before

\* The search by halves ends there: an induction over what is left.
LEMMA SearchLeast ==
  ASSUME NEW list \in Seq(Nat), Increasing(list), NEW addr \in Nat
  PROVE  Search(list, addr) = Before(list, addr, 0, Len(list))
<1>. DEFINE n == Len(list)
            R == (0 .. n) \X (0 .. n)
            mid(r) == (r[1] + r[2]) \div 2
            Turn(f, r) == IF r[1] >= r[2] THEN r[1]
                          ELSE IF list[mid(r) + 1] >= addr THEN f[<<r[1], mid(r)>>]
                                                           ELSE f[<<mid(r) + 1, r[2]>>]
            Halving(f) == f = [r \in R |-> Turn(f, r)]
            Halve == CHOOSE f : Halving(f)
            ends == [r \in R |-> Before(list, addr, r[1], r[2])]
<1>1. Search(list, addr) = Halve[<<0, n>>]
  BY DEF Search
<1>2. n \in Nat
  OBVIOUS
<1>3. ASSUME NEW i \in 0 .. n, NEW j \in 0 .. n, i < j
      PROVE  /\ mid(<<i, j>>) \in 0 .. n /\ mid(<<i, j>>) + 1 \in 0 .. n
             /\ mid(<<i, j>>) \in i .. (j - 1)
             /\ list[mid(<<i, j>>) + 1] >= addr
                  => Before(list, addr, i, j) = Before(list, addr, i, mid(<<i, j>>))
             /\ ~ (list[mid(<<i, j>>) + 1] >= addr)
                  => Before(list, addr, i, j) = Before(list, addr, mid(<<i, j>>) + 1, j)
  <2>1. PICK h : h = (i + j) \div 2
    OBVIOUS
  <2>2. h \in i .. (j - 1)
    BY <1>2, <1>3, <2>1, Halves
  <2>3. /\ list[h + 1] >= addr => Before(list, addr, i, j) = Before(list, addr, i, h)
        /\ ~ (list[h + 1] >= addr) => Before(list, addr, i, j) = Before(list, addr, h + 1, j)
    BY <1>2, <1>3, <2>1, Halves
  <2>. QED
    BY <1>2, <1>3, <2>1, <2>2, <2>3
<1>. HIDE DEF mid
<1>4. Halving(ends)
  <2>1. ASSUME NEW r \in R PROVE ends[r] = Turn(ends, r)
    <3>1. PICK i \in 0 .. n, j \in 0 .. n : r = <<i, j>>
      OBVIOUS
    <3>2. r[1] = i /\ r[2] = j /\ i \in Nat /\ j \in Nat
      BY <1>2, <3>1
    <3>3. ends[r] = Before(list, addr, i, j)
      BY <3>2
    <3>4. CASE i >= j
      <4>1. Turn(ends, r) = i
        BY <3>2, <3>4
      <4>2. Before(list, addr, i, j) = i
        BY <3>2, <3>4, BeforeNone
      <4>. QED
        BY <3>3, <4>1, <4>2
    <3>5. CASE i < j
      <4>1. ends[<<i, mid(r)>>] = Before(list, addr, i, mid(r))
        BY <1>3, <3>1, <3>2, <3>5
      <4>2. ends[<<mid(r) + 1, j>>] = Before(list, addr, mid(r) + 1, j)
        BY <1>3, <3>1, <3>2, <3>5
      <4>. HIDE DEF ends
      <4>. QED
        BY <1>3, <3>1, <3>2, <3>3, <3>5, <4>1, <4>2
    <3>. QED
      BY <3>2, <3>4, <3>5
  <2>2. ends = [r \in R |-> ends[r]]
    OBVIOUS
  <2>. HIDE DEF ends, Turn
  <2>. QED
    BY <2>1, <2>2
<1>5. Halving(Halve)
  <2>. HIDE DEF Halving, ends
  <2>. QED
    BY <1>4
<1>6. ASSUME NEW i \in 0 .. n, NEW j \in 0 .. n
      PROVE  Halve[<<i, j>>] = Turn(Halve, <<i, j>>)
  <2>. HIDE DEF Halve, Turn
  <2>. QED
    BY <1>5
<1>. HIDE DEF Halve
<1>. DEFINE Ends(d) == \A i, j \in 0 .. n : j - i <= d => Halve[<<i, j>>] = Before(list, addr, i, j)
            Good == {d \in Nat : Ends(d)}
<1>7. 0 \in Good
  <2>1. ASSUME NEW i \in 0 .. n, NEW j \in 0 .. n, j - i <= 0
        PROVE  Halve[<<i, j>>] = Before(list, addr, i, j)
    <3>1. i \in Nat /\ j \in Nat /\ i >= j
      BY <1>2, <2>1
    <3>2. Before(list, addr, i, j) = i
      BY <3>1, BeforeNone
    <3>3. Halve[<<i, j>>] = i
      BY <1>6, <3>1
    <3>. QED
      BY <3>2, <3>3
  <2>. QED
    BY <2>1
<1>8. ASSUME NEW d \in Good PROVE d + 1 \in Good
  <2>1. d \in Nat /\ \A i, j \in 0 .. n : j - i <= d => Halve[<<i, j>>] = Before(list, addr, i, j)
    OBVIOUS
  <2>2. ASSUME NEW i \in 0 .. n, NEW j \in 0 .. n, j - i <= d + 1
        PROVE  Halve[<<i, j>>] = Before(list, addr, i, j)
    <3>1. CASE j <= i
      <4>1. i \in Nat /\ j \in Nat /\ i >= j
        BY <1>2, <3>1
      <4>2. Before(list, addr, i, j) = i
        BY <4>1, BeforeNone
      <4>3. Halve[<<i, j>>] = i
        BY <1>6, <4>1
      <4>. QED
        BY <4>2, <4>3
    <3>2. CASE i < j
      <4>1. PICK h : h = mid(<<i, j>>)
        OBVIOUS
      <4>2. h \in i .. (j - 1) /\ h \in 0 .. n /\ h + 1 \in 0 .. n
        BY <1>3, <3>2, <4>1
      <4>3. /\ Halve[<<i, h>>] = Before(list, addr, i, h)
            /\ Halve[<<h + 1, j>>] = Before(list, addr, h + 1, j)
        <5>1. h - i <= d /\ j - (h + 1) <= d
          BY <1>2, <2>1, <2>2, <4>2
        <5>. QED
          BY <2>1, <4>2, <5>1
      <4>4. /\ list[h + 1] >= addr => Before(list, addr, i, j) = Before(list, addr, i, h)
            /\ ~ (list[h + 1] >= addr) => Before(list, addr, i, j) = Before(list, addr, h + 1, j)
        BY <1>3, <3>2, <4>1
      <4>5. Halve[<<i, j>>] = IF list[h + 1] >= addr THEN Halve[<<i, h>>] ELSE Halve[<<h + 1, j>>]
        <5>1. ~ (i >= j)
          BY <1>2, <3>2
        <5>. QED
          BY <1>6, <4>1, <5>1
      <4>. QED
        BY <4>3, <4>4, <4>5
    <3>. QED
      BY <3>1, <3>2, <1>2
  <2>. QED
    BY <2>1, <2>2
<1>9. Good = Nat
  <2>1. Good \subseteq Nat
    OBVIOUS
  <2>. HIDE DEF Good
  <2>. QED
    BY <1>7, <1>8, <2>1, Induction
<1>10. n \in Good
  BY <1>2, <1>9
<1>11. Halve[<<0, n>>] = Before(list, addr, 0, n)
  BY <1>2, <1>10
<1>. QED
  BY <1>1, <1>11

\* A search of a sorted list finds what is in it.
LEMMA FoundIs ==
  ASSUME NEW list \in Seq(Nat), Increasing(list), NEW addr \in Nat
  PROVE  /\ IsFound(list, addr) <=> addr \in ToSet(list)
         /\ IsFound(list, addr) => /\ Search(list, addr) \in 0 .. Len(list) - 1
                                   /\ list[Search(list, addr) + 1] = addr
<1>. PICK m, n : m = Search(list, addr) /\ n = Len(list)
  OBVIOUS
<1>1. n \in Nat /\ (\A k \in 1 .. n : list[k] \in Nat) /\ DOMAIN list = 1 .. n
  OBVIOUS
<1>2. m = Before(list, addr, 0, n)
  BY SearchLeast
<1>3. /\ m \in 0 .. n
      /\ m \in Upto(list, addr, 0, n)
      /\ \A k \in Upto(list, addr, 0, n) : k <= m
  BY <1>1, <1>2, BeforeIs DEF Upto
<1>4. m \in 0 .. n /\ (m # 0 => list[m] < addr)
      /\ \A k \in 1 .. n : list[k] < addr => k <= m
  BY <1>1, <1>3 DEF Upto
<1>5. IsFound(list, addr) <=> m # n /\ list[m + 1] = addr
  BY DEF IsFound
<1>6. ASSUME addr \in ToSet(list) PROVE m # n /\ list[m + 1] = addr
  <2>1. PICK q \in 1 .. n : list[q] = addr
    BY <1>1, <1>6 DEF ToSet
  <2>2. q > m
    <3>1. m # 0 /\ q < m => list[q] < list[m]
      BY <1>1, <1>4, <2>1 DEF Increasing
    <3>. QED
      BY <1>1, <1>4, <2>1, <3>1
  <2>3. q = m + 1
    <3>1. SUFFICES ASSUME q > m + 1 PROVE FALSE
      BY <1>4, <2>1, <2>2
    <3>2. m + 1 \in 1 .. n /\ list[m + 1] < list[q]
      BY <1>1, <1>4, <2>1, <3>1 DEF Increasing
    <3>. QED
      BY <1>4, <2>1, <3>2
  <2>. QED
    BY <1>1, <1>4, <2>1, <2>2, <2>3
<1>7. ASSUME m # n, list[m + 1] = addr
      PROVE  addr \in ToSet(list) /\ m \in 0 .. n - 1
  <2>1. m \in 0 .. n - 1 /\ m + 1 \in DOMAIN list
    BY <1>1, <1>4, <1>7
  <2>. QED
    BY <1>7, <2>1 DEF ToSet
<1>. QED
  BY <1>5, <1>6, <1>7

\* Appended to a sorted list, an address has its place in it.
LEMMA Places ==
  ASSUME NEW list \in Seq(Nat), Increasing(list), NEW s \in Nat, s \notin ToSet(list),
         NEW longer, longer = Append(list, s), NEW n, n = Len(longer)
  PROVE  \E order \in Bijection(1 .. n, 1 .. n) :
           \A i, j \in 1 .. n : i < j => longer[order[i]] <= longer[order[j]]
<1>. DEFINE m == Before(list, s, 0, Len(list))
            order == [i \in 1 .. n |-> IF i <= m THEN i ELSE IF i = m + 1 THEN n ELSE i - 1]
<1>1. /\ n = Len(list) + 1 /\ n \in Nat /\ longer[n] = s
      /\ \A k \in 1 .. n - 1 : longer[k] = list[k] /\ list[k] \in Nat /\ list[k] # s
  BY DEF ToSet
<1>2. m \in 0 .. n - 1 /\ m \in Upto(list, s, 0, n - 1)
      /\ \A k \in Upto(list, s, 0, n - 1) : k <= m
  BY <1>1, BeforeIs
<1>. HIDE DEF m
<1>3. (m # 0 => list[m] < s) /\ \A k \in 1 .. n - 1 : list[k] < s => k <= m
  BY <1>1, <1>2 DEF Upto
<1>4. order \in Bijection(1 .. n, 1 .. n)
  <2>1. order \in [1 .. n -> 1 .. n]
    BY <1>1, <1>2
  <2>2. ASSUME NEW i \in 1 .. n, NEW j \in 1 .. n, order[i] = order[j] PROVE i = j
    BY <1>1, <1>2, <2>2
  <2>3. ASSUME NEW j \in 1 .. n PROVE \E i \in 1 .. n : order[i] = j
    <3>1. PICK i : i = IF j <= m THEN j ELSE IF j = n THEN m + 1 ELSE j + 1
      OBVIOUS
    <3>2. i \in 1 .. n /\ order[i] = j
      BY <1>1, <1>2, <3>1
    <3>. QED
      BY <3>2
  <2>. HIDE DEF order
  <2>. QED
    BY <2>1, <2>2, <2>3 DEF Bijection, Injection, Surjection, IsInjective
<1>5. ASSUME NEW i \in 1 .. n, NEW j \in 1 .. n, i < j
      PROVE  longer[order[i]] <= longer[order[j]]
  <2>. USE <1>1, <1>2, <1>5
  <2>1. CASE j <= m
    <3>1. order[i] = i /\ order[j] = j /\ j \in 1 .. n - 1 /\ i \in 1 .. n - 1
      BY <2>1
    <3>. HIDE DEF order
    <3>2. list[i] < list[j]
      BY <3>1 DEF Increasing
    <3>. QED
      BY <3>1, <3>2
  <2>2. CASE j = m + 1
    <3>1. i <= m /\ i \in 1 .. n - 1 /\ longer[order[j]] = s /\ longer[order[i]] = list[i]
      BY <2>2
    <3>2. i = m \/ list[i] < list[m]
      BY <3>1 DEF Increasing
    <3>. QED
      BY <1>3, <3>1, <3>2
  <2>3. CASE j > m + 1 /\ i = m + 1
    <3>1. j - 1 \in 1 .. n - 1 /\ longer[order[j]] = list[j - 1] /\ longer[order[i]] = s
      BY <2>3
    <3>. HIDE DEF order
    <3>2. ~ (list[j - 1] < s) /\ list[j - 1] \in Nat
      BY <1>3, <2>3, <3>1
    <3>. QED
      BY <3>1, <3>2
  <2>4. CASE j > m + 1 /\ i # m + 1
    <3>1. PICK a : a = IF i <= m THEN i ELSE i - 1
      OBVIOUS
    <3>2. a \in 1 .. n - 1 /\ j - 1 \in 1 .. n - 1 /\ a < j - 1
      BY <2>4, <3>1
    <3>3. longer[order[i]] = list[a] /\ longer[order[j]] = list[j - 1]
      <4>1. order[i] = a /\ order[j] = j - 1
        BY <2>4, <3>1
      <4>. HIDE DEF order
      <4>. QED
        BY <1>1, <3>2, <4>1
    <3>. HIDE DEF order
    <3>4. list[a] < list[j - 1] /\ list[a] \in Nat /\ list[j - 1] \in Nat
      <4>1. a \in 1 .. Len(list) /\ j - 1 \in 1 .. Len(list)
        BY <1>1, <3>2
      <4>. QED
        BY <1>1, <3>2, <4>1 DEF Increasing
    <3>. QED
      BY <3>3, <3>4
  <2>5. j <= m \/ j = m + 1 \/ j > m + 1
    OBVIOUS
  <2>. HIDE DEF order
  <2>. QED
    BY <2>1, <2>2, <2>3, <2>4, <2>5, Zenon
<1>. QED
  BY <1>4, <1>5

\* sort.Sort after an append: an increasing list with one address more.
LEMMA Sorts ==
  ASSUME NEW list \in Seq(Nat), Increasing(list), NEW s \in Nat, s \notin ToSet(list)
  PROVE  LET more == Sorted(Append(list, s)) IN
         /\ more \in Seq(Nat) /\ Len(more) = Len(list) + 1
         /\ Increasing(more) /\ ToSet(more) = ToSet(list) \cup {s}
<1>1. PICK longer, n : longer = Append(list, s) /\ n = Len(longer)
  OBVIOUS
<1>2. /\ n = Len(list) + 1 /\ n \in Nat /\ longer[n] = s
      /\ \A k \in 1 .. n - 1 : longer[k] = list[k] /\ list[k] \in Nat /\ list[k] # s
      /\ \A k \in 1 .. n : longer[k] \in Nat
      /\ DOMAIN list = 1 .. n - 1
  BY <1>1 DEF ToSet
<1>3. PICK order \in Bijection(1 .. n, 1 .. n) :
           /\ \A i, j \in 1 .. n : i < j => longer[order[i]] <= longer[order[j]]
           /\ Sorted(longer) = [i \in 1 .. n |-> longer[order[i]]]
  BY <1>1, Places DEF Sorted
<1>4. /\ \A i \in 1 .. n : order[i] \in 1 .. n
      /\ \A i, j \in 1 .. n : order[i] = order[j] => i = j
      /\ order \in [1 .. n -> 1 .. n]
      /\ \A i \in 1 .. n : \E j \in 1 .. n : order[j] = i
  BY DEF Bijection, Injection, Surjection, IsInjective
<1>6. PICK more : more = Sorted(longer)
  OBVIOUS
<1>7. more \in Seq(Nat) /\ Len(more) = n /\ DOMAIN more = 1 .. n
      /\ \A i \in 1 .. n : more[i] = longer[order[i]]
  <2>1. more = [i \in 1 .. n |-> longer[order[i]]]
    BY <1>3, <1>6
  <2>2. \A i \in 1 .. n : longer[order[i]] \in Nat
    BY <1>2, <1>4
  <2>3. more \in [1 .. n -> Nat]
    BY <2>1, <2>2
  <2>4. more \in Seq(Nat) /\ Len(more) = n
    BY <1>2, <2>3
  <2>. QED
    BY <2>1, <2>4
<1>8. \A i, j \in 1 .. n : longer[i] = longer[j] => i = j
  <2>1. ASSUME NEW i \in 1 .. n, NEW j \in 1 .. n, i < j PROVE longer[i] # longer[j]
    <3>1. CASE j = n
      BY <1>2, <2>1, <3>1
    <3>2. CASE j # n
      BY <1>2, <2>1, <3>2 DEF Increasing
    <3>. QED
      BY <3>1, <3>2
  <2>. QED
    BY <1>2, <2>1
<1>9. ASSUME NEW i \in 1 .. n, NEW j \in 1 .. n, i < j PROVE more[i] < more[j]
  <2>1. order[i] # order[j]
    BY <1>4, <1>9
  <2>2. longer[order[i]] # longer[order[j]] /\ longer[order[i]] <= longer[order[j]]
    <3>1. order[i] \in 1 .. n /\ order[j] \in 1 .. n
      BY <1>4
    <3>2. longer[order[i]] # longer[order[j]]
      BY <1>8, <2>1, <3>1
    <3>. QED
      BY <1>3, <1>9, <3>2
  <2>3. more[i] = longer[order[i]] /\ more[j] = longer[order[j]]
        /\ longer[order[i]] \in Nat /\ longer[order[j]] \in Nat
    BY <1>2, <1>4, <1>7
  <2>. QED
    BY <2>2, <2>3
<1>10. ToSet(more) = ToSet(longer) /\ ToSet(longer) = ToSet(list) \cup {s}
  <2>1. DOMAIN longer = 1 .. n
    BY <1>1
  <2>2. ToSet(more) = ToSet(longer)
    <3>1. ToSet(more) = {more[i] : i \in 1 .. n} /\ ToSet(longer) = {longer[i] : i \in 1 .. n}
      BY <1>7, <2>1 DEF ToSet
    <3>2. ASSUME NEW i \in 1 .. n PROVE \E j \in 1 .. n : more[i] = longer[j]
      BY <1>4, <1>7
    <3>3. ASSUME NEW i \in 1 .. n PROVE \E j \in 1 .. n : longer[i] = more[j]
      <4>1. PICK j \in 1 .. n : order[j] = i
        BY <1>4
      <4>. QED
        BY <1>7, <4>1
    <3>. QED
      BY <3>1, <3>2, <3>3
  <2>3. ToSet(longer) = ToSet(list) \cup {s}
    <3>1. ToSet(longer) = {longer[i] : i \in 1 .. n} /\ ToSet(list) = {list[i] : i \in 1 .. n - 1}
      BY <1>2, <2>1 DEF ToSet
    <3>2. ASSUME NEW i \in 1 .. n PROVE longer[i] = s \/ (i \in 1 .. n - 1 /\ longer[i] = list[i])
      BY <1>2
    <3>3. n \in 1 .. n /\ \A i \in 1 .. n - 1 : i \in 1 .. n
      BY <1>2
    <3>. QED
      BY <1>2, <3>1, <3>2, <3>3
  <2>. QED
    BY <2>2, <2>3
<1>. QED
  BY <1>1, <1>2, <1>6, <1>7, <1>9, <1>10 DEF Increasing

\* copy and the shorter slice of Remove.
LEMMA Removes ==
  ASSUME NEW list \in Seq(Nat), Increasing(list), NEW k \in 1 .. Len(list)
  PROVE  LET less == RemoveAt(list, k) IN
         /\ less \in Seq(Nat) /\ Len(less) = Len(list) - 1
         /\ Increasing(less) /\ ToSet(less) = ToSet(list) \ {list[k]}
<1>. DEFINE less == RemoveAt(list, k)
<1>. PICK n : n = Len(list)
  OBVIOUS
<1>1. n \in Nat /\ (\A i \in 1 .. n : list[i] \in Nat) /\ DOMAIN list = 1 .. n /\ k \in 1 .. n
  OBVIOUS
<1>2. /\ less \in Seq(Nat) /\ Len(less) = n - 1 /\ DOMAIN less = 1 .. n - 1
      /\ \A i \in 1 .. n - 1 : less[i] = IF i < k THEN list[i] ELSE list[i + 1]
  <2>. DEFINE a == SubSeq(list, 1, k - 1)
              b == SubSeq(list, k + 1, n)
  <2>1. a \in Seq(Nat) /\ Len(a) = k - 1 /\ \A i \in 1 .. k - 1 : a[i] = list[i]
    BY <1>1
  <2>2. b \in Seq(Nat) /\ Len(b) = n - k /\ \A i \in 1 .. n - k : b[i] = list[k + i]
    BY <1>1
  <2>3. less = a \o b
    BY DEF RemoveAt
  <2>. HIDE DEF a, b, less
  <2>4. /\ less \in Seq(Nat) /\ Len(less) = n - 1 /\ DOMAIN less = 1 .. n - 1
    <3>1. less \in Seq(Nat) /\ Len(less) = Len(a) + Len(b)
      <4>1. a \o b \in Seq(Nat) /\ Len(a \o b) = Len(a) + Len(b)
        BY <2>1, <2>2, ConcatProperties
      <4>. QED
        BY <2>3, <4>1
    <3>2. Len(less) = n - 1
      BY <1>1, <2>1, <2>2, <3>1
    <3>. QED
      BY <3>1, <3>2
  <2>7. \A i \in 1 .. n - 1 : less[i] = IF i < k THEN a[i] ELSE b[i - (k - 1)]
    <3>1. \A i \in 1 .. Len(a) + Len(b) :
            (a \o b)[i] = IF i <= Len(a) THEN a[i] ELSE b[i - Len(a)]
      BY <2>1, <2>2, ConcatProperties
    <3>2. ASSUME NEW i \in 1 .. n - 1
          PROVE  less[i] = IF i < k THEN a[i] ELSE b[i - (k - 1)]
      <4>1. i \in 1 .. Len(a) + Len(b) /\ (i < k <=> i <= Len(a)) /\ Len(a) = k - 1
        BY <1>1, <2>1, <2>2
      <4>. QED
        BY <2>3, <3>1, <4>1
    <3>. QED
      BY <3>2
  <2>5. ASSUME NEW i \in 1 .. n - 1 PROVE less[i] = IF i < k THEN list[i] ELSE list[i + 1]
    <3>1. CASE i < k
      BY <1>1, <2>1, <2>7, <3>1
    <3>2. CASE ~ (i < k)
      <4>1. i - (k - 1) \in 1 .. n - k /\ k + (i - (k - 1)) = i + 1
        BY <1>1, <3>2
      <4>2. b[i - (k - 1)] = list[k + (i - (k - 1))]
        BY <2>2, <4>1
      <4>. QED
        BY <2>7, <3>2, <4>1, <4>2
    <3>. QED
      BY <3>1, <3>2
  <2>. QED
    BY <2>4, <2>5
<1>. HIDE DEF less
<1>3. Increasing(less)
  <2>1. ASSUME NEW i \in 1 .. n - 1, NEW j \in 1 .. n - 1, i < j PROVE less[i] < less[j]
    <3>1. PICK a, b : /\ a = (IF i < k THEN i ELSE i + 1)
                      /\ b = (IF j < k THEN j ELSE j + 1)
      OBVIOUS
    <3>2. less[i] = list[a] /\ less[j] = list[b]
      BY <1>2, <2>1, <3>1
    <3>3. a \in 1 .. n /\ b \in 1 .. n /\ a < b
      BY <1>1, <2>1, <3>1
    <3>. QED
      BY <3>2, <3>3 DEF Increasing
  <2>. QED
    BY <1>2, <2>1 DEF Increasing
<1>4. \A i, j \in 1 .. n : list[i] = list[j] => i = j
  BY <1>1 DEF Increasing
<1>5. ASSUME NEW i \in 1 .. n, i # k PROVE \E j \in 1 .. n - 1 : less[j] = list[i]
  <2>1. CASE i < k
    <3>1. i \in 1 .. n - 1
      BY <1>1, <2>1
    <3>2. less[i] = list[i]
      BY <1>2, <2>1, <3>1
    <3>. QED
      BY <3>1, <3>2
  <2>2. CASE i > k
    <3>1. i - 1 \in 1 .. n - 1 /\ less[i - 1] = list[i]
      BY <1>1, <1>2, <2>2
    <3>. QED
      BY <3>1
  <2>. QED
    BY <1>1, <1>5, <2>1, <2>2
<1>6. ASSUME NEW j \in 1 .. n - 1 PROVE \E i \in 1 .. n : i # k /\ less[j] = list[i]
  <2>1. CASE j < k
    <3>1. j \in 1 .. n /\ less[j] = list[j] /\ j # k
      BY <1>1, <1>2, <2>1
    <3>. QED
      BY <3>1
  <2>2. CASE ~ (j < k)
    <3>1. j + 1 \in 1 .. n /\ less[j] = list[j + 1] /\ j + 1 # k
      BY <1>1, <1>2, <2>2
    <3>. QED
      BY <3>1
  <2>. QED
    BY <2>1, <2>2
<1>7. ToSet(less) = ToSet(list) \ {list[k]}
  <2>1. ToSet(less) = {less[j] : j \in 1 .. n - 1} /\ ToSet(list) = {list[i] : i \in 1 .. n}
    BY <1>1, <1>2 DEF ToSet
  <2>2. ASSUME NEW x PROVE x \in ToSet(less) <=> x \in ToSet(list) \ {list[k]}
    <3>1. ASSUME x \in ToSet(less) PROVE x \in ToSet(list) \ {list[k]}
      BY <1>1, <1>4, <1>6, <2>1, <3>1
    <3>2. ASSUME x \in ToSet(list) \ {list[k]} PROVE x \in ToSet(less)
      BY <1>1, <1>5, <2>1, <3>2
    <3>. QED
      BY <3>1, <3>2
  <2>. QED
    BY <2>2
<1>. QED
  BY <1>2, <1>3, <1>7 DEF less

----------------------------------------------------------------------------
(* The servers a cluster knows: BestFit                                    *)

\* What BestFit does with one server more.
Better(best, s, info, asked) ==
  IF best = NoServer
    THEN IF Eligible(info[s], asked) THEN s ELSE NoServer
    ELSE IF Swap(info[s], info[best], asked) THEN s ELSE best

Known(all, info) ==
  /\ all \subseteq Nat \ {NoServer}
  /\ \A s \in all : /\ info[s].master \in BOOLEAN
                    /\ info[s].ping \in Nat /\ info[s].used \in Nat

LEMMA FitsNone == ASSUME NEW info, NEW asked PROVE Fits(NoServer, {}, info, asked)
  BY DEF Fits

\* A choice that fits some servers is replaced by one that fits these and the next.
LEMMA FitsBetter ==
  ASSUME NEW all, NEW s, NEW info, NEW asked, Known(all \cup {s}, info),
         NEW best, Fits(best, all, info, asked)
  PROVE  Fits(Better(best, s, info, asked), all \cup {s}, info, asked)
<1>. DEFINE fit == {x \in all : Eligible(info[x], asked)}
            more == {x \in all \cup {s} : Eligible(info[x], asked)}
            next == Better(best, s, info, asked)
<1>1. s # NoServer /\ \A x \in all : x # NoServer
  BY DEF Known
<1>2. (fit = {} => best = NoServer) /\ (fit # {} => best \in fit /\ best # NoServer)
  BY <1>1 DEF Fits
<1>3. CASE fit = {}
  <2>1. CASE Eligible(info[s], asked)
    <3>1. next = s /\ more = {s}
      BY <1>2, <1>3, <2>1 DEF Better
    <3>2. info[s].used \in Nat
      BY DEF Known
    <3>. QED
      BY <3>1, <3>2 DEF Fits
  <2>2. CASE ~ Eligible(info[s], asked)
    <3>1. next = NoServer /\ more = {}
      BY <1>2, <1>3, <2>2 DEF Better
    <3>. QED
      BY <3>1 DEF Fits
  <2>. QED
    BY <2>1, <2>2
<1>4. CASE fit # {} /\ ~ Eligible(info[s], asked)
  <2>1. next = best /\ more = fit
    BY <1>2, <1>4 DEF Better, Swap
  <2>. QED
    BY <1>4, <2>1 DEF Fits
<1>5. CASE fit # {} /\ Eligible(info[s], asked)
  <2>. DEFINE peers(b, f) == {x \in f : info[x].master = info[b].master}
              Near2(b, f) == \A x, y \in peers(b, f) : Apart(info[x].ping, info[y].ping) <= Near
  <2>1. /\ best \in fit /\ best # NoServer /\ more = fit \cup {s}
        /\ next = IF Swap(info[s], info[best], asked) THEN s ELSE best
        /\ next \in more
    BY <1>2, <1>5 DEF Better
  <2>2. /\ info[best].master => \A x \in fit : info[x].master
        /\ Near2(best, fit) => \A x \in peers(best, fit) : info[best].used <= info[x].used
    BY <1>5 DEF Fits
  <2>3. \A x \in more : /\ info[x].master \in BOOLEAN
                        /\ info[x].ping \in Nat /\ info[x].used \in Nat
    BY DEF Known
  <2>4. ASSUME info[next].master, NEW x \in more PROVE info[x].master
    BY <1>5, <2>1, <2>2, <2>3, <2>4 DEF Swap
  <2>5. ASSUME Near2(next, more), NEW x \in peers(next, more)
        PROVE  info[next].used <= info[x].used
    <3>1. CASE info[s].master # info[best].master
      <4>1. CASE info[best].master
        <5>1. next = s /\ \A y \in fit : info[y].master # info[s].master
          BY <1>5, <2>1, <2>2, <2>3, <3>1, <4>1 DEF Swap
        <5>2. x = s
          BY <2>1, <2>5, <5>1
        <5>. QED
          BY <2>3, <2>1, <5>1, <5>2
      <4>2. CASE ~ info[best].master
        <5>1. next = best
          BY <2>1, <3>1, <4>2 DEF Swap
        <5>2. peers(next, more) = peers(best, fit)
          BY <2>1, <3>1, <5>1
        <5>. QED
          BY <2>2, <2>5, <5>1, <5>2
      <4>. QED
        BY <4>1, <4>2
    <3>2. CASE info[s].master = info[best].master
      <4>1. info[next].master = info[best].master
        BY <2>1, <3>2
      <4>2. peers(next, more) = peers(best, fit) \cup {s}
        BY <2>1, <3>2, <4>1
      <4>3. \A y \in peers(best, fit) : info[best].used <= info[y].used
        BY <2>2, <2>5, <4>2
      <4>4. Apart(info[s].ping, info[best].ping) <= Near
        BY <2>1, <2>5, <4>2
      <4>5. next = IF info[s].used < info[best].used THEN s ELSE best
        <5>1. Apart(info[s].ping, info[best].ping) \in Int /\ Near \in Nat
          BY <2>1, <2>3, ServersAssumption DEF Apart
        <5>2. ~ (Apart(info[s].ping, info[best].ping) > Near)
          BY <4>4, <5>1
        <5>. QED
          BY <1>5, <2>1, <3>2, <4>4, <5>2 DEF Swap
      <4>6. x \in peers(best, fit) \/ x = s
        BY <2>5, <4>2
      <4>. QED
        BY <2>1, <2>3, <4>3, <4>5, <4>6
    <3>. QED
      BY <3>1, <3>2
  <2>. QED
    BY <2>1, <2>4, <2>5 DEF Fits
<1>. QED
  BY <1>3, <1>4, <1>5

\* BestFit over a list of any length: an induction over what it has looked at.
LEMMA FoldFits ==
  ASSUME NEW list \in Seq(Nat), NEW info, NEW asked, Known(ToSet(list), info)
  PROVE  Fits(BestFit(list, info, asked), ToSet(list), info, asked)
<1>. PICK n : n = Len(list)
  OBVIOUS
<1>1. n \in Nat /\ DOMAIN list = 1 .. n /\ \A k \in 1 .. n : list[k] \in Nat
  OBVIOUS
<1>. DEFINE op == [k \in 1 .. n |-> [best \in Nat |-> Better(best, list[k], info, asked)]]
            Turn(f, s) == IF s = {} THEN NoServer
                          ELSE Better(f[s \ {Max(s)}], list[Max(s)], info, asked)
            Folds(f) == f = [s \in SUBSET (1 .. n) |-> Turn(f, s)]
            it == CHOOSE f : Folds(f)
<1>2. BestFit(list, info, asked) = it[1 .. n]
  BY <1>1 DEF BestFit, FoldLeft, MapThenFoldSet, Better
<1>3. \E f : Folds(f)
  <2>1. NoServer \in Nat
    BY DEF NoServer
  <2>2. op \in [1 .. n -> [Nat -> Nat]]
    <3>1. ASSUME NEW k \in 1 .. n, NEW best \in Nat
          PROVE  Better(best, list[k], info, asked) \in Nat
      BY <1>1, <2>1 DEF Better
    <3>. QED
      BY <3>1
  <2>. HIDE DEF op
  <2>3. PICK f \in [SUBSET (1 .. n) -> Nat] : \A s \in SUBSET (1 .. n) :
               f[s] = IF s = {} THEN NoServer ELSE op[Max(s)][f[s \ {Max(s)}]]
    <3>1. \E f \in [SUBSET (1 .. n) -> Nat] : FoldsTo(f, n, NoServer, op)
      BY <1>1, <2>1, <2>2, FoldExists
    <3>. QED
      BY <3>1 DEF FoldsTo
  <2>4. ASSUME NEW s \in SUBSET (1 .. n) PROVE f[s] = Turn(f, s)
    <3>1. CASE s = {}
      BY <2>3, <3>1
    <3>2. CASE s # {}
      <4>1. Max(s) \in 1 .. n
        <5>1. s \subseteq Nat /\ \A x \in s : x <= n
          BY <1>1
        <5>2. Max(s) \in s
          BY <1>1, <3>2, <5>1, HasGreatest
        <5>. QED
          BY <5>2
      <4>2. f[s \ {Max(s)}] \in Nat
        <5>1. s \ {Max(s)} \in SUBSET (1 .. n)
          OBVIOUS
        <5>. QED
          BY <2>3, <5>1
      <4>3. op[Max(s)][f[s \ {Max(s)}]] = Better(f[s \ {Max(s)}], list[Max(s)], info, asked)
        BY <4>1, <4>2 DEF op
      <4>. QED
        BY <2>3, <3>2, <4>3
    <3>. QED
      BY <3>1, <3>2
  <2>5. f = [s \in SUBSET (1 .. n) |-> f[s]]
    BY <2>3
  <2>. HIDE DEF Turn
  <2>6. Folds(f)
    BY <2>4, <2>5
  <2>. QED
    BY <2>6
<1>4. Folds(it)
  <2>. HIDE DEF Folds
  <2>. QED
    BY <1>3
<1>. HIDE DEF it, op
<1>5. \A s \in SUBSET (1 .. n) : it[s] = Turn(it, s)
  <2>. HIDE DEF Turn
  <2>. QED
    BY <1>4
<1>. HIDE DEF Folds
<1>. DEFINE some(k) == {list[i] : i \in 1 .. k}
            Good == {k \in Nat : k <= n => Fits(it[1 .. k], some(k), info, asked)}
<1>6. 0 \in Good
  <2>1. 1 .. 0 = {} /\ some(0) = {} /\ {} \in SUBSET (1 .. n)
    OBVIOUS
  <2>2. it[1 .. 0] = NoServer
    BY <1>5, <2>1
  <2>. HIDE DEF some
  <2>. QED
    BY <2>1, <2>2, FitsNone
<1>7. ASSUME NEW k \in Good PROVE k + 1 \in Good
  <2>1. k \in Nat
    OBVIOUS
  <2>2. ASSUME k + 1 <= n PROVE Fits(it[1 .. (k + 1)], some(k + 1), info, asked)
    <3>1. PICK m \in 1 .. n : m = k + 1
      BY <1>1, <2>1, <2>2
    <3>2. /\ 1 .. m \in SUBSET (1 .. n) /\ 1 .. m # {}
          /\ Max(1 .. m) = m /\ (1 .. m) \ {m} = 1 .. (m - 1)
      BY <1>1, Prefix
    <3>3. m - 1 = k
      BY <2>1, <3>1
    <3>4. it[1 .. m] = Better(it[1 .. k], list[m], info, asked)
      BY <1>5, <3>2, <3>3
    <3>5. Fits(it[1 .. k], some(k), info, asked)
      BY <1>1, <2>1, <2>2
    <3>6. some(m) = some(k) \cup {list[m]}
      BY <2>1, <3>1
    <3>7. Known(some(k) \cup {list[m]}, info)
      <4>1. some(k) \cup {list[m]} \subseteq ToSet(list)
        <5>1. ToSet(list) = some(n)
          BY <1>1 DEF ToSet
        <5>2. k <= n /\ \A i \in 1 .. k : i \in 1 .. n
          BY <1>1, <2>1, <3>1
        <5>. QED
          BY <5>1, <5>2
      <4>. HIDE DEF some
      <4>. QED
        BY <4>1 DEF Known
    <3>. HIDE DEF some
    <3>. QED
      BY <3>1, <3>4, <3>5, <3>6, <3>7, FitsBetter
  <2>. QED
    BY <2>1, <2>2
<1>8. Good = Nat
  <2>1. Good \subseteq Nat
    OBVIOUS
  <2>. HIDE DEF Good
  <2>. QED
    BY <1>6, <1>7, <2>1, Induction
<1>9. n \in Good
  BY <1>1, <1>8
<1>10. ToSet(list) = some(n)
  BY <1>1 DEF ToSet
<1>. QED
  BY <1>1, <1>2, <1>9, <1>10

----------------------------------------------------------------------------
(* The servers a cluster knows: the invariant                              *)

\* The slice holds the members in the order of their addresses, each once.
SliceOk ==
  /\ slice \in Seq(Nat) /\ Increasing(slice)
  /\ members \subseteq Addresses /\ IsFiniteSet(members)
  /\ ToSet(slice) = members /\ Len(slice) = Cardinality(members)

\* Which of n delays is at i in the window, when the next one goes to `at'.
DelayAt(n, at, i) ==
  IF i < at THEN n - at + i + 1 ELSE n - at - PingWindow + i + 1

\* The window holds the last delays, each at its place.
InPlace(w, n, at, past) ==
  \A i \in 0 .. PingWindow - 1 : i < n => w[i] = past[DelayAt(n, at, i)]

Standing(w, n) == {w[i] : i \in {k \in DOMAIN w : k < n}}
Recent(past, n) == {past[i] : i \in {k \in 1 .. n : k > n - PingWindow}}

PingsOk ==
  /\ delays \in Seq(Delays) /\ pingCount = Len(delays)
  /\ pingIndex \in 0 .. PingWindow - 1
  /\ window \in [0 .. PingWindow - 1 -> Nat]
  /\ pingCount < PingWindow => pingIndex = pingCount
  /\ InPlace(window, pingCount, pingIndex, delays)
  /\ PingIsRecent

ServersIInv == SliceOk /\ PingsOk

LEMMA ServersInitOk == ServersInit => ServersIInv
<1>. SUFFICES ASSUME ServersInit PROVE ServersIInv
  OBVIOUS
<1>1. SliceOk
  BY FS_EmptySet DEF ServersInit, SliceOk, Increasing, ToSet
<1>2. PingIsRecent
  <2>1. {delays[i] : i \in {k \in 1 .. Len(delays) : k > Len(delays) - PingWindow}} = {}
    BY DEF ServersInit
  <2>2. Max({0} \cup {}) = 0
    <3>1. {0} \cup {} \subseteq Nat /\ 0 \in {0} \cup {} /\ \A x \in {0} \cup {} : x <= 0
      OBVIOUS
    <3>. QED
      BY <3>1, MaxUnique
  <2>. QED
    BY <2>1, <2>2 DEF ServersInit, PingIsRecent
<1>3. PingsOk
  BY <1>2, ServersAssumption DEF ServersInit, PingsOk, InPlace
<1>. QED
  BY <1>1, <1>3 DEF ServersIInv

LEMMA AddKeeps ==
  ASSUME ServersIInv, NEW s \in Addresses, ServersAdd(s) PROVE ServersIInv'
<1>1. s \in Nat
  BY ServersAssumption
<1>2. s \notin members
  BY <1>1, FoundIs DEF ServersIInv, SliceOk, ServersAdd
<1>3. /\ slice' \in Seq(Nat) /\ Len(slice') = Len(slice) + 1
      /\ Increasing(slice') /\ ToSet(slice') = ToSet(slice) \cup {s}
  BY <1>1, <1>2, Sorts DEF ServersIInv, SliceOk, ServersAdd
<1>4. /\ members' = members \cup {s} /\ members' \subseteq Addresses
      /\ IsFiniteSet(members') /\ Cardinality(members') = Cardinality(members) + 1
  BY <1>2, FS_AddElement DEF ServersIInv, SliceOk, ServersAdd
<1>5. SliceOk'
  BY <1>3, <1>4 DEF ServersIInv, SliceOk
<1>6. PingsOk'
  BY DEF ServersIInv, PingsOk, ServersAdd, pings, PingIsRecent
<1>. QED
  BY <1>5, <1>6 DEF ServersIInv

LEMMA RemoveKeeps ==
  ASSUME ServersIInv, NEW s \in Addresses, ServersRemove(s) PROVE ServersIInv'
<1>1. s \in Nat
  BY ServersAssumption
<1>2. PICK k : k = Search(slice, s) + 1
  OBVIOUS
<1>3. s \in members /\ k \in 1 .. Len(slice) /\ slice[k] = s
  <2>1. slice \in Seq(Nat) /\ Increasing(slice) /\ IsFound(slice, s) /\ ToSet(slice) = members
    BY DEF ServersIInv, SliceOk, ServersRemove
  <2>2. s \in ToSet(slice) /\ Search(slice, s) \in 0 .. Len(slice) - 1
        /\ slice[Search(slice, s) + 1] = s
    BY <1>1, <2>1, FoundIs
  <2>3. Len(slice) \in Nat
    BY <2>1
  <2>. QED
    BY <1>2, <2>1, <2>2, <2>3
<1>4. /\ slice' \in Seq(Nat) /\ Len(slice') = Len(slice) - 1
      /\ Increasing(slice') /\ ToSet(slice') = ToSet(slice) \ {s}
  <2>1. slice' = RemoveAt(slice, k)
    BY <1>2 DEF ServersRemove
  <2>. QED
    BY <1>3, <2>1, Removes DEF ServersIInv, SliceOk
<1>5. /\ members' = members \ {s} /\ members' \subseteq Addresses
      /\ IsFiniteSet(members') /\ Cardinality(members') = Cardinality(members) - 1
  BY <1>3, FS_RemoveElement DEF ServersIInv, SliceOk, ServersRemove
<1>6. SliceOk'
  BY <1>4, <1>5 DEF ServersIInv, SliceOk
<1>7. PingsOk'
  BY DEF ServersIInv, PingsOk, ServersRemove, pings, PingIsRecent
<1>. QED
  BY <1>6, <1>7 DEF ServersIInv

\* The window holds the last delays, whatever their places in it.
LEMMA WindowIsRecent ==
  ASSUME NEW w, NEW n \in Nat, NEW at \in 0 .. PingWindow - 1, NEW past \in Seq(Delays),
         Len(past) = n, n < PingWindow => at = n, w \in [0 .. PingWindow - 1 -> Nat],
         InPlace(w, n, at, past)
  PROVE  Standing(w, n) = Recent(past, n)
<1>. DEFINE place(i) == DelayAt(n, at, i)
            back(k) == IF k > n - at THEN k + at - n - 1 ELSE k + at + PingWindow - n - 1
            P == {i \in 0 .. PingWindow - 1 : i < n}
            K == {k \in 1 .. n : k > n - PingWindow}
<1>1. PingWindow \in Nat \ {0} /\ DOMAIN w = 0 .. PingWindow - 1
  BY ServersAssumption
<1>2. ASSUME NEW i \in P PROVE place(i) \in K /\ w[i] = past[place(i)]
  <2>1. place(i) \in K
    BY <1>1 DEF DelayAt
  <2>. QED
    BY <2>1 DEF InPlace
<1>3. ASSUME NEW k \in K PROVE back(k) \in P /\ place(back(k)) = k
  <2>1. CASE k > n - at
    BY <1>1, <2>1 DEF DelayAt
  <2>2. CASE ~ (k > n - at)
    BY <1>1, <2>2 DEF DelayAt
  <2>. QED
    BY <2>1, <2>2
<1>4. {w[i] : i \in P} = {past[k] : k \in K}
  <2>. HIDE DEF place, back, P, K
  <2>1. ASSUME NEW k \in K PROVE \E i \in P : w[i] = past[k]
    BY <1>2, <1>3
  <2>. QED
    BY <1>2, <2>1
<1>. QED
  BY <1>1, <1>4 DEF Standing, Recent

LEMMA NextPlace ==
  ASSUME NEW n \in Nat \ {0}, NEW i \in 0 .. n - 1
  PROVE  (i + 1) % n = IF i = n - 1 THEN 0 ELSE i + 1
<1>1. CASE i = n - 1
  <2>1. n % n = 0
    BY SMTT(20)
  <2>. QED
    BY <1>1, <2>1
<1>2. CASE i # n - 1
  <2>1. PICK k \in Nat : k = i + 1 /\ k < n
    BY <1>2
  <2>2. k % n = k
    BY <2>1, SMTT(20)
  <2>. QED
    BY <1>2, <2>1, <2>2
<1>. QED
  BY <1>1, <1>2

LEMMA PingKeeps ==
  ASSUME ServersIInv, NEW d \in Delays, Ping(d) PROVE ServersIInv'
<1>. DEFINE W == PingWindow
<1>1. W \in Nat \ {0} /\ d \in Nat /\ Delays \subseteq Nat
  BY ServersAssumption
<1>2. /\ delays \in Seq(Delays) /\ pingCount = Len(delays) /\ pingCount \in Nat
      /\ pingIndex \in 0 .. W - 1 /\ window \in [0 .. W - 1 -> Nat]
      /\ pingCount < W => pingIndex = pingCount
      /\ InPlace(window, pingCount, pingIndex, delays)
  BY DEF ServersIInv, PingsOk
<1>3. pingIndex' = IF pingIndex = W - 1 THEN 0 ELSE pingIndex + 1
  <2>1. pingIndex' = (pingIndex + 1) % W
    BY DEF Ping
  <2>. QED
    BY <1>1, <1>2, <2>1, NextPlace
<1>4. /\ delays' = Append(delays, d) /\ pingCount' = pingCount + 1
      /\ window' = [window EXCEPT ![pingIndex] = d]
      /\ slice' = slice /\ members' = members
  BY DEF Ping
<1>5. /\ delays' \in Seq(Delays) /\ pingCount' = Len(delays') /\ pingCount' \in Nat
      /\ pingIndex' \in 0 .. W - 1 /\ window' \in [0 .. W - 1 -> Nat]
      /\ pingCount' < W => pingIndex' = pingCount'
  BY <1>1, <1>2, <1>3, <1>4
<1>6. ASSUME NEW i \in 0 .. W - 1, i < pingCount'
      PROVE  window'[i] = delays'[DelayAt(pingCount', pingIndex', i)]
  <2>. DEFINE old == DelayAt(pingCount, pingIndex, i)
              new == DelayAt(pingCount', pingIndex', i)
  <2>1. CASE i = pingIndex
    <3>1. new = pingCount + 1
      BY <1>1, <1>2, <1>3, <1>4, <2>1 DEF DelayAt
    <3>. QED
      BY <1>2, <1>4, <2>1, <3>1
  <2>2. CASE i # pingIndex
    <3>1. new = old /\ i < pingCount
      <4>1. i < pingCount
        BY <1>1, <1>2, <1>4, <1>6, <2>2
      <4>2. CASE pingIndex = W - 1
        BY <1>1, <1>2, <1>3, <1>4, <2>2, <4>1, <4>2 DEF DelayAt
      <4>3. CASE pingIndex # W - 1
        BY <1>1, <1>2, <1>3, <1>4, <2>2, <4>1, <4>3 DEF DelayAt
      <4>. QED
        BY <4>1, <4>2, <4>3
    <3>2. old \in 1 .. pingCount
      BY <1>1, <1>2, <2>2, <3>1 DEF DelayAt
    <3>3. delays'[old] = delays[old]
      BY <1>2, <1>4, <3>2
    <3>. QED
      <4>1. window'[i] = window[i]
        BY <1>2, <1>4, <2>2
      <4>2. window[i] = delays[old]
        BY <1>2, <3>1 DEF InPlace
      <4>. HIDE DEF old, new
      <4>. QED
        BY <3>1, <3>3, <4>1, <4>2 DEF new
  <2>. QED
    BY <2>1, <2>2
<1>7. PingIsRecent'
  <2>1. Standing(window', pingCount') = Recent(delays', pingCount')
    <3>1. InPlace(window', pingCount', pingIndex', delays')
      BY <1>6 DEF InPlace
    <3>2. PICK w, n, at, past : w = window' /\ n = pingCount' /\ at = pingIndex' /\ past = delays'
      OBVIOUS
    <3>3. /\ n \in Nat /\ at \in 0 .. PingWindow - 1 /\ past \in Seq(Delays) /\ Len(past) = n
          /\ n < PingWindow => at = n
          /\ w \in [0 .. PingWindow - 1 -> Nat]
      BY <1>5, <3>2
    <3>4. InPlace(w, n, at, past)
      BY <3>1, <3>2
    <3>5. Standing(w, n) = Recent(past, n)
      BY <3>3, <3>4, WindowIsRecent
    <3>. QED
      BY <3>2, <3>5
  <2>2. pingValue' = PingMax(window', pingCount')
    BY DEF Ping
  <2>. QED
    BY <1>5, <2>1, <2>2 DEF PingIsRecent, PingMax, Standing, Recent
<1>8. PingsOk'
  BY <1>5, <1>6, <1>7 DEF PingsOk, InPlace
<1>9. SliceOk'
  BY <1>4 DEF ServersIInv, SliceOk
<1>. QED
  BY <1>8, <1>9 DEF ServersIInv

LEMMA ServersStep == ServersIInv /\ [ServersNext]_serversVars => ServersIInv'
<1>. SUFFICES ASSUME ServersIInv, [ServersNext]_serversVars PROVE ServersIInv'
  OBVIOUS
<1>1. CASE UNCHANGED serversVars
  BY <1>1 DEF serversVars, ServersIInv, SliceOk, PingsOk, PingIsRecent
<1>. QED
  BY <1>1, AddKeeps, RemoveKeeps, PingKeeps DEF ServersNext

LEMMA ServersEnough == ServersIInv => ServersInv
<1>. SUFFICES ASSUME ServersIInv PROVE ServersInv
  OBVIOUS
<1>1. /\ slice \in Seq(Nat) /\ Increasing(slice) /\ ToSet(slice) = members
      /\ members \subseteq Addresses /\ Addresses \subseteq Nat \ {NoServer}
  BY ServersAssumption DEF ServersIInv, SliceOk, NoServer
<1>2. SearchFinds
  <2>1. \A i \in 1 .. Len(slice) - 1 : slice[i] < slice[i + 1]
    BY <1>1 DEF Increasing
  <2>2. \A s \in Addresses : IsFound(slice, s) <=> s \in members
    BY <1>1, FoundIs
  <2>. QED
    BY <1>1, <2>1, <2>2 DEF SearchFinds, ServersIInv, SliceOk
<1>3. BestFitFits
  <2>1. ASSUME NEW asked \in TagSets, NEW info \in [members -> Infos]
        PROVE  Fits(BestFit(slice, info, asked), members, info, asked)
    <3>1. Known(members, info)
      BY <1>1, InfosAssumption DEF Known
    <3>. QED
      BY <1>1, <3>1, FoldFits
  <2>. QED
    BY <2>1 DEF BestFitFits
<1>. QED
  BY <1>2, <1>3 DEF ServersInv, ServersIInv, PingsOk

\* For any addresses, servers' descriptions, tags asked for and lengths of the
\* window: the search by halves finds exactly the servers that were added and
\* not removed, BestFit chooses as its callers rely on, and the ping of a
\* server is the greatest of its last delays.
THEOREM ServersCorrect == ServersSpec => []ServersInv
<1>1. ServersInit => ServersIInv
  BY ServersInitOk
<1>2. ServersIInv /\ [ServersNext]_serversVars => ServersIInv'
  BY ServersStep
<1>3. ServersIInv => ServersInv
  BY ServersEnough
<1>. QED
  BY <1>1, <1>2, <1>3, PTL DEF ServersSpec
=============================================================================
