------------------------------- MODULE MgoPool -------------------------------
(***************************************************************************)
(* The pool of connections mgo keeps for one database server               *)
(* (mongoServer in mgo/server.go) with the reference counts of its sockets *)
(* (mongoSocket in mgo/socket.go).  Clients are the goroutines that call   *)
(* AcquireSocket: sessions, and the pinger of the server.  One action is   *)
(* one critical section of the server's or of a socket's mutex: between    *)
(* two of them any other goroutine may run.                                *)
(*                                                                         *)
(* liveSockets and unusedSockets are sets: a socket is in each at most     *)
(* once (NoDoubleRecycle), and which unused socket is taken first does not *)
(* matter here.  A socket's server field is nil exactly when it is dead.   *)
(***************************************************************************)
EXTENDS Integers, FiniteSets

CONSTANTS
  Clients,    \* goroutines that acquire sockets with the pool limit
  Pinger,     \* the goroutine of the server's pinger, which has no limit
  Sockets,    \* the connections that may be made
  PoolLimit,  \* the limit argument of AcquireSocket, 0 for none
  NoSocket

ASSUME PoolAssumption ==
  /\ PoolLimit \in Nat
  /\ Pinger \notin Clients
  /\ NoSocket \notin Sockets
  /\ IsFiniteSet(Clients) /\ IsFiniteSet(Sockets)

VARIABLES
  closed,     \* server.closed
  abended,    \* server.abended
  live,       \* server.liveSockets
  unused,     \* server.unusedSockets
  sync,       \* server.sync, a channel with one slot, holds a value
  status,     \* per socket: "none" (not dialled), "alive" or "dead"
  references, \* per socket: socket.references
  abending,   \* sockets that kill is about to hand to AbendSocket
  doomed,     \* sockets that Close is still to kill
  pc, sock,   \* per goroutine: where it is, and the socket in its hands
  panicked,   \* one of the panics on the reference count was reached
  stats       \* the counters of stats.go: sockets alive, in use, references

vars == <<closed, abended, live, unused, sync, status, references, abending,
          doomed, pc, sock, panicked, stats>>
server == <<closed, abended, live, unused, sync>>
sockets == <<status, references, abending, doomed, panicked, stats>>

Goroutines == Clients \cup {Pinger}
Limit(c) == IF c = Pinger THEN 0 ELSE PoolLimit

Init ==
  /\ closed = FALSE /\ abended = FALSE /\ sync = FALSE
  /\ live = {} /\ unused = {} /\ abending = {} /\ doomed = {}
  /\ status = [s \in Sockets |-> "none"]
  /\ references = [s \in Sockets |-> 0]
  /\ pc = [c \in Goroutines |-> "idle"]
  /\ sock = [c \in Goroutines |-> NoSocket]
  /\ panicked = FALSE
  /\ stats = [alive |-> 0, inUse |-> 0, refs |-> 0]

Goto(c, to, s) ==
  /\ pc' = [pc EXCEPT ![c] = to]
  /\ sock' = [sock EXCEPT ![c] = s]

\* After its ping the pinger looks at server.closed once more.
Rest(c) == IF c = Pinger THEN "pinged" ELSE "idle"

----------------------------------------------------------------------------
(* AcquireSocket: the loop, its two refusals, a cached or a new socket.    *)

Call(c) ==
  /\ pc[c] = "idle"
  /\ Goto(c, "acquiring", NoSocket)
  /\ UNCHANGED <<server, sockets>>

OverLimit(c) == /\ Limit(c) > 0
                /\ Cardinality(live) - Cardinality(unused) >= Limit(c)

\* Mutant: the pinger of a closed server tries again.
PingerGoesOn(c) ==
  /\ pc[c] = "acquiring"
  /\ closed
  /\ Goto(c, "idle", NoSocket)
  /\ UNCHANGED <<server, sockets>>

RefuseClosed(c) ==
  /\ pc[c] = "acquiring"
  /\ closed
  /\ Goto(c, IF c = Pinger THEN "stopped" ELSE "idle", NoSocket)
  /\ UNCHANGED <<server, sockets>>

RefuseLimit(c) ==
  /\ pc[c] = "acquiring"
  /\ ~closed
  /\ OverLimit(c)
  /\ Goto(c, "idle", NoSocket)
  /\ UNCHANGED <<server, sockets>>

PopUnused(c) ==
  /\ pc[c] = "acquiring"
  /\ ~closed
  /\ ~OverLimit(c)
  /\ \E s \in unused :
       /\ unused' = unused \ {s}
       /\ Goto(c, "popped", s)
  /\ UNCHANGED <<closed, abended, live, sync, sockets>>

Dial(c) ==
  /\ pc[c] = "acquiring"
  /\ ~closed
  /\ ~OverLimit(c)
  /\ unused = {}
  /\ Goto(c, "dialing", NoSocket)
  /\ UNCHANGED <<server, sockets>>

\* A socket that died in the cache sends its caller back to the loop.
InitialAcquire(c) ==
  LET s == sock[c] IN
  /\ pc[c] = "popped"
  /\ \/ /\ references[s] > 0
        /\ panicked' = TRUE
        /\ UNCHANGED <<status, references, stats, pc, sock>>
     \/ /\ references[s] = 0
        /\ status[s] = "dead"
        /\ Goto(c, "acquiring", NoSocket)
        /\ UNCHANGED <<status, references, stats, panicked>>
     \/ /\ references[s] = 0
        /\ status[s] = "alive"
        /\ references' = [references EXCEPT ![s] = 1]
        /\ stats' = [stats EXCEPT !.inUse = @ + 1, !.refs = @ + 1]
        /\ Goto(c, "holding", s)
        /\ UNCHANGED <<status, panicked>>
  /\ UNCHANGED <<server, abending, doomed>>

ConnectFails(c) ==
  /\ pc[c] = "dialing"
  /\ Goto(c, "idle", NoSocket)
  /\ UNCHANGED <<server, sockets>>

\* newSocket takes the first reference and starts the read loop, which may
\* kill the socket from now on; AcquireSocket has not recorded it yet.
Connect(c) ==
  /\ pc[c] = "dialing"
  /\ \E s \in Sockets :
       /\ status[s] = "none"
       /\ status' = [status EXCEPT ![s] = "alive"]
       /\ references' = [references EXCEPT ![s] = 1]
       /\ Goto(c, "connected", s)
  /\ stats' = [alive |-> stats.alive + 1, inUse |-> stats.inUse + 1,
               refs |-> stats.refs + 1]
  /\ UNCHANGED <<server, abending, doomed, panicked>>

Record(c) ==
  /\ pc[c] = "connected"
  /\ ~closed
  /\ live' = live \cup {sock[c]}
  /\ Goto(c, "holding", sock[c])
  /\ UNCHANGED <<closed, abended, unused, sync, sockets>>

\* The server was closed during the dial: Release, whose RecycleSocket does
\* nothing on a closed server, then Close of the socket.
DropLate(c) ==
  LET s == sock[c] IN
  /\ pc[c] = "connected"
  /\ closed
  /\ references' = [references EXCEPT ![s] = @ - 1]
  /\ status' = [status EXCEPT ![s] = "dead"]
  /\ stats' = [alive |-> IF status[s] = "alive" THEN stats.alive - 1 ELSE stats.alive,
               inUse |-> stats.inUse - 1, refs |-> stats.refs - 1]
  /\ Goto(c, IF c = Pinger THEN "stopped" ELSE "idle", NoSocket)
  /\ UNCHANGED <<server, abending, doomed, panicked>>

----------------------------------------------------------------------------
(* References: Acquire by a second session, Release, RecycleSocket.        *)

Acquire(c, d) ==
  LET s == sock[c] IN
  /\ pc[c] = "holding" /\ c # Pinger
  /\ pc[d] = "idle" /\ d # Pinger
  /\ \/ /\ references[s] = 0
        /\ panicked' = TRUE
        /\ UNCHANGED <<references, stats, pc, sock>>
     \/ /\ references[s] > 0
        /\ references' = [references EXCEPT ![s] = @ + 1]
        /\ stats' = [stats EXCEPT !.refs = @ + 1]
        /\ Goto(d, "holding", s)
        /\ UNCHANGED panicked
  /\ UNCHANGED <<server, status, abending, doomed>>

\* Mutant: every release recycles the socket, not the last one only.
ReleaseEarly(c) ==
  LET s == sock[c] IN
  /\ pc[c] = "holding"
  /\ references[s] > 0
  /\ references' = [references EXCEPT ![s] = @ - 1]
  /\ stats' = [stats EXCEPT !.refs = @ - 1]
  /\ IF status[s] = "dead" THEN Goto(c, Rest(c), NoSocket)
                           ELSE Goto(c, "recycling", s)
  /\ UNCHANGED <<server, status, abending, doomed, panicked>>

\* The last reference out reads socket.server under the lock and recycles
\* the socket after it.
Release(c) ==
  LET s == sock[c] IN
  /\ pc[c] = "holding"
  /\ \/ /\ references[s] = 0
        /\ panicked' = TRUE
        /\ UNCHANGED <<references, stats, pc, sock>>
     \/ /\ references[s] > 1
        /\ references' = [references EXCEPT ![s] = @ - 1]
        /\ stats' = [stats EXCEPT !.refs = @ - 1]
        /\ Goto(c, Rest(c), NoSocket)
        /\ UNCHANGED panicked
     \/ /\ references[s] = 1
        /\ references' = [references EXCEPT ![s] = 0]
        /\ stats' = [stats EXCEPT !.refs = @ - 1, !.inUse = @ - 1]
        /\ IF status[s] = "dead" THEN Goto(c, Rest(c), NoSocket)
                                 ELSE Goto(c, "recycling", s)
        /\ UNCHANGED panicked
  /\ UNCHANGED <<server, status, abending, doomed>>

RecycleSocket(c) ==
  /\ pc[c] = "recycling"
  /\ unused' = IF closed THEN unused ELSE unused \cup {sock[c]}
  /\ Goto(c, Rest(c), NoSocket)
  /\ UNCHANGED <<closed, abended, live, sync, sockets>>

\* pinger: the check of server.closed after a ping.
AfterPing ==
  /\ pc[Pinger] = "pinged"
  /\ Goto(Pinger, IF closed THEN "stopped" ELSE "idle", NoSocket)
  /\ UNCHANGED <<server, sockets>>

----------------------------------------------------------------------------
(* Sockets die: kill by the read loop, AbendSocket, Close of the server.   *)

Kill(s) ==
  /\ status[s] = "alive"
  /\ status' = [status EXCEPT ![s] = "dead"]
  /\ stats' = [stats EXCEPT !.alive = @ - 1]

KillAbend(s) ==
  /\ Kill(s)
  /\ abending' = abending \cup {s}
  /\ UNCHANGED <<server, references, doomed, pc, sock, panicked>>

AbendSocket(s) ==
  /\ s \in abending
  /\ abending' = abending \ {s}
  /\ abended' = TRUE
  /\ live' = IF closed THEN live ELSE live \ {s}
  /\ unused' = IF closed THEN unused ELSE unused \ {s}
  /\ sync' = IF closed THEN sync ELSE TRUE
  /\ UNCHANGED <<closed, status, references, doomed, pc, sock, panicked, stats>>

\* The cluster takes the suggestion to synchronise.
TakeSync ==
  /\ sync
  /\ sync' = FALSE
  /\ UNCHANGED <<closed, abended, live, unused, sockets, pc, sock>>

Close ==
  /\ ~closed
  /\ closed' = TRUE
  /\ doomed' = live
  /\ live' = {}
  /\ unused' = {}
  /\ UNCHANGED <<abended, sync, status, references, abending, pc, sock, panicked, stats>>

CloseSocket(s) ==
  /\ s \in doomed
  /\ doomed' = doomed \ {s}
  /\ \/ Kill(s)
     \/ status[s] = "dead" /\ UNCHANGED <<status, stats>>
  /\ UNCHANGED <<server, references, abending, pc, sock, panicked>>

----------------------------------------------------------------------------
AcquireSocket(c) ==
  \/ RefuseClosed(c) \/ RefuseLimit(c) \/ PopUnused(c) \/ Dial(c)
  \/ InitialAcquire(c) \/ ConnectFails(c) \/ Connect(c)
  \/ Record(c) \/ DropLate(c)

Next ==
  \/ \E c \in Goroutines : \/ Call(c) \/ AcquireSocket(c) \/ Release(c)
                           \/ RecycleSocket(c)
                           \/ \E d \in Goroutines : Acquire(c, d)
  \/ AfterPing
  \/ \E s \in Sockets : KillAbend(s) \/ AbendSocket(s) \/ CloseSocket(s)
  \/ TakeSync
  \/ Close

\* A goroutine inside the pool runs on, and a pinger ends its ping (its
\* socket has a deadline); nothing makes a session release what it holds.
Fairness ==
  /\ \A c \in Goroutines : /\ WF_vars(AcquireSocket(c))
                           /\ WF_vars(RecycleSocket(c))
  /\ WF_vars(Call(Pinger)) /\ WF_vars(Release(Pinger))
  /\ WF_vars(AfterPing)
  /\ \A s \in Sockets : WF_vars(AbendSocket(s)) /\ WF_vars(CloseSocket(s))

Spec == Init /\ [][Next]_vars /\ Fairness

----------------------------------------------------------------------------
TypeOK ==
  /\ closed \in BOOLEAN /\ abended \in BOOLEAN /\ sync \in BOOLEAN
  /\ panicked \in BOOLEAN
  /\ live \subseteq Sockets /\ unused \subseteq Sockets
  /\ abending \subseteq Sockets /\ doomed \subseteq Sockets
  /\ status \in [Sockets -> {"none", "alive", "dead"}]
  /\ references \in [Sockets -> Nat]
  /\ pc \in [Goroutines -> {"idle", "acquiring", "popped", "dialing", "connected",
                            "holding", "recycling", "pinged", "stopped"}]
  /\ sock \in [Goroutines -> Sockets \cup {NoSocket}]
  /\ stats \in [alive : Int, inUse : Int, refs : Int]

\* The goroutines that own a reference to s, and those that carry s between
\* the cache and its first or after its last reference.
Owners(s) == {c \in Goroutines : sock[c] = s /\ pc[c] \in {"connected", "holding"}}
Carriers(s) == {c \in Goroutines : sock[c] = s /\ pc[c] \in {"popped", "recycling"}}

\* socket.references counts the goroutines that own a reference, whatever
\* the order in which sessions share, release and lose the socket.
ReferencesExact == \A s \in Sockets : references[s] = Cardinality(Owners(s))

\* None of the three panics on the count of references is ever reached.
NoPanic == ~panicked

\* A cached socket has no owner and is in nobody's hands, so that two
\* sessions never get it from the cache and none recycles it twice.
NoDoubleRecycle ==
  \A s \in Sockets :
    /\ s \in unused => Owners(s) = {} /\ Carriers(s) = {}
    /\ Carriers(s) # {} => Owners(s) = {}
    /\ \A c, d \in Carriers(s) : c = d

\* No healthy connection is lost: while the server is open, one that nobody
\* owns or carries is in the cache, ready for the next AcquireSocket.
NothingLost ==
  ~closed => \A s \in Sockets :
    status[s] = "alive" /\ Owners(s) = {} /\ Carriers(s) = {} => s \in unused

\* What stats.go counts is what the sockets are: the test suite of mgo reads
\* these counters to decide that no socket leaks.
StatsExact ==
  /\ stats.alive = Cardinality({s \in Sockets : status[s] = "alive"})
  /\ stats.inUse = Cardinality({s \in Sockets : references[s] > 0})
  /\ stats.refs = Cardinality({c \in Goroutines : pc[c] \in {"connected", "holding"}})

\* What the accounts rest on: a goroutine has a socket in its hands where it
\* works on one and nowhere else, and only a socket that was dialled; until it
\* is recorded it is its dialler's alone; what AbendSocket is called for is dead.
InHand ==
  /\ \A c \in Goroutines :
       pc[c] \in {"popped", "connected", "holding", "recycling"} <=> sock[c] # NoSocket
  /\ \A s \in Sockets :
       status[s] = "none" => s \notin unused /\ Owners(s) = {} /\ Carriers(s) = {}
  /\ \A s \in Sockets : \A c \in Owners(s) : pc[c] = "connected" => Owners(s) = {c}
  /\ \A s \in abending : status[s] = "dead"

\* The accounts of the pool agree with one another on every path (the parts
\* are above): a wrong one is a leaked connection, or one used by two.  It is
\* inductive.
PoolInv ==
  /\ TypeOK /\ InHand
  /\ ReferencesExact /\ NoPanic /\ NoDoubleRecycle /\ NothingLost /\ StatsExact

\* A closed server gets rid of every connection, those that were being
\* dialled when it was closed included.
ClosedSocketsDie == closed ~> \A s \in Sockets : status[s] # "alive"

\* The pinger of a closed server ends.
PingerEnds == closed ~> pc[Pinger] = "stopped"

\* server.go:97-98: "a socket will only be returned if the number of sockets
\* in use for this server is under the provided limit".
LimitKept ==
  PoolLimit > 0 => Cardinality({s \in Sockets : references[s] > 0
                       /\ \E c \in Clients : c \in Owners(s)}) <= PoolLimit

\* server.go:197-198: a socket handed to AbendSocket "should be discarded
\* rather than cached"; here: it is not in unusedSockets ...
Abended(s) == status[s] = "dead" /\ s \notin abending /\ ~closed
AbendedNotCached == \A s \in Sockets : Abended(s) => s \notin unused
\* ... and once released it does not count in liveSockets for ever.
AbendedNotCounted ==
  \A s \in Sockets : ~<>[](Abended(s) /\ references[s] = 0 /\ s \in live)
=============================================================================
