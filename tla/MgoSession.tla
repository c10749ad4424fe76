----------------------------- MODULE MgoSession -----------------------------
(* A session of mgo (session.go): the sockets it reserves, the consistency   *)
(* mode that decides which, the credentials it applies to them, and the      *)
(* goroutines that share it.  Every section a goroutine runs under the lock  *)
(* session.m is one step, except that acquireSocket holds the lock while the *)
(* cluster looks for a socket, which takes as long as it takes: others wait  *)
(* meanwhile.                                                                *)
EXTENDS Naturals, FiniteSets

CONSTANTS Callers,    \* goroutines
          Sessions,   \* session objects
          Connections,    \* connections, all that are ever open at once
          Creds,      \* credentials
          None,       \* no session, no socket
          Plays,      \* scenarios: [callers: goroutines, calls: methods they use]
          MaxChanges  \* bound: SetMode, Copy, Clone, Login and Logout calls

\* Finitely many of each at a time; a scenario uses some of the goroutines.
ASSUME SessionAssumption ==
    /\ IsFiniteSet(Sessions) /\ IsFiniteSet(Callers)
    /\ None \notin Sessions /\ None \notin Callers /\ None \notin Connections
    /\ MaxChanges \in Nat
    /\ \A p \in Plays : p.callers \subseteq Callers

VARIABLES play,     \* the scenario
          session,  \* session[s]: the fields of the session
          socket,   \* socket[k]: references, serverInfo.Master and logins
          caller,   \* caller[c]: the call in progress
          changes,  \* bounded calls so far
          steppedDown,\* history: a socket for writing came from a server that
                      \* had just stopped being the master
          sessionPanic  \* the message of a panic, or "none"

sessionVars == <<play, session, socket, caller, changes, steppedDown, sessionPanic>>

Modes == {"eventual", "monotonic", "strong"}

Idle == [call |-> "idle", at |-> "idle", s |-> None, slaveOk |-> FALSE,
         sock |-> None, cred |-> None]
Unborn == [open |-> FALSE, consistency |-> "eventual", slaveOk |-> FALSE,
           masterSocket |-> None, slaveSocket |-> None, creds |-> {},
           lock |-> None, wrote |-> FALSE]

Pooled == [refs |-> 0, master |-> FALSE, logins |-> {}]

SessionInit == /\ play \in Plays
               /\ session = [s \in Sessions |-> Unborn]
               /\ socket = [k \in Connections |-> Pooled]
               /\ caller = [c \in Callers |-> Idle]
               /\ changes = 0
               /\ steppedDown = FALSE
               /\ sessionPanic = "none"

--------------------------------------------------------------------------------
(* References to sockets.                                                     *)

Reserved(x) == {x.masterSocket, x.slaveSocket} \ {None}

\* mongoSocket.Acquire for every socket of K.
Refer(K) == [k \in Connections |-> IF k \in K THEN [socket[k] EXCEPT !.refs = @ + 1]
                               ELSE socket[k]]

\* mongoSocket.Release for every socket of K: the last reference gives the
\* socket back to the pool and logs every user out.
ReleaseSockets(K) == [k \in Connections |->
                 IF k \notin K THEN socket[k]
                 ELSE IF socket[k].refs = 1 THEN Pooled
                 ELSE [socket[k] EXCEPT !.refs = @ - 1]]

unsetSocket(x) == [x EXCEPT !.masterSocket = None, !.slaveSocket = None]

\* Mutant: a slave is found before the master.
FoundSlaveFirst(x, slaveOk) ==
    IF x.slaveSocket # None /\ slaveOk THEN x.slaveSocket ELSE x.masterSocket

\* The socket acquireSocket finds reserved, None if it must ask for one.
Found(x, slaveOk) ==
    IF x.masterSocket # None THEN x.masterSocket
    ELSE IF x.slaveOk /\ slaveOk THEN x.slaveSocket ELSE None

Unlocked(s) == session[s].lock = None

\* Sessions in the hands of the program: Dial has not returned its own yet.
Usable(s) == /\ session[s].open /\ Unlocked(s)
             /\ \A d \in Callers : caller[d].s = s => caller[d].call # "dial"
May(c, call) == /\ sessionPanic = "none"
                /\ c \in play.callers
                /\ call \in play.calls
                /\ caller[c] = Idle

--------------------------------------------------------------------------------
(* acquireSocket: a read may use a slave (slaveOk), a write may not; Login    *)
(* and Ping ask as reads do.                                                  *)

Use(c, k) == /\ caller' = [caller EXCEPT ![c].at = "using", ![c].sock = k]
             /\ socket' = Refer({k})

\* Under the read lock.
AcquireReserved(c, s, call, cred) ==
    LET slaveOk == call # "write"
        k == Found(session[s], slaveOk)
        asked == [call |-> call, at |-> IF k = None THEN "missed" ELSE "using", s |-> s,
                  slaveOk |-> slaveOk, sock |-> k, cred |-> cred]
    IN /\ May(c, call)
       /\ Usable(s)
       /\ caller' = [caller EXCEPT ![c] = asked]
       /\ socket' = Refer({k})
       /\ session' = [session EXCEPT ![s].wrote = @ \/ (call = "write" /\ k # None)]
       /\ UNCHANGED <<play, steppedDown, sessionPanic>>

Read(c, s) == AcquireReserved(c, s, "read", None) /\ UNCHANGED changes
Write(c, s) == AcquireReserved(c, s, "write", None) /\ UNCHANGED changes

\* Session.Login, up to the socket it logs in on.
LoginBegins(c, s, cred) == /\ changes < MaxChanges
                           /\ changes' = changes + 1
                           /\ AcquireReserved(c, s, "login", cred)

\* The first attempt missed: look again under the lock, which is kept while
\* the cluster is asked for a socket.
Look(c) ==
    LET s == caller[c].s
        k == Found(session[s], caller[c].slaveOk)
    IN /\ sessionPanic = "none"
       /\ caller[c].at = "missed"
       /\ Unlocked(s)
       /\ \/ /\ k # None
             /\ Use(c, k)
             /\ session' = [session EXCEPT ![s].wrote = @ \/ caller[c].call = "write"]
          \/ /\ k = None
             /\ session' = [session EXCEPT ![s].lock = c]
             /\ caller' = [caller EXCEPT ![c].at = "asking"]
             /\ UNCHANGED socket
       /\ UNCHANGED <<play, changes, steppedDown, sessionPanic>>

\* What becomes of a Dial whose Ping failed: Close.
Failed(c, x) == [(IF caller[c].call = "dial" THEN [unsetSocket(x) EXCEPT !.open = FALSE]
                                             ELSE x) EXCEPT !.lock = None]

\* The cluster has no socket, or socketLogin fails on it and it is released.
Refused(c) ==
    LET s == caller[c].s
    IN /\ sessionPanic = "none"
       /\ caller[c].at = "asking"
       /\ session' = [session EXCEPT ![s] = Failed(c, @)]
       /\ caller' = [caller EXCEPT ![c] = Idle]
       /\ UNCHANGED <<play, socket, changes, steppedDown, sessionPanic>>

\* setSocket reserves socket k, of a server that is the master or not.
setSocket(x, k, master) == IF master THEN [x EXCEPT !.masterSocket = k]
                           ELSE [x EXCEPT !.slaveSocket = k]
Taken(x, master) == IF master THEN x.masterSocket # None ELSE x.slaveSocket # None

\* The session keeps every new socket, but an Eventual one that holds no slave.
Keeps(x) == x.consistency # "eventual" \/ x.slaveSocket # None

\* A Monotonic session goes over to the master at its first write.
Switch(x, slaveOk) == IF ~slaveOk /\ x.consistency = "monotonic"
                      THEN [x EXCEPT !.slaveOk = FALSE] ELSE x

\* A pooled socket, one of many that are alike.
Spare == LET free == {k \in Connections : socket[k].refs = 0}
         IN IF free = {} THEN {} ELSE {CHOOSE k \in free : TRUE}

\* The cluster returns socket k with the serverInfo of this moment.  A server
\* chosen as the master may have stepped down since it was chosen.
Given(c, k, master) ==
    LET s == caller[c].s
        x == session[s]
        slaveOk == caller[c].slaveOk
        used == [x EXCEPT !.lock = None, !.wrote = @ \/ caller[c].call = "write"]
        down == ~master /\ ~(slaveOk /\ x.slaveOk)
        crash == Keeps(x) /\ Taken(x, master)
        kept == Keeps(x) /\ ~crash
    IN /\ sessionPanic = "none"
       /\ caller[c].at = "asking"
       /\ k \in Spare
       /\ steppedDown' = (steppedDown \/ down)
       /\ sessionPanic' = IF crash THEN "setSocket with existing socket reserved" ELSE "none"
       /\ socket' = [socket EXCEPT ![k] = [refs |-> IF kept THEN 2 ELSE 1, master |-> master,
                                           logins |-> x.creds]]
       /\ session' = [session EXCEPT ![s] =
                         Switch(IF kept THEN setSocket(used, k, master) ELSE used, slaveOk)]
       /\ caller' = [caller EXCEPT ![c].at = "using", ![c].sock = k]
       /\ UNCHANGED <<play, changes>>

\* SetMode(Strong, true) of DialWithInfo, once the Ping is answered.
Dialled(x) == [unsetSocket(x) EXCEPT !.consistency = "strong", !.slaveOk = FALSE,
                                     !.wrote = FALSE]

\* The operation is over, or has failed, and the deferred Release runs.  A
\* Ping of Dial that failed closes the session.
Done(c) ==
    LET s == caller[c].s
    IN /\ sessionPanic = "none"
       /\ caller[c].at = "using"
       /\ \/ caller[c].call # "dial" /\ UNCHANGED session
          \/ /\ caller[c].call = "dial"
             /\ \E x \in {Dialled(session[s]), Failed(c, session[s])} :
                    session' = [session EXCEPT ![s] = x]
       /\ socket' = ReleaseSockets({caller[c].sock})
       /\ caller' = [caller EXCEPT ![c] = Idle]
       /\ UNCHANGED <<play, changes, steppedDown, sessionPanic>>

\* Login: the socket is logged in; the session learns the credential later,
\* under its lock.
LoggedIn(c) ==
    /\ sessionPanic = "none"
    /\ caller[c].at = "using" /\ caller[c].call = "login"
    /\ socket' = [socket EXCEPT ![caller[c].sock].logins = @ \cup {caller[c].cred}]
    /\ caller' = [caller EXCEPT ![c].at = "noting"]
    /\ UNCHANGED <<play, session, changes, steppedDown, sessionPanic>>

Noted(c) ==
    LET s == caller[c].s
    IN /\ sessionPanic = "none"
       /\ caller[c].at = "noting"
       /\ Unlocked(s)
       /\ session' = [session EXCEPT ![s].creds = @ \cup {caller[c].cred}]
       /\ socket' = ReleaseSockets({caller[c].sock})
       /\ caller' = [caller EXCEPT ![c] = Idle]
       /\ UNCHANGED <<play, changes, steppedDown, sessionPanic>>

--------------------------------------------------------------------------------
(* The methods that run under the lock from beginning to end.                 *)

\* newSession and the Ping of DialWithInfo.
DialSession(c, s) ==
    /\ May(c, "dial")
    /\ session[s] = Unborn
    /\ \A t \in Sessions : session[t] = Unborn
    /\ session' = [session EXCEPT ![s] = [Unborn EXCEPT !.open = TRUE, !.slaveOk = TRUE]]
    /\ caller' = [caller EXCEPT ![c] = [Idle EXCEPT !.call = "dial", !.at = "missed",
                                                    !.s = s, !.slaveOk = TRUE]]
    /\ UNCHANGED <<play, socket, changes, steppedDown, sessionPanic>>

Ready(x) == [unsetSocket(x) EXCEPT !.slaveOk = (x.consistency # "strong"), !.wrote = FALSE]

Refresh(c, s) ==
    /\ May(c, "refresh")
    /\ Usable(s)
    /\ session' = [session EXCEPT ![s] = Ready(@)]
    /\ socket' = ReleaseSockets(Reserved(session[s]))
    /\ UNCHANGED <<play, caller, changes, steppedDown, sessionPanic>>

SetMode(c, s, mode, refresh) ==
    LET x == [session[s] EXCEPT !.consistency = mode,
                                !.wrote = @ /\ mode = session[s].consistency]
        slaveOk == IF mode = "strong" THEN FALSE
                   ELSE IF x.masterSocket = None THEN TRUE ELSE x.slaveOk
    IN /\ May(c, "mode")
       /\ Usable(s)
       /\ changes < MaxChanges
       /\ changes' = changes + 1
       /\ session' = [session EXCEPT ![s] = IF refresh THEN Ready(x)
                                            ELSE [x EXCEPT !.slaveOk = slaveOk]]
       /\ socket' = IF refresh THEN ReleaseSockets(Reserved(session[s])) ELSE socket
       /\ UNCHANGED <<play, caller, steppedDown, sessionPanic>>

\* Copy: copySession, then a Refresh that drops what it has just shared.
Copy(c, s, t) ==
    /\ May(c, "copy")
    /\ Usable(s) /\ session[t] = Unborn
    /\ changes < MaxChanges
    /\ changes' = changes + 1
    /\ session' = [session EXCEPT ![t] = Ready(session[s])]
    /\ UNCHANGED <<play, socket, caller, steppedDown, sessionPanic>>

\* Mutant: the sockets are shared, their references not taken.
CloneUncounted(c, s, t) ==
    /\ May(c, "clone")
    /\ Usable(s) /\ session[t] = Unborn
    /\ changes < MaxChanges
    /\ changes' = changes + 1
    /\ session' = [session EXCEPT ![t] = session[s]]
    /\ UNCHANGED <<play, socket, caller, steppedDown, sessionPanic>>

\* Clone: the sockets stay shared.
Clone(c, s, t) ==
    /\ May(c, "clone")
    /\ Usable(s) /\ session[t] = Unborn
    /\ changes < MaxChanges
    /\ changes' = changes + 1
    /\ session' = [session EXCEPT ![t] = session[s]]
    /\ socket' = Refer(Reserved(session[s]))
    /\ UNCHANGED <<play, caller, steppedDown, sessionPanic>>

\* Close.  "It's a runtime error to use a session after it has been closed":
\* nobody is in the middle of acquireSocket or Login on it.
CloseSession(c, s) ==
    /\ May(c, "close")
    /\ Usable(s)
    /\ \A d \in Callers : caller[d].s = s => /\ caller[d].at = "using"
                                              /\ caller[d].call \in {"read", "write"}
    /\ session' = [session EXCEPT ![s] = [unsetSocket(@) EXCEPT !.open = FALSE]]
    /\ socket' = ReleaseSockets(Reserved(session[s]))
    /\ UNCHANGED <<play, caller, changes, steppedDown, sessionPanic>>

\* Database.Logout of a credential the session has.
Logout(c, s, cred) ==
    /\ May(c, "logout")
    /\ Usable(s)
    /\ cred \in session[s].creds
    /\ session' = [session EXCEPT ![s].creds = @ \ {cred}]
    /\ socket' = [k \in Connections |-> IF k \in Reserved(session[s])
                                    THEN [socket[k] EXCEPT !.logins = @ \ {cred}]
                                    ELSE socket[k]]
    /\ UNCHANGED <<play, caller, changes, steppedDown, sessionPanic>>

SessionNext ==
    \E c \in Callers :
        \/ Look(c) \/ Refused(c) \/ Done(c) \/ LoggedIn(c) \/ Noted(c)
        \/ \E k \in Connections, master \in BOOLEAN : Given(c, k, master)
        \/ \E s \in Sessions :
              \/ DialSession(c, s) \/ Read(c, s) \/ Write(c, s) \/ Refresh(c, s)
              \/ CloseSession(c, s)
              \/ \E mode \in Modes, refresh \in BOOLEAN : SetMode(c, s, mode, refresh)
              \/ \E t \in Sessions : Copy(c, s, t) \/ Clone(c, s, t)
              \/ \E cred \in Creds : LoginBegins(c, s, cred) \/ Logout(c, s, cred)

SessionSpec == SessionInit /\ [][SessionNext]_sessionVars

--------------------------------------------------------------------------------

SessionTypeOK ==
    /\ play \in Plays
    /\ session \in [Sessions ->
         [open : BOOLEAN, consistency : Modes, slaveOk : BOOLEAN,
          masterSocket : Connections \cup {None}, slaveSocket : Connections \cup {None},
          creds : SUBSET Creds, lock : Callers \cup {None}, wrote : BOOLEAN]]
    /\ socket \in [Connections -> [refs : Nat, master : BOOLEAN, logins : SUBSET Creds]]
    /\ caller \in [Callers ->
         [call : {"idle", "read", "write", "login", "dial"},
          at : {"idle", "missed", "asking", "using", "noting"},
          s : Sessions \cup {None}, slaveOk : BOOLEAN,
          sock : Connections \cup {None}, cred : Creds \cup {None}]]
    /\ changes \in 0..MaxChanges
    /\ steppedDown \in BOOLEAN

\* The references of a socket are the sessions that reserve it and the calls
\* that use it, whatever Refresh, Clone, Close and SetMode happen meanwhile on
\* sessions others share: no socket is leaked, and none goes back to the pool
\* under a goroutine that still writes on it.
SharesCounted ==
    \A k \in Connections :
        socket[k].refs = Cardinality({s \in Sessions : session[s].masterSocket = k})
                       + Cardinality({s \in Sessions : session[s].slaveSocket = k})
                       + Cardinality({c \in Callers : caller[c].sock = k})

\* setSocket never finds its slot taken, unless a server stepped down between
\* the cluster's choice of it as the master and the socket's serverInfo: then
\* a session that holds a slave panics.
SlotsFree == sessionPanic # "none" => steppedDown

\* A Monotonic session that has written reads from the master until it is
\* refreshed or its mode is set (doc of SetMode: read-your-writes).
ReadYourWrites ==
    \A c \in Callers :
        LET x == session[caller[c].s]
            k == Found(x, TRUE)
        IN caller[c].at = "missed" /\ caller[c].call = "read" /\ ~steppedDown
           /\ x.consistency = "monotonic" /\ x.wrote
           => k # None /\ socket[k].master

\* What the same says of a Monotonic session at rest.
WritersOnMaster ==
    \A s \in Sessions :
        LET x == session[s]
        IN x.consistency = "monotonic" /\ x.wrote /\ x.open /\ ~steppedDown
           => x.masterSocket # None /\ socket[x.masterSocket].master

\* "The authentication is valid for the whole session": the socket a call finds
\* reserved has the credentials of the session, when one goroutine uses the
\* session and it shares no socket with a clone.  (Login itself leaves out the
\* slave of a session that holds a master as well.)
CredsApplied ==
    Cardinality(play.callers) = 1 /\ "clone" \notin play.calls =>
        \A s \in Sessions, slaveOk \in BOOLEAN :
            LET k == Found(session[s], slaveOk)
            IN k # None => session[s].creds \subseteq socket[k].logins

\* The accounts of the sockets stay exact on every path (the parts are above).
SessionInv == SessionTypeOK /\ SharesCounted /\ SlotsFree

\* What the documentation promises the user of a session (the parts are above).
SessionPromises == ReadYourWrites /\ WritersOnMaster /\ CredsApplied
================================================================================
