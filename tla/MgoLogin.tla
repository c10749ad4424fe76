------------------------------- MODULE MgoLogin -------------------------------
(***************************************************************************)
(* Authentication on one connection (mgo/auth.go): logins by goroutines    *)
(* that share the socket, the nonce that is cached for the next of them,   *)
(* and logouts that are only flagged and go out ahead of the next          *)
(* operation.  An operation is sent by Query in two critical sections,     *)
(* first the flagged logouts are taken (flushLogout), then all is sent.    *)
(* The server answers the commands of a connection in order; its answer    *)
(* and the replyFunc that handles it are one action (HandleReply).         *)
(***************************************************************************)
EXTENDS Integers, SequencesExt, FiniteSetsExt

CONSTANTS
  Sharers,
  Classic,     \* credentials of mechanism MONGO-CR
  Sasl,        \* credentials of a SASL mechanism
  Source(_),   \* the database of a credential
  NoCred,
  SaslSteps,   \* messages of a SASL conversation
  MaxLogout,   \* bound on flagged logouts
  MaxCommands  \* bound on commands under way

\* loginSASL asks at least once.
ASSUME LoginAssumption == SaslSteps \in Nat \ {0}

VARIABLES
  loginDead,  \* socket.dead is set
  nonce,      \* socket.cachedNonce: "none" (empty), "mongos" or "nonce"
  creds,      \* socket.creds
  logout,     \* socket.logout
  wire,       \* commands under way on the connection
  auth,       \* what the server has: credentials authenticated
  issued,     \* the server waits for an authenticate with the nonce it issued
  loginPc,    \* per goroutine
  task,       \* per goroutine: the command it is sending, with flushed logouts
  wrong,      \* names of what went wrong: a panic, a nonce used out of turn
  abandoned   \* history: databases whose login the client gave up after the
              \* server had accepted it

loginVars == <<loginDead, nonce, creds, logout, wire, auth, issued, loginPc, task, wrong,
               abandoned>>

Cred == Classic \cup Sasl
Databases == {Source(c) : c \in Cred}
NoTask == [kind |-> "none", cred |-> NoCred, step |-> 0, lops |-> <<>>]
GetNonceCmd == [kind |-> "getnonce", cred |-> NoCred, step |-> 0, who |-> NoCred]

\* newSocket asks for the first nonce before anybody has the socket.
LoginInit ==
  /\ loginDead = FALSE /\ nonce = "none" /\ issued = FALSE
  /\ creds = <<>> /\ logout = <<>>
  /\ wire = <<GetNonceCmd>>
  /\ auth = {}
  /\ loginPc = [c \in Sharers |-> "idle"]
  /\ task = [c \in Sharers |-> NoTask]
  /\ wrong = {} /\ abandoned = {}

LoginGoto(c, at) == loginPc' = [loginPc EXCEPT ![c] = at]
Asking(kind, cred, step) == [kind |-> kind, cred |-> cred, step |-> step, lops |-> <<>>]
Set(c, kind, cred, step) == task' = [task EXCEPT ![c] = Asking(kind, cred, step)]

\* The loops of dropAuth and dropLogout: the first of some places goes.
Drop(list, places) == IF places = {} THEN list ELSE RemoveAt(list, Min(places))
OfSource(list, db) == {i \in DOMAIN list : Source(list[i]) = db}
DropAuth(list, db) == Drop(list, OfSource(list, db))
DropLogout(list, cred) == Drop(list, {i \in DOMAIN list : list[i] = cred})

----------------------------------------------------------------------------
(* Login                                                                   *)

LoginKnown(c, cred) ==
  /\ loginPc[c] = "idle"
  /\ cred \notin ToSet(creds)
  /\ cred \in ToSet(logout)
  /\ logout' = DropLogout(logout, cred)
  /\ creds' = Append(creds, cred)
  /\ UNCHANGED <<loginDead, nonce, wire, auth, issued, loginPc, task, wrong, abandoned>>

\* A socket that is dead has no server any more.
Login(c, cred) ==
  /\ loginPc[c] = "idle"
  /\ cred \notin ToSet(creds) \cup ToSet(logout)
  /\ cred \in Sasl => ~loginDead
  /\ IF cred \in Sasl
       THEN LoginGoto(c, "flush") /\ Set(c, "sasl", cred, 1)
       ELSE LoginGoto(c, "nonce") /\ Set(c, "auth", cred, 1)
  /\ UNCHANGED <<loginDead, nonce, creds, logout, wire, auth, issued, wrong, abandoned>>

\* loginSASL asks such a socket for the address of its server, and panics.
LoginWithoutServer(c, cred) ==
  /\ loginPc[c] = "idle"
  /\ cred \in Sasl \ (ToSet(creds) \cup ToSet(logout))
  /\ loginDead
  /\ wrong' = wrong \cup {"no server"}
  /\ UNCHANGED <<loginDead, nonce, creds, logout, wire, auth, issued, loginPc, task, abandoned>>

\* getNonce: the wait on the condition, and the three ways out of it.
ParkForNonce(c) ==
  /\ loginPc[c] = "nonce"
  /\ nonce = "none" /\ ~loginDead
  /\ LoginGoto(c, "parked")
  /\ UNCHANGED <<loginDead, nonce, creds, logout, wire, auth, issued, task, wrong, abandoned>>

NoNonce(c) ==
  /\ loginPc[c] = "nonce"
  /\ nonce = "mongos" \/ loginDead
  /\ nonce' = IF nonce = "mongos" THEN nonce ELSE "none"
  /\ LoginGoto(c, "idle")
  /\ task' = [task EXCEPT ![c] = NoTask]
  /\ UNCHANGED <<loginDead, creds, logout, wire, auth, issued, wrong, abandoned>>

TakeNonce(c) ==
  /\ loginPc[c] = "nonce"
  /\ nonce = "nonce" /\ ~loginDead
  /\ nonce' = "none"
  /\ LoginGoto(c, "flush")
  /\ UNCHANGED <<loginDead, creds, logout, wire, auth, issued, task, wrong, abandoned>>

----------------------------------------------------------------------------
(* Query: any operation, with the logouts that were flagged before it.     *)

StartOp(c) ==
  /\ loginPc[c] = "idle"
  /\ LoginGoto(c, "flush")
  /\ Set(c, "op", NoCred, 1)
  /\ UNCHANGED <<loginDead, nonce, creds, logout, wire, auth, issued, wrong, abandoned>>

FlushLogout(c) ==
  /\ loginPc[c] = "flush"
  /\ task' = [task EXCEPT ![c].lops = logout]
  /\ logout' = <<>>
  /\ LoginGoto(c, "send")
  /\ UNCHANGED <<loginDead, nonce, creds, wire, auth, issued, wrong, abandoned>>

\* Mutant: whoever is done asks for the next nonce.
AfterAnyReset(c) ==
  IF task[c].kind \in {"auth", "sasl"}
    THEN LoginGoto(c, "flush") /\ Set(c, "getnonce", NoCred, 1)
    ELSE LoginGoto(c, "idle") /\ task' = [task EXCEPT ![c] = NoTask]

\* What a goroutine does once its command is over: a classic login asks for
\* the next nonce (the deferred resetNonce), all others are back.
After(c) ==
  IF task[c].kind = "auth"
    THEN LoginGoto(c, "flush") /\ Set(c, "getnonce", NoCred, 1)
    ELSE LoginGoto(c, "idle") /\ task' = [task EXCEPT ![c] = NoTask]

Send(c) ==
  LET t == task[c] IN
  /\ loginPc[c] = "send"
  /\ ~loginDead
  /\ Len(wire) + Len(t.lops) < MaxCommands
  /\ wire' = wire \o [i \in 1 .. Len(t.lops) |->
                         [kind |-> "logout", cred |-> t.lops[i], step |-> 0, who |-> NoCred]]
                  \o (IF t.kind = "op" THEN <<>>
                      ELSE <<[kind |-> t.kind, cred |-> t.cred, step |-> t.step, who |-> c]>>)
  /\ IF t.kind \in {"auth", "sasl"} THEN LoginGoto(c, "waiting") /\ UNCHANGED task
                                    ELSE After(c)
  /\ UNCHANGED <<loginDead, nonce, creds, logout, auth, issued, wrong, abandoned>>

SendDead(c) ==
  /\ loginPc[c] = "send"
  /\ loginDead
  /\ After(c)
  /\ UNCHANGED <<loginDead, nonce, creds, logout, wire, auth, issued, wrong, abandoned>>

----------------------------------------------------------------------------
(* The server's answers, and what the read loop's replyFunc does with them *)

NextSaslStep(m) == LoginGoto(m.who, "flush") /\ Set(m.who, "sasl", m.cred, m.step + 1)

\* The server has one login for a database.
Authenticated(cred) == auth' = {a \in auth : Source(a) # Source(cred)} \cup {cred}

\* A login that was accepted, and that the socket notes.
Accepted(cred) ==
  /\ Authenticated(cred)
  /\ creds' = Append(DropAuth(creds, Source(cred)), cred)
  /\ abandoned' = abandoned \ {Source(cred)}

\* authenticate: accepted or refused, and good for one nonce only.
ReplyAuth(m) ==
  /\ m.kind = "auth"
  /\ wrong' = IF issued THEN wrong ELSE wrong \cup {"nonce out of turn"}
  /\ issued' = FALSE
  /\ Accepted(m.cred) \/ UNCHANGED <<auth, creds, abandoned>>
  /\ After(m.who)
  /\ UNCHANGED <<loginDead, nonce, logout>>

\* A step of a SASL conversation: the socket stays locked from the reply to
\* the change of its credentials. The server accepts at the last message, but
\* the client may fail over that answer, or not be done and send another
\* message, which is refused as one to a conversation that is over.
ReplySasl(m) ==
  /\ m.kind = "sasl"
  /\ \/ m.step < SaslSteps /\ NextSaslStep(m) /\ UNCHANGED <<auth, creds, abandoned>>
     \/ m.step = SaslSteps /\ Accepted(m.cred) /\ After(m.who)
     \/ /\ m.step = SaslSteps
        /\ Authenticated(m.cred) /\ UNCHANGED creds
        /\ abandoned' = abandoned \cup {Source(m.cred)}
        /\ After(m.who) \/ NextSaslStep(m)
     \/ After(m.who) /\ UNCHANGED <<auth, creds, abandoned>>
  /\ UNCHANGED <<loginDead, nonce, logout, issued, wrong>>

ReplyLogout(m) ==
  /\ m.kind = "logout"
  /\ auth' = {a \in auth : Source(a) # Source(m.cred)}
  /\ abandoned' = abandoned \ {Source(m.cred)}
  /\ UNCHANGED <<loginDead, nonce, creds, logout, issued, loginPc, task, wrong>>

\* Signal wakes one of those that wait.
Signal == IF \E c \in Sharers : loginPc[c] = "parked"
            THEN \E c \in Sharers : loginPc[c] = "parked" /\ LoginGoto(c, "nonce")
            ELSE loginPc' = loginPc

ReplyNonce(m) ==
  /\ m.kind = "getnonce"
  /\ \E n \in {"nonce", "mongos"} :
       /\ wrong' = IF nonce = "none" THEN wrong ELSE wrong \cup {"nonce already cached"}
       /\ nonce' = n
       /\ issued' = (n = "nonce")
  /\ Signal
  /\ UNCHANGED <<loginDead, creds, logout, auth, task, abandoned>>

HandleReply ==
  /\ ~loginDead
  /\ wire # <<>>
  /\ LET m == Head(wire) IN
       ReplyAuth(m) \/ ReplySasl(m) \/ ReplyLogout(m) \/ ReplyNonce(m)
  /\ wire' = Tail(wire)

\* The connection dies, or an answer without a nonce or an error for an
\* answer makes resetNonce kill it: all that wait for a reply get an error.
LoginKill ==
  LET lost == {c \in Sharers : loginPc[c] = "waiting"}
      resets == {c \in lost : task[c].kind = "auth"}
  IN
  /\ ~loginDead
  /\ loginDead' = TRUE
  /\ wire' = <<>>
  /\ loginPc' = [c \in Sharers |-> IF c \in resets THEN "flush"
                              ELSE IF c \in lost THEN "idle" ELSE loginPc[c]]
  /\ task' = [c \in Sharers |->
                IF c \in resets THEN Asking("getnonce", NoCred, 1)
                ELSE IF c \in lost THEN NoTask ELSE task[c]]
  /\ UNCHANGED <<nonce, creds, logout, auth, issued, wrong, abandoned>>

----------------------------------------------------------------------------
(* Logout of one database, LogoutAll by the last Release.                  *)

FlagLogout(db) ==
  LET found == OfSource(creds, db) IN
  /\ found # {}
  /\ Len(logout) < MaxLogout
  /\ creds' = DropAuth(creds, db)
  /\ logout' = Append(logout, creds[Min(found)])
  /\ UNCHANGED <<loginDead, nonce, wire, auth, issued, loginPc, task, wrong, abandoned>>

LogoutAll ==
  /\ \A c \in Sharers : loginPc[c] = "idle"
  /\ creds # <<>>
  /\ Len(logout) + Len(creds) <= MaxLogout
  /\ logout' = logout \o creds
  /\ creds' = <<>>
  /\ UNCHANGED <<loginDead, nonce, wire, auth, issued, loginPc, task, wrong, abandoned>>

----------------------------------------------------------------------------
Proceed(c) == \/ ParkForNonce(c) \/ NoNonce(c) \/ TakeNonce(c)
              \/ FlushLogout(c) \/ Send(c) \/ SendDead(c)

LoginNext ==
  \/ \E c \in Sharers :
       \/ \E cred \in Cred : \/ LoginKnown(c, cred) \/ Login(c, cred)
                            \/ LoginWithoutServer(c, cred)
       \/ StartOp(c) \/ Proceed(c)
  \/ HandleReply \/ LoginKill
  \/ \E db \in Databases : FlagLogout(db)
  \/ LogoutAll

LoginFairness == WF_loginVars(HandleReply) /\ \A c \in Sharers : WF_loginVars(Proceed(c))

LoginSpec == LoginInit /\ [][LoginNext]_loginVars /\ LoginFairness

----------------------------------------------------------------------------
Task == [kind : {"none", "auth", "sasl", "getnonce", "op"}, cred : Cred \cup {NoCred},
         step : 0 .. SaslSteps + 1, lops : Seq(Cred)]
Command == [kind : {"auth", "sasl", "getnonce", "logout"}, cred : Cred \cup {NoCred},
            step : 0 .. SaslSteps + 1, who : Sharers \cup {NoCred}]

LoginTypeOK ==
  /\ {loginDead, issued} \subseteq BOOLEAN
  /\ nonce \in {"none", "mongos", "nonce"}
  /\ creds \in Seq(Cred) /\ logout \in Seq(Cred)
  /\ wire \in Seq(Command)
  /\ auth \subseteq Cred /\ abandoned \subseteq Databases
  /\ loginPc \in [Sharers -> {"idle", "nonce", "parked", "flush", "send", "waiting"}]
  /\ task \in [Sharers -> Task]

\* auth.go:146: the panic "nonce already cached" is never reached: a nonce is
\* asked for only after the one before it was taken.
NoNoncePanic == "nonce already cached" \notin wrong

\* auth.go:197-200: logins that share the socket never use a nonce twice nor
\* one the server has replaced.
NonceInTurn == "nonce out of turn" \notin wrong

\* While the socket lives, a login that waits for a nonce is not alone: one
\* is cached and a login is awake to take it, or one is asked for, or the
\* login that has it will ask for the next.
NonceComing ==
  ~loginDead /\ nonce # "mongos" /\ (\E c \in Sharers : loginPc[c] = "parked") =>
    \/ \E c \in Sharers : loginPc[c] = "nonce"
    \/ \E i \in 1 .. Len(wire) : wire[i].kind = "getnonce"
    \/ \E c \in Sharers : /\ task[c].kind \in {"auth", "getnonce"}
                             /\ loginPc[c] \in {"flush", "send", "waiting"}

\* auth.go:238-241: whatever goroutines log in and out, the server keeps no
\* login the socket knows nothing of: it is in creds, or its logout is flagged
\* or on its way; but for a SASL login that the client itself gave up after the
\* server had accepted it (auth.go:263-266), which no logout ever follows.
NoStrayLogin ==
  ~loginDead => \A a \in auth :
    \/ Source(a) \in abandoned
    \/ \E k \in ToSet(creds) \cup ToSet(logout) : Source(k) = Source(a)
    \/ \E c \in Sharers : \E k \in ToSet(task[c].lops) : Source(k) = Source(a)
    \/ \E i \in 1 .. Len(wire) : /\ wire[i].kind = "logout"
                                 /\ Source(wire[i].cred) = Source(a)

\* Logins and logouts that share a socket keep its nonces and its logins in
\* order (the parts are above).
LoginInv == LoginTypeOK /\ NoNoncePanic /\ NonceInTurn /\ NonceComing /\ NoStrayLogin

\* auth.go:238-241: concurrent action must not "leave the socket in an auth
\* state that doesn't reflect the operations that took place": with nothing
\* under way the server has exactly the socket's credentials.
Quiet == wire = <<>> /\ logout = <<>> /\ \A c \in Sharers : loginPc[c] = "idle"
AuthStateReflected == ~loginDead /\ Quiet => auth = ToSet(creds)

\* auth.go:199-200: "any other login requests will block waiting for a new
\* nonce provided in the defer call below": a login that waits goes on.
LoginGoesOn == \A c \in Sharers : loginPc[c] = "parked" ~> loginPc[c] # "parked"
=============================================================================
