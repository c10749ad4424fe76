------------------------------ MODULE MgoSocket ------------------------------
(***************************************************************************)
(* One connection to a database server (mongoSocket in mgo/socket.go):     *)
(* goroutines send operations on it with Query and wait for their          *)
(* replyFunc, its read loop hands every reply to the replyFunc registered  *)
(* under the request id, and kill tells those that still wait.  One action *)
(* is one critical section of the socket's mutex, or one call of a         *)
(* replyFunc, or one read from the connection.                             *)
(*                                                                         *)
(* At most MaxWire messages are under way on the connection (the buffers   *)
(* of TCP: a Write that does not fit waits).  Request ids are numbers of   *)
(* IdSpace values, 2^32 in the code.  The socket has a timeout, as every   *)
(* socket has that a session dials.                                        *)
(***************************************************************************)
EXTENDS Integers, Sequences, FiniteSets

CONSTANTS
  Askers,   \* goroutines that use the socket
  Nobody,   \* a request whose reply no replyFunc waits for
  IdSpace,  \* the number of request ids, 0 included
  MaxWire,  \* messages under way on the connection
  MaxDocs   \* documents in a reply

\* Request ids wrap, at 2^32 in the code; a reply nobody waits for is told
\* from the others.
ASSUME SocketAssumption ==
  /\ Nobody \notin Askers
  /\ IdSpace \in Nat /\ IdSpace >= 4
  /\ MaxDocs \in Nat

VARIABLES
  dead,        \* socket.dead is set
  nextId,      \* socket.nextRequestId
  replyFuncs,  \* socket.replyFuncs: request id -> goroutine that waits
  armed,       \* the connection has a read deadline
  broken,      \* the connection is lost or closed
  requests,    \* sent and not yet answered
  replies,     \* answered and not yet read
  reader,      \* the read loop
  notifying,   \* replyFuncs that kill took out and has not called yet
  stage,       \* per caller: "idle", "waiting" or "failed"
  ended        \* per caller: how often its replyFunc was told the end

socketVars == <<dead, nextId, replyFuncs, armed, broken, requests, replies,
                reader, notifying, stage, ended>>

Ids == 0 .. IdSpace - 1
AtHeader == [at |-> "header", func |-> Nobody, who |-> Nobody, docs |-> 0]

SocketInit ==
  /\ dead = FALSE /\ armed = FALSE /\ broken = FALSE
  /\ nextId = 0
  /\ replyFuncs = [i \in {} |-> Nobody]
  /\ requests = <<>> /\ replies = <<>>
  /\ reader = AtHeader
  /\ notifying = {}
  /\ stage = [c \in Askers |-> "idle"]
  /\ ended = [c \in Askers |-> 0]

UnderWay == Len(requests) + Len(replies) + IF reader.at = "header" THEN 0 ELSE 1

\* What the caller's replyFunc sees: a call after its end counts as an end.
Ended(c, last) == [ended EXCEPT ![c] = IF last \/ @ > 0 THEN @ + 1 ELSE @]

----------------------------------------------------------------------------
(* Query                                                                   *)

FreshId == LET i == (nextId + 1) % IdSpace IN IF i = 0 THEN 1 ELSE i

\* Mutant: no deadline is set for the reply.
RegisterUnarmed(c, wants) ==
  /\ nextId' = (FreshId + IF wants THEN 1 ELSE 0) % IdSpace
  /\ replyFuncs' = IF wants THEN [i \in DOMAIN replyFuncs \cup {FreshId} |->
                                    IF i = FreshId THEN c ELSE replyFuncs[i]]
                            ELSE replyFuncs
  /\ UNCHANGED armed

\* The ids and registrations of one Query: an operation that wants a reply
\* takes one id, the others and the logouts sent ahead of it take none.
Register(c, wants) ==
  /\ nextId' = (FreshId + IF wants THEN 1 ELSE 0) % IdSpace
  /\ replyFuncs' = IF wants THEN [i \in DOMAIN replyFuncs \cup {FreshId} |->
                                    IF i = FreshId THEN c ELSE replyFuncs[i]]
                            ELSE replyFuncs
  /\ armed' = (armed \/ (wants /\ DOMAIN replyFuncs = {}))

\* The ids are never used up while one request waits: in the code that takes
\* 2^31 queries in the time of one reply.
IdsLeft == \A i \in DOMAIN replyFuncs : (nextId - i) % IdSpace < IdSpace - 3

Begin(c) == /\ stage[c] = "idle"
            /\ ended[c] = 0
            /\ IdsLeft

Message(id, who, answered) == [id |-> id, who |-> who, answered |-> answered]

\* A logout is a command: the server answers it, under request id 0.
Query(c, wants, logout) ==
  LET ops == (IF logout THEN <<Message(0, Nobody, TRUE)>> ELSE <<>>)
               \o <<IF wants THEN Message(FreshId, c, TRUE)
                             ELSE Message(0, Nobody, FALSE)>>
  IN
  /\ Begin(c)
  /\ ~dead
  /\ ~broken
  /\ UnderWay + Len(ops) <= MaxWire
  /\ Register(c, wants)
  /\ requests' = requests \o ops
  /\ stage' = [stage EXCEPT ![c] = IF wants THEN "waiting" ELSE "idle"]
  /\ UNCHANGED <<dead, broken, replies, reader, notifying, ended>>

\* conn.Write fails, what it had to send is lost and the rest of the stream
\* with it; the replyFunc stays registered though Query returns the error.
WriteFails(c, wants) ==
  /\ Begin(c)
  /\ ~dead
  /\ Register(c, wants)
  /\ broken' = TRUE
  /\ stage' = [stage EXCEPT ![c] = "failed"]
  /\ UNCHANGED <<dead, requests, replies, reader, notifying, ended>>

QueryDead(c, wants) ==
  /\ Begin(c)
  /\ dead
  /\ ended' = IF wants THEN Ended(c, TRUE) ELSE ended
  /\ stage' = [stage EXCEPT ![c] = "failed"]
  /\ UNCHANGED <<dead, nextId, replyFuncs, armed, broken, requests, replies,
                 reader, notifying>>

\* SimpleQuery: the caller gets its mutex once the replyFunc unlocked it.
Return(c) ==
  /\ stage[c] = "waiting"
  /\ ended[c] > 0
  /\ stage' = [stage EXCEPT ![c] = "idle"]
  /\ ended' = [ended EXCEPT ![c] = 0]
  /\ UNCHANGED <<dead, nextId, replyFuncs, armed, broken, requests, replies,
                 reader, notifying>>

----------------------------------------------------------------------------
(* kill, and the replyFuncs it calls.                                      *)

Killed ==
  IF dead THEN UNCHANGED <<dead, broken, replyFuncs, notifying, replies>>
  ELSE /\ dead' = TRUE
       /\ broken' = TRUE
       /\ notifying' = notifying \cup {replyFuncs[i] : i \in DOMAIN replyFuncs}
       /\ replyFuncs' = [i \in {} |-> Nobody]
       /\ replies' = <<>>

\* Close, by the server's Close or by AcquireSocket.
CloseConn ==
  /\ ~dead
  /\ Killed
  /\ UNCHANGED <<nextId, armed, requests, reader, stage, ended>>

Notify(c) ==
  /\ c \in notifying
  /\ notifying' = notifying \ {c}
  /\ ended' = Ended(c, TRUE)
  /\ UNCHANGED <<dead, nextId, replyFuncs, armed, broken, requests, replies,
                 reader, stage>>

----------------------------------------------------------------------------
(* readLoop                                                                *)

\* The socket no longer reads: a lost connection, or the read deadline.
ReadFails == broken \/ armed

\* Mutant: the replyFunc stays registered while it is called.
ReadHeaderKeep ==
  /\ reader.at = "header"
  /\ replies # <<>>
  /\ LET m == Head(replies)
         func == IF m.id \in DOMAIN replyFuncs THEN replyFuncs[m.id] ELSE Nobody
     IN /\ ~m.bad
        /\ reader' = [at |-> IF m.docs = 0 THEN "finish" ELSE "docs",
                      func |-> func, who |-> m.who, docs |-> m.docs]
        /\ ended' = IF func # Nobody /\ m.docs = 0 THEN Ended(func, TRUE) ELSE ended
  /\ replies' = Tail(replies)
  /\ UNCHANGED <<dead, nextId, replyFuncs, armed, broken, requests, notifying, stage>>

\* A reply without documents ends its request, one with documents leads to
\* their reads.
ReadHeader ==
  /\ reader.at = "header"
  /\ replies # <<>>
  /\ LET m == Head(replies)
         func == IF m.id \in DOMAIN replyFuncs THEN replyFuncs[m.id] ELSE Nobody
     IN /\ ~m.bad
        /\ replyFuncs' = [i \in DOMAIN replyFuncs \ {m.id} |-> replyFuncs[i]]
        /\ reader' = [at |-> IF m.docs = 0 THEN "finish" ELSE "docs",
                      func |-> func, who |-> m.who, docs |-> m.docs]
        /\ ended' = IF func # Nobody /\ m.docs = 0 THEN Ended(func, TRUE) ELSE ended
  /\ replies' = Tail(replies)
  /\ UNCHANGED <<dead, nextId, armed, broken, requests, notifying, stage>>

\* The header cannot be read or has an unknown opcode: kill, the loop ends.
HeaderFails ==
  /\ reader.at = "header"
  /\ \/ ReadFails
     \/ replies # <<>> /\ Head(replies).bad
  /\ Killed
  /\ reader' = [AtHeader EXCEPT !.at = "ended"]
  /\ UNCHANGED <<nextId, armed, requests, stage, ended>>

ReadDoc ==
  /\ reader.at = "docs"
  /\ reader' = [reader EXCEPT !.docs = @ - 1,
                              !.at = IF reader.docs = 1 THEN "finish" ELSE "docs"]
  /\ ended' = IF reader.func = Nobody THEN ended
              ELSE Ended(reader.func, reader.docs = 1)
  /\ UNCHANGED <<dead, nextId, replyFuncs, armed, broken, requests, replies,
                 notifying, stage>>

\* The replyFunc of the reply at hand is told first, the others by kill.
DocFails ==
  /\ reader.at = "docs"
  /\ ReadFails
  /\ reader' = [AtHeader EXCEPT !.at = "dying"]
  /\ ended' = IF reader.func = Nobody THEN ended ELSE Ended(reader.func, TRUE)
  /\ UNCHANGED <<dead, nextId, replyFuncs, armed, broken, requests, replies,
                 notifying, stage>>

Die ==
  /\ reader.at = "dying"
  /\ Killed
  /\ reader' = [reader EXCEPT !.at = "ended"]
  /\ UNCHANGED <<nextId, armed, requests, stage, ended>>

\* After a reply: no deadline when nothing else is to be read.
Finish ==
  /\ reader.at = "finish"
  /\ reader' = AtHeader
  /\ armed' = (DOMAIN replyFuncs # {})
  /\ UNCHANGED <<dead, nextId, replyFuncs, broken, requests, replies,
                 notifying, stage, ended>>

----------------------------------------------------------------------------
(* The server and the network.                                             *)

Serve ==
  /\ requests # <<>>
  /\ ~broken
  /\ requests' = Tail(requests)
  /\ LET m == Head(requests) IN
     IF ~m.answered THEN replies' = replies
     ELSE \E docs \in 0 .. MaxDocs, bad \in BOOLEAN :
            replies' = Append(replies, [id |-> m.id, who |-> m.who,
                                        docs |-> docs, bad |-> bad])
  /\ UNCHANGED <<dead, nextId, replyFuncs, armed, broken, reader, notifying,
                 stage, ended>>

Break ==
  /\ ~broken
  /\ broken' = TRUE
  /\ UNCHANGED <<dead, nextId, replyFuncs, armed, requests, replies, reader,
                 notifying, stage, ended>>

----------------------------------------------------------------------------
ReadLoop == ReadHeader \/ HeaderFails \/ ReadDoc \/ DocFails \/ Die \/ Finish

SocketNext ==
  \/ \E c \in Askers, wants \in BOOLEAN :
       \/ \E logout \in BOOLEAN : Query(c, wants, logout)
       \/ WriteFails(c, wants)
       \/ QueryDead(c, wants)
  \/ \E c \in Askers : Return(c) \/ Notify(c)
  \/ ReadLoop \/ CloseConn \/ Serve \/ Break

\* The read loop reads on, its deadline expires, and a goroutine in the
\* middle of kill calls every replyFunc.  The server promises nothing.
SocketFairness ==
  /\ WF_socketVars(ReadLoop)
  /\ \A c \in Askers : WF_socketVars(Notify(c)) /\ WF_socketVars(Return(c))

SocketSpec == SocketInit /\ [][SocketNext]_socketVars /\ SocketFairness

----------------------------------------------------------------------------
SocketTypeOK ==
  /\ {dead, armed, broken} \subseteq BOOLEAN
  /\ nextId \in Ids
  /\ DOMAIN replyFuncs \subseteq Ids
  /\ \A i \in DOMAIN replyFuncs : replyFuncs[i] \in Askers
  /\ requests \in Seq([id : Ids, who : Askers \cup {Nobody}, answered : BOOLEAN])
  /\ replies \in Seq([id : Ids, who : Askers \cup {Nobody}, docs : 0 .. MaxDocs,
                      bad : BOOLEAN])
  /\ reader \in [at : {"header", "docs", "finish", "dying", "ended"},
                 func : Askers \cup {Nobody}, who : Askers \cup {Nobody},
                 docs : 0 .. MaxDocs]
  /\ notifying \subseteq Askers
  /\ stage \in [Askers -> {"idle", "waiting", "failed"}]
  /\ ended \in [Askers -> Nat]

\* A reply goes to the goroutine that sent its request, also after the
\* request ids went round; one nobody waits for goes to no one.
RepliesMatch == reader.at \in {"docs", "finish"} => reader.func \in {reader.who, Nobody}
                   /\ (reader.func = Nobody /\ reader.who # Nobody => dead)

\* A replyFunc is told the end of its reply once, by the read loop, by a
\* kill or by Query, and never called again: SimpleQuery's unlocks a mutex,
\* and the second unlock would end the process.
OneEnding == \A c \in Askers : ended[c] <= 1

\* Whoever waits is known to somebody who will tell him: registered, in the
\* read loop's hands, in kill's hands, or told already.
WaiterKnown ==
  \A c \in Askers : stage[c] = "waiting" =>
    \/ ended[c] > 0
    \/ \E i \in DOMAIN replyFuncs : replyFuncs[i] = c
    \/ reader.at = "docs" /\ reader.func = c
    \/ c \in notifying

\* While a reply is awaited the connection has a read deadline, whatever the
\* order of a new Query and the end of the reply before it.
DeadlineArmed == DOMAIN replyFuncs # {} => armed

\* socket.go:462: "Reserve id 0 for requests which should have no responses."
ZeroReserved == 0 \notin DOMAIN replyFuncs

\* Replies, waiters, ids and the deadline agree on every path (the parts are
\* above): else a goroutine hangs, or reads an answer to another's question.
SocketInv ==
  SocketTypeOK /\ RepliesMatch /\ OneEnding /\ WaiterKnown /\ DeadlineArmed /\ ZeroReserved

\* Every wait ends, even when the server never answers.
WaitEnds == \A c \in Askers : stage[c] = "waiting" ~> stage[c] # "waiting"
=============================================================================
