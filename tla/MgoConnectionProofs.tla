------------------------- MODULE MgoConnectionProofs -------------------------
(***************************************************************************)
(* Proofs about what the connections of mgo are made of: the calls and     *)
(* replies on one, for any number of goroutines that use it, of request    *)
(* ids (4 or more), messages under way and documents; the pool of those of *)
(* a server, for any number of goroutines and sockets and any limit; the   *)
(* logins on one, for any number of goroutines and credentials; and        *)
(* the queue that an Iter takes its documents from, for any elements and   *)
(* any capacities from which it grows.                                     *)
(***************************************************************************)
EXTENDS MgoSocket, MgoLogin, MgoPool, MgoQueue, SequenceTheorems, FiniteSetTheorems,
        WellFoundedInduction, TLAPS

----------------------------------------------------------------------------
(* One connection                                                          *)

----------------------------------------------------------------------------
(* The inductive invariant                                                 *)

Registered(c) == \E i \in DOMAIN replyFuncs : replyFuncs[i] = c
Reading(c) == reader.at = "docs" /\ reader.func = c

\* A replyFunc that has not been told its end is in one place: registered,
\* with the read loop, or with kill. An idle goroutine's is in none.
CallerInv(c) ==
  /\ ended[c] \in {0, 1}
  /\ Registered(c) => ~Reading(c) /\ c \notin notifying
  /\ Reading(c) => c \notin notifying
  /\ Registered(c) \/ Reading(c) \/ c \in notifying => ended[c] = 0 /\ stage[c] # "idle"
  /\ stage[c] = "waiting" =>
       ended[c] > 0 \/ Registered(c) \/ Reading(c) \/ c \in notifying

OnceRegistered ==
  \A i, j \in DOMAIN replyFuncs : replyFuncs[i] = replyFuncs[j] => i = j

\* A message answers nobody under id 0, or somebody who is registered.
Known(m, funcs) ==
  \/ m.who = Nobody /\ m.id = 0
  \/ m.who # Nobody /\ m.id \in DOMAIN funcs /\ funcs[m.id] = m.who

AllKnown(q, funcs) == \A k \in 1 .. Len(q) : Known(q[k], funcs)
Answered(q) == \A k \in 1 .. Len(q) : q[k].who # Nobody => q[k].answered
Unique(q) == \A k, l \in 1 .. Len(q) : q[k].id # 0 /\ q[k].id = q[l].id => k = l
Apart(q, r) ==
  \A k \in 1 .. Len(q), l \in 1 .. Len(r) : q[k].id # 0 => q[k].id # r[l].id

WireInv ==
  /\ dead => broken /\ replies = <<>> /\ DOMAIN replyFuncs = {}
  /\ ~dead => /\ AllKnown(requests, replyFuncs) /\ AllKnown(replies, replyFuncs)
              /\ Answered(requests)
              /\ Unique(requests) /\ Unique(replies) /\ Apart(requests, replies)

ReaderInv == reader.at = "docs" => reader.docs > 0

\* The inductive invariant: what SocketInv says, where each replyFunc is, and
\* whom each message on the connection answers.
SocketIInv ==
  /\ SocketTypeOK /\ RepliesMatch /\ DeadlineArmed /\ ZeroReserved
  /\ OnceRegistered /\ WireInv /\ ReaderInv
  /\ \A c \in Askers : CallerInv(c)

LEMMA IInvImplies == SocketIInv => SocketInv
<1> SUFFICES ASSUME SocketIInv PROVE SocketInv
  OBVIOUS
<1>1. OneEnding
  BY DEF SocketIInv, CallerInv, OneEnding
<1>2. WaiterKnown
  BY DEF SocketIInv, CallerInv, WaiterKnown, Registered, Reading
<1>. QED
  BY <1>1, <1>2 DEF SocketIInv, SocketInv

LEMMA InitIInv == ASSUME SocketAssumption, SocketInit PROVE SocketIInv
<1> USE DEF SocketAssumption, SocketInit, AtHeader
<1>1. SocketTypeOK
  <2>1. nextId \in Ids
    BY DEF Ids
  <2>2. /\ requests \in Seq([id : Ids, who : Askers \cup {Nobody}, answered : BOOLEAN])
        /\ replies \in Seq([id : Ids, who : Askers \cup {Nobody}, docs : 0 .. MaxDocs,
                            bad : BOOLEAN])
    OBVIOUS
  <2>3. reader \in [at : {"header", "docs", "finish", "dying", "ended"},
                   func : Askers \cup {Nobody}, who : Askers \cup {Nobody},
                   docs : 0 .. MaxDocs]
    OBVIOUS
  <2>4. stage \in [Askers -> {"idle", "waiting", "failed"}] /\ ended \in [Askers -> Nat]
    OBVIOUS
  <2>5. DOMAIN replyFuncs = {} /\ {dead, armed, broken} \subseteq BOOLEAN
    OBVIOUS
  <2>. QED
    BY <2>1, <2>2, <2>3, <2>4, <2>5 DEF SocketTypeOK
<1>2. RepliesMatch /\ DeadlineArmed /\ ZeroReserved /\ OnceRegistered /\ ReaderInv
  BY DEF RepliesMatch, DeadlineArmed, ZeroReserved, OnceRegistered, ReaderInv
<1>3. WireInv
  BY DEF WireInv, AllKnown, Answered, Unique, Apart
<1>4. \A c \in Askers : CallerInv(c)
  BY DEF CallerInv, Registered, Reading
<1>. QED
  BY <1>1, <1>2, <1>3, <1>4 DEF SocketIInv

----------------------------------------------------------------------------
(* The messages on the connection                                          *)

Request == [id : Ids, who : Askers \cup {Nobody}, answered : BOOLEAN]
Reply == [id : Ids, who : Askers \cup {Nobody}, docs : 0 .. MaxDocs, bad : BOOLEAN]

\* A message behind the others, under id 0 or an id that none of them has.
LEMMA Appended ==
  ASSUME NEW S, NEW q \in Seq(S), NEW m \in S, NEW r, NEW funcs,
         AllKnown(q, funcs), Unique(q), Apart(q, r), Known(m, funcs),
         m.id # 0 => \A k \in 1 .. Len(q) : q[k].id # m.id,
         m.id # 0 => \A k \in 1 .. Len(r) : r[k].id # m.id
  PROVE  AllKnown(Append(q, m), funcs) /\ Unique(Append(q, m)) /\ Apart(Append(q, m), r)
<1> DEFINE n == Len(q)
<1>1. n \in Nat /\ Len(Append(q, m)) = n + 1 /\ Append(q, m)[n + 1] = m
  OBVIOUS
<1>2. \A k \in 1 .. n + 1 : k # n + 1 => k \in 1 .. n /\ Append(q, m)[k] = q[k]
  OBVIOUS
<1> HIDE DEF n
<1>3. AllKnown(q, funcs) => \A k \in 1 .. n : Known(q[k], funcs)
  BY DEF AllKnown, n
<1>4. AllKnown(Append(q, m), funcs)
  BY <1>1, <1>2, <1>3 DEF AllKnown
<1>5. Unique(Append(q, m))
  BY <1>1, <1>2 DEF Unique, n
<1>6. Apart(Append(q, m), r)
  BY <1>1, <1>2 DEF Apart, n
<1>. QED
  BY <1>4, <1>5, <1>6

\* The first message taken away.
LEMMA Taken ==
  ASSUME NEW S, NEW q \in Seq(S), q # <<>>, NEW r, NEW funcs,
         AllKnown(q, funcs), Unique(q), Apart(q, r), Answered(q)
  PROVE  /\ AllKnown(Tail(q), funcs) /\ Unique(Tail(q)) /\ Apart(Tail(q), r)
         /\ Answered(Tail(q))
         /\ Known(Head(q), funcs) /\ (Head(q).who # Nobody => Head(q).answered)
         /\ Head(q).id # 0 => \A k \in 1 .. Len(Tail(q)) : Tail(q)[k].id # Head(q).id
         /\ Head(q).id # 0 => \A k \in 1 .. Len(r) : r[k].id # Head(q).id
<1>1. /\ Len(q) \in Nat \ {0} /\ Len(Tail(q)) = Len(q) - 1 /\ Head(q) = q[1]
      /\ \A k \in 1 .. Len(Tail(q)) : k + 1 \in 1 .. Len(q) /\ Tail(q)[k] = q[k + 1]
  OBVIOUS
<1>2. 1 \in 1 .. Len(q)
  BY <1>1
<1>3. AllKnown(Tail(q), funcs) /\ Known(Head(q), funcs)
  BY <1>1, <1>2 DEF AllKnown
<1>4. Answered(Tail(q)) /\ (Head(q).who # Nobody => Head(q).answered)
  BY <1>1, <1>2 DEF Answered
<1>5. Apart(Tail(q), r) /\ (Head(q).id # 0 => \A k \in 1 .. Len(r) : r[k].id # Head(q).id)
  BY <1>1, <1>2 DEF Apart
<1>6. Unique(Tail(q))
  <2> SUFFICES ASSUME NEW k \in 1 .. Len(Tail(q)), NEW l \in 1 .. Len(Tail(q)),
                      Tail(q)[k].id # 0, Tail(q)[k].id = Tail(q)[l].id
               PROVE  k = l
    BY DEF Unique
  <2>1. k + 1 \in 1 .. Len(q) /\ l + 1 \in 1 .. Len(q) /\ k \in Int /\ l \in Int
    BY <1>1
  <2>2. k + 1 = l + 1
    BY <1>1, <2>1 DEF Unique
  <2>. QED
    BY <2>1, <2>2
<1>7. Head(q).id # 0 => \A k \in 1 .. Len(Tail(q)) : Tail(q)[k].id # Head(q).id
  <2> SUFFICES ASSUME NEW k \in 1 .. Len(Tail(q)), Head(q).id # 0,
                      Tail(q)[k].id = Head(q).id
               PROVE  FALSE
    OBVIOUS
  <2>1. k + 1 \in 1 .. Len(q) /\ k \in 1 .. Len(Tail(q)) /\ q[k + 1].id = q[1].id
    BY <1>1
  <2>2. k + 1 = 1
    BY <1>1, <1>2, <2>1 DEF Unique
  <2>. QED
    BY <1>1, <2>2
<1>. QED
  BY <1>3, <1>4, <1>5, <1>6, <1>7

----------------------------------------------------------------------------
(* Fresh ids                                                               *)

LEMMA Fresh ==
  ASSUME SocketAssumption, SocketIInv
  PROVE  /\ FreshId \in Ids \ {0}
         /\ \A w \in {0, 1} : (FreshId + w) % IdSpace \in Ids
         /\ IdsLeft => FreshId \notin DOMAIN replyFuncs
<1>1. IdSpace \in Nat /\ IdSpace >= 4 /\ nextId \in 0 .. IdSpace - 1
  BY DEF SocketAssumption, SocketIInv, SocketTypeOK, Ids
<1>2. (nextId + 1) % IdSpace = IF nextId + 1 = IdSpace THEN 0 ELSE nextId + 1
  <2>1. CASE nextId + 1 = IdSpace
    <3>1. (nextId + 1) % IdSpace = 0
      BY <1>1, <2>1, SMTT(20)
    <3>. QED
      BY <2>1, <3>1
  <2>2. CASE nextId + 1 < IdSpace
    <3>1. (nextId + 1) % IdSpace = nextId + 1
      BY <1>1, <2>2, SMTT(20)
    <3>. QED
      BY <1>1, <2>2, <3>1
  <2>. QED
    BY <1>1, <2>1, <2>2
<1>3. FreshId \in 1 .. IdSpace - 1 /\ FreshId = IF nextId + 1 = IdSpace THEN 1 ELSE nextId + 1
  BY <1>1, <1>2 DEF FreshId
<1>4. FreshId \in Ids \ {0}
  BY <1>1, <1>3 DEF Ids
<1>5. ASSUME NEW w \in {0, 1} PROVE (FreshId + w) % IdSpace \in Ids
  <2>1. FreshId + w \in Nat
    BY <1>3
  <2>2. (FreshId + w) % IdSpace \in 0 .. IdSpace - 1
    BY <1>1, <2>1, SMTT(20)
  <2>. QED
    BY <2>2 DEF Ids
<1>6. IdsLeft => FreshId \notin DOMAIN replyFuncs
  <2> SUFFICES ASSUME IdsLeft, FreshId \in DOMAIN replyFuncs PROVE FALSE
    OBVIOUS
  <2>1. (nextId - FreshId) % IdSpace < IdSpace - 3
    BY DEF IdsLeft
  <2>2. CASE nextId + 1 = IdSpace
    <3>1. nextId - FreshId = IdSpace - 2
      BY <1>1, <1>3, <2>2
    <3>2. (IdSpace - 2) % IdSpace = IdSpace - 2
      BY <1>1, SMTT(20)
    <3>. QED
      BY <1>1, <2>1, <3>1, <3>2
  <2>3. CASE nextId + 1 # IdSpace
    <3>1. nextId - FreshId = -1
      BY <1>1, <1>3, <2>3
    <3>2. (-1) % IdSpace = IdSpace - 1
      BY <1>1, SMTT(20)
    <3>. QED
      BY <1>1, <2>1, <3>1, <3>2
  <2>. QED
    BY <2>2, <2>3
<1>. QED
  BY <1>4, <1>5, <1>6

----------------------------------------------------------------------------
(* Query                                                                   *)

\* A registration: nobody loses his place, and nobody has two.
LEMMA Registers ==
  ASSUME SocketAssumption, SocketIInv, NEW c \in Askers, NEW wants \in BOOLEAN,
         Begin(c), Register(c, wants)
  PROVE  /\ nextId' \in Ids /\ armed' \in BOOLEAN
         /\ wants => FreshId \notin DOMAIN replyFuncs
                       /\ FreshId \in DOMAIN replyFuncs' /\ replyFuncs'[FreshId] = c
         /\ DOMAIN replyFuncs' \subseteq Ids
         /\ \A i \in DOMAIN replyFuncs' : replyFuncs'[i] \in Askers
         /\ DeadlineArmed' /\ ZeroReserved' /\ OnceRegistered'
         /\ \A m : Known(m, replyFuncs) => Known(m, replyFuncs')
         /\ \A d \in Askers : Registered(d)' <=> Registered(d) \/ (wants /\ d = c)
<1>1. ~Registered(c) /\ IdsLeft
  BY DEF Begin, SocketIInv, CallerInv
<1>2. FreshId \in Ids \ {0} /\ FreshId \notin DOMAIN replyFuncs
  BY <1>1, Fresh
<1>3. nextId' \in Ids /\ armed' \in BOOLEAN
  <2>1. nextId' = (FreshId + (IF wants THEN 1 ELSE 0)) % IdSpace /\ armed \in BOOLEAN
    BY DEF Register, SocketIInv, SocketTypeOK
  <2>. QED
    BY <2>1, Fresh DEF Register, SocketIInv, SocketTypeOK
<1>4. DOMAIN replyFuncs \subseteq Ids /\ \A i \in DOMAIN replyFuncs : replyFuncs[i] \in Askers
  BY DEF SocketIInv, SocketTypeOK
<1>5. CASE wants
  <2>1. replyFuncs' = [i \in DOMAIN replyFuncs \cup {FreshId} |->
                         IF i = FreshId THEN c ELSE replyFuncs[i]]
    BY <1>5 DEF Register
  <2>2. /\ DOMAIN replyFuncs' = DOMAIN replyFuncs \cup {FreshId}
        /\ replyFuncs'[FreshId] = c
        /\ \A i \in DOMAIN replyFuncs : replyFuncs'[i] = replyFuncs[i]
    BY <1>2, <2>1
  <2>3. DeadlineArmed'
    BY <1>5, <2>2 DEF Register, DeadlineArmed, SocketIInv
  <2>4. ZeroReserved'
    BY <1>2, <2>2 DEF ZeroReserved, SocketIInv
  <2>5. OnceRegistered'
    BY <1>1, <2>2 DEF OnceRegistered, SocketIInv, Registered
  <2>6. \A d \in Askers : Registered(d)' <=> Registered(d) \/ d = c
    BY <2>2 DEF Registered
  <2>7. \A m : Known(m, replyFuncs) => Known(m, replyFuncs')
    BY <2>2 DEF Known
  <2>. QED
    BY <1>2, <1>3, <1>4, <1>5, <2>2, <2>3, <2>4, <2>5, <2>6, <2>7
<1>6. CASE ~wants
  <2>1. replyFuncs' = replyFuncs
    BY <1>6 DEF Register
  <2>2. DeadlineArmed' /\ ZeroReserved' /\ OnceRegistered'
    BY <1>6, <2>1 DEF Register, DeadlineArmed, ZeroReserved, OnceRegistered, SocketIInv
  <2>3. \A d \in Askers : Registered(d)' <=> Registered(d)
    BY <2>1 DEF Registered
  <2>. QED
    BY <1>3, <1>4, <1>6, <2>1, <2>2, <2>3
<1>. QED
  BY <1>5, <1>6

\* One more request behind the others, answered if somebody waits for it.
LEMMA Sends ==
  ASSUME NEW q \in Seq(Request), NEW m \in Request, NEW r, NEW funcs,
         AllKnown(q, funcs), Unique(q), Apart(q, r), Answered(q), Known(m, funcs),
         m.who # Nobody => m.answered,
         m.id # 0 => \A k \in 1 .. Len(q) : q[k].id # m.id,
         m.id # 0 => \A k \in 1 .. Len(r) : r[k].id # m.id
  PROVE  /\ Append(q, m) \in Seq(Request)
         /\ AllKnown(Append(q, m), funcs) /\ Unique(Append(q, m))
         /\ Apart(Append(q, m), r) /\ Answered(Append(q, m))
<1>1. AllKnown(Append(q, m), funcs) /\ Unique(Append(q, m)) /\ Apart(Append(q, m), r)
  BY Appended
<1>2. /\ Len(q) \in Nat /\ Len(Append(q, m)) = Len(q) + 1
      /\ \A k \in 1 .. Len(q) + 1 :
           Append(q, m)[k] = m \/ (k \in 1 .. Len(q) /\ Append(q, m)[k] = q[k])
  OBVIOUS
<1>3. Answered(Append(q, m))
  BY <1>2 DEF Answered
<1>. QED
  BY <1>1, <1>3

\* What a Query with its logout sends.
LEMMA QueryWire ==
  ASSUME SocketAssumption, SocketIInv, NEW c \in Askers, NEW wants \in BOOLEAN,
         NEW flagged \in BOOLEAN, Query(c, wants, flagged)
  PROVE  requests' \in Seq(Request) /\ WireInv'
<1>1. /\ ~dead /\ UNCHANGED <<dead, broken, replies>>
      /\ AllKnown(requests, replyFuncs) /\ AllKnown(replies, replyFuncs)
      /\ Answered(requests) /\ Unique(requests) /\ Unique(replies)
      /\ Apart(requests, replies)
  BY DEF Query, SocketIInv, WireInv
<1>2. /\ wants => FreshId \notin DOMAIN replyFuncs
                    /\ FreshId \in DOMAIN replyFuncs' /\ replyFuncs'[FreshId] = c
      /\ \A m : Known(m, replyFuncs) => Known(m, replyFuncs')
  BY Registers DEF Query
<1>3. AllKnown(requests, replyFuncs') /\ AllKnown(replies, replyFuncs')
  BY <1>1, <1>2 DEF AllKnown
<1>4. 0 \in Ids /\ FreshId \in Ids \ {0}
  BY Fresh DEF SocketAssumption, Ids
<1>5. requests \in Seq(Request)
  BY DEF SocketIInv, SocketTypeOK, Request
<1> DEFINE out == Message(0, Nobody, TRUE)
           op == IF wants THEN Message(FreshId, c, TRUE) ELSE Message(0, Nobody, FALSE)
           ahead == IF flagged THEN Append(requests, out) ELSE requests
<1>6. out \in Request /\ op \in Request
  BY <1>4 DEF Message, Request
<1>7. requests' = Append(ahead, op)
  <2>1. CASE flagged
    <3>1. requests' = requests \o (<<out>> \o <<op>>)
      BY <2>1 DEF Query
    <3> HIDE DEF out, op
    <3>2. requests \o (<<out>> \o <<op>>) = Append(Append(requests, out), op)
      BY <1>5, <1>6
    <3>. QED
      BY <2>1, <3>1, <3>2
  <2>2. CASE ~flagged
    <3>1. requests' = requests \o (<<>> \o <<op>>)
      BY <2>2 DEF Query
    <3> HIDE DEF out, op
    <3>2. requests \o (<<>> \o <<op>>) = Append(requests, op)
      BY <1>5, <1>6
    <3>. QED
      BY <2>2, <3>1, <3>2
  <2>. QED
    BY <2>1, <2>2
<1>8. Known(out, replyFuncs') /\ out.who = Nobody /\ out.id = 0
  BY DEF Known, Message
<1>9. Known(op, replyFuncs') /\ (op.who # Nobody => op.answered)
        /\ (op.id # 0 => wants /\ op.id = FreshId)
  BY <1>2 DEF Known, Message, SocketAssumption
<1> HIDE DEF out, op
<1>10. /\ ahead \in Seq(Request) /\ AllKnown(ahead, replyFuncs') /\ Unique(ahead)
       /\ Apart(ahead, replies) /\ Answered(ahead)
  <2>1. CASE flagged
    BY <1>1, <1>3, <1>5, <1>6, <1>8, <2>1, Sends
  <2>2. CASE ~flagged
    BY <1>1, <1>3, <1>5, <2>2
  <2>. QED
    BY <2>1, <2>2
<1>11. /\ \A k \in 1 .. Len(replies) : wants => replies[k].id # FreshId
       /\ \A k \in 1 .. Len(requests) : wants => requests[k].id # FreshId
  BY <1>1, <1>2, <1>4 DEF AllKnown, Known
<1>12. \A k \in 1 .. Len(ahead) : wants => ahead[k].id # FreshId
  <2>1. CASE flagged
    <3>1. Len(Append(requests, out)) = Len(requests) + 1 /\ Len(requests) \in Nat
      BY <1>5, <1>6
    <3>2. \A k \in 1 .. Len(requests) + 1 : Append(requests, out)[k] = out
            \/ (k \in 1 .. Len(requests) /\ Append(requests, out)[k] = requests[k])
      BY <1>5, <1>6
    <3>. QED
      BY <1>4, <1>8, <1>11, <2>1, <3>1, <3>2
  <2>2. CASE ~flagged
    BY <1>11, <2>2
  <2>. QED
    BY <2>1, <2>2
<1> HIDE DEF ahead
<1>13. /\ requests' \in Seq(Request) /\ AllKnown(requests', replyFuncs')
       /\ Unique(requests') /\ Apart(requests', replies) /\ Answered(requests')
  BY <1>6, <1>7, <1>9, <1>10, <1>11, <1>12, Sends
<1>. QED
  BY <1>1, <1>3, <1>13 DEF WireInv

\* An idle goroutine's replyFunc is nowhere.
LEMMA IdleIsNowhere ==
  ASSUME SocketIInv, NEW c \in Askers, stage[c] = "idle"
  PROVE  ~Registered(c) /\ ~Reading(c) /\ c \notin notifying
  BY DEF SocketIInv, CallerInv

LEMMA QueryInv ==
  ASSUME SocketAssumption, SocketIInv, NEW c \in Askers, NEW wants \in BOOLEAN,
         NEW flagged \in BOOLEAN, Query(c, wants, flagged)
  PROVE  SocketIInv'
<1>1. /\ UNCHANGED <<dead, broken, replies, reader, notifying, ended>>
      /\ stage[c] = "idle" /\ ended[c] = 0
      /\ stage' = [stage EXCEPT ![c] = IF wants THEN "waiting" ELSE "idle"]
  BY DEF Query, Begin
<1>2. SocketTypeOK'
  <2>1. /\ nextId' \in Ids /\ armed' \in BOOLEAN /\ DOMAIN replyFuncs' \subseteq Ids
        /\ \A i \in DOMAIN replyFuncs' : replyFuncs'[i] \in Askers
    BY Registers DEF Query
  <2>2. requests' \in Seq([id : Ids, who : Askers \cup {Nobody}, answered : BOOLEAN])
    BY QueryWire DEF Request
  <2>3. SocketTypeOK
    BY DEF SocketIInv
  <2>4. stage' \in [Askers -> {"idle", "waiting", "failed"}]
    BY <1>1, <2>3 DEF SocketTypeOK
  <2>. QED
    BY <1>1, <2>1, <2>2, <2>3, <2>4 DEF SocketTypeOK
<1>3. RepliesMatch' /\ ReaderInv'
  BY <1>1 DEF SocketIInv, RepliesMatch, ReaderInv
<1>4. DeadlineArmed' /\ ZeroReserved' /\ OnceRegistered' /\ WireInv'
  BY Registers, QueryWire DEF Query
<1>5. ASSUME NEW d \in Askers PROVE CallerInv(d)'
  <2>1. Registered(d)' <=> Registered(d) \/ (wants /\ d = c)
    BY Registers DEF Query
  <2>2. Reading(d)' <=> Reading(d)
    BY <1>1 DEF Reading
  <2>3. CallerInv(d) /\ stage \in [Askers -> {"idle", "waiting", "failed"}]
    BY DEF SocketIInv, SocketTypeOK
  <2>4. CASE d = c
    BY <1>1, <2>1, <2>2, <2>3, <2>4, IdleIsNowhere DEF CallerInv
  <2>5. CASE d # c
    BY <1>1, <2>1, <2>2, <2>3, <2>5 DEF CallerInv
  <2>. QED
    BY <2>4, <2>5
<1>. QED
  BY <1>2, <1>3, <1>4, <1>5 DEF SocketIInv

LEMMA WriteFailsInv ==
  ASSUME SocketAssumption, SocketIInv, NEW c \in Askers, NEW wants \in BOOLEAN,
         WriteFails(c, wants)
  PROVE  SocketIInv'
<1>1. /\ UNCHANGED <<dead, requests, replies, reader, notifying, ended>>
      /\ broken' = TRUE /\ ~dead
      /\ stage[c] = "idle" /\ ended[c] = 0
      /\ stage' = [stage EXCEPT ![c] = "failed"]
  BY DEF WriteFails, Begin
<1>2. SocketTypeOK'
  BY <1>1, Registers DEF WriteFails, SocketIInv, SocketTypeOK
<1>3. RepliesMatch' /\ ReaderInv'
  BY <1>1 DEF SocketIInv, RepliesMatch, ReaderInv
<1>4. WireInv'
  <2>1. \A m : Known(m, replyFuncs) => Known(m, replyFuncs')
    BY Registers DEF WriteFails
  <2>2. /\ AllKnown(requests, replyFuncs) => AllKnown(requests, replyFuncs')
        /\ AllKnown(replies, replyFuncs) => AllKnown(replies, replyFuncs')
    BY <2>1 DEF AllKnown
  <2>. QED
    BY <1>1, <2>2 DEF SocketIInv, WireInv
<1>5. DeadlineArmed' /\ ZeroReserved' /\ OnceRegistered'
  BY Registers DEF WriteFails
<1>6. ASSUME NEW d \in Askers PROVE CallerInv(d)'
  <2>1. Registered(d)' <=> Registered(d) \/ (wants /\ d = c)
    BY Registers DEF WriteFails
  <2>2. Reading(d)' <=> Reading(d)
    BY <1>1 DEF Reading
  <2>3. CallerInv(d) /\ stage \in [Askers -> {"idle", "waiting", "failed"}]
    BY DEF SocketIInv, SocketTypeOK
  <2>4. CASE d = c
    BY <1>1, <2>1, <2>2, <2>3, <2>4, IdleIsNowhere DEF CallerInv
  <2>5. CASE d # c
    BY <1>1, <2>1, <2>2, <2>3, <2>5 DEF CallerInv
  <2>. QED
    BY <2>4, <2>5
<1>. QED
  BY <1>2, <1>3, <1>4, <1>5, <1>6 DEF SocketIInv

----------------------------------------------------------------------------
(* The calls of replyFuncs                                                 *)

\* What only depends on the connection and on who is registered there.
WireVars == <<dead, nextId, replyFuncs, armed, broken, requests, replies>>

LEMMA WireSame ==
  ASSUME SocketIInv, UNCHANGED WireVars
  PROVE  WireInv' /\ DeadlineArmed' /\ ZeroReserved' /\ OnceRegistered'
  BY DEF WireVars, SocketIInv, WireInv, DeadlineArmed, ZeroReserved, OnceRegistered

LEMMA EndedOnce ==
  ASSUME SocketIInv, NEW c \in Askers, NEW last \in BOOLEAN, ended[c] = 0,
         ended' = Ended(c, last)
  PROVE  /\ ended' \in [Askers -> Nat]
         /\ ended'[c] = IF last THEN 1 ELSE 0
         /\ \A d \in Askers : d # c => ended'[d] = ended[d]
<1>1. ended \in [Askers -> Nat]
  BY DEF SocketIInv, SocketTypeOK
<1>. QED
  BY <1>1 DEF Ended

LEMMA QueryDeadInv ==
  ASSUME SocketIInv, NEW c \in Askers, NEW wants \in BOOLEAN, QueryDead(c, wants)
  PROVE  SocketIInv'
<1>1. /\ UNCHANGED <<WireVars, reader, notifying>>
      /\ stage[c] = "idle" /\ ended[c] = 0
      /\ stage' = [stage EXCEPT ![c] = "failed"]
      /\ ended' = IF wants THEN Ended(c, TRUE) ELSE ended
  BY DEF QueryDead, Begin, WireVars
<1>2. /\ ended' \in [Askers -> Nat] /\ ended'[c] \in {0, 1}
      /\ \A d \in Askers : d # c => ended'[d] = ended[d]
  BY <1>1, EndedOnce DEF SocketIInv, SocketTypeOK
<1>3. SocketTypeOK'
  BY <1>1, <1>2 DEF SocketIInv, SocketTypeOK, WireVars
<1>4. RepliesMatch' /\ ReaderInv'
  BY <1>1 DEF SocketIInv, RepliesMatch, ReaderInv, WireVars
<1>5. ASSUME NEW d \in Askers PROVE CallerInv(d)'
  <2>1. (Registered(d)' <=> Registered(d)) /\ (Reading(d)' <=> Reading(d))
    BY <1>1 DEF Reading, Registered, WireVars
  <2>2. CallerInv(d) /\ stage \in [Askers -> {"idle", "waiting", "failed"}]
    BY DEF SocketIInv, SocketTypeOK
  <2>3. CASE d = c
    BY <1>1, <1>2, <2>1, <2>2, <2>3, IdleIsNowhere DEF CallerInv
  <2>4. CASE d # c
    BY <1>1, <1>2, <2>1, <2>2, <2>4 DEF CallerInv
  <2>. QED
    BY <2>3, <2>4
<1>. QED
  BY <1>1, <1>3, <1>4, <1>5, WireSame DEF SocketIInv

LEMMA ReturnInv ==
  ASSUME SocketIInv, NEW c \in Askers, Return(c) PROVE SocketIInv'
<1>1. /\ UNCHANGED <<WireVars, reader, notifying>>
      /\ ended[c] > 0
      /\ stage' = [stage EXCEPT ![c] = "idle"]
      /\ ended' = [ended EXCEPT ![c] = 0]
  BY DEF Return, WireVars
<1>2. SocketTypeOK'
  BY <1>1 DEF SocketIInv, SocketTypeOK, WireVars
<1>3. RepliesMatch' /\ ReaderInv'
  BY <1>1 DEF SocketIInv, RepliesMatch, ReaderInv, WireVars
<1>4. ASSUME NEW d \in Askers PROVE CallerInv(d)'
  <2>1. (Registered(d)' <=> Registered(d)) /\ (Reading(d)' <=> Reading(d))
    BY <1>1 DEF Reading, Registered, WireVars
  <2>2. /\ CallerInv(d) /\ stage \in [Askers -> {"idle", "waiting", "failed"}]
        /\ ended \in [Askers -> Nat]
    BY DEF SocketIInv, SocketTypeOK
  <2>. QED
    BY <1>1, <2>1, <2>2 DEF CallerInv
<1>. QED
  BY <1>1, <1>2, <1>3, <1>4, WireSame DEF SocketIInv

LEMMA NotifyInv ==
  ASSUME SocketIInv, NEW c \in Askers, Notify(c) PROVE SocketIInv'
<1>1. /\ UNCHANGED <<WireVars, reader, stage>>
      /\ c \in notifying /\ notifying' = notifying \ {c}
      /\ ended' = Ended(c, TRUE)
  BY DEF Notify, WireVars
<1>2. ended[c] = 0 /\ ~Registered(c) /\ ~Reading(c)
  BY <1>1 DEF SocketIInv, CallerInv
<1>3. /\ ended' \in [Askers -> Nat] /\ ended'[c] = 1
      /\ \A d \in Askers : d # c => ended'[d] = ended[d]
  BY <1>1, <1>2, EndedOnce
<1>4. SocketTypeOK'
  BY <1>1, <1>3 DEF SocketIInv, SocketTypeOK, WireVars
<1>5. RepliesMatch' /\ ReaderInv'
  BY <1>1 DEF SocketIInv, RepliesMatch, ReaderInv, WireVars
<1>6. ASSUME NEW d \in Askers PROVE CallerInv(d)'
  <2>1. (Registered(d)' <=> Registered(d)) /\ (Reading(d)' <=> Reading(d))
    BY <1>1 DEF Reading, Registered, WireVars
  <2>2. CallerInv(d)
    BY DEF SocketIInv
  <2>3. CASE d = c
    <3>1. ~Registered(d) /\ ~Reading(d) /\ d \notin notifying' /\ ended'[d] = 1
      BY <1>1, <1>2, <1>3, <2>3
    <3>. QED
      BY <2>1, <3>1 DEF CallerInv
  <2>4. CASE d # c
    <3>1. ended'[d] = ended[d] /\ stage'[d] = stage[d] /\ (d \in notifying' <=> d \in notifying)
      BY <1>1, <1>3, <2>4
    <3>. QED
      BY <2>1, <2>2, <3>1 DEF CallerInv
  <2>. QED
    BY <2>3, <2>4
<1>. QED
  BY <1>1, <1>4, <1>5, <1>6, WireSame DEF SocketIInv

----------------------------------------------------------------------------
(* kill                                                                    *)

\* kill takes over every replyFunc that is registered, and none twice.
LEMMA Kills ==
  ASSUME SocketIInv, Killed, UNCHANGED <<nextId, armed, requests, stage, ended>>,
         \A d \in Askers : Reading(d)' <=> Reading(d)
  PROVE  /\ {dead', broken'} \subseteq BOOLEAN /\ (dead => dead')
         /\ DOMAIN replyFuncs' \subseteq Ids
         /\ \A i \in DOMAIN replyFuncs' : replyFuncs'[i] \in Askers
         /\ replies' \in Seq(Reply) /\ notifying' \subseteq Askers
         /\ DeadlineArmed' /\ ZeroReserved' /\ OnceRegistered' /\ WireInv'
         /\ \A d \in Askers : CallerInv(d)'
<1>1. /\ {dead, broken} \subseteq BOOLEAN
      /\ DOMAIN replyFuncs \subseteq Ids
      /\ \A i \in DOMAIN replyFuncs : replyFuncs[i] \in Askers
      /\ replies \in Seq(Reply) /\ notifying \subseteq Askers
  BY DEF SocketIInv, SocketTypeOK, Reply
<1>2. CASE dead
  <2>1. UNCHANGED WireVars /\ UNCHANGED <<notifying, stage, ended>>
    BY <1>2 DEF Killed, WireVars
  <2>2. ASSUME NEW d \in Askers PROVE CallerInv(d)'
    <3>1. Registered(d)' <=> Registered(d)
      BY <2>1 DEF Registered, WireVars
    <3>. QED
      BY <2>1, <3>1 DEF SocketIInv, CallerInv
  <2>. QED
    BY <1>1, <2>1, <2>2, WireSame DEF WireVars
<1>3. CASE ~dead
  <2>1. /\ dead' = TRUE /\ broken' = TRUE
        /\ notifying' = notifying \cup {replyFuncs[i] : i \in DOMAIN replyFuncs}
        /\ DOMAIN replyFuncs' = {}
        /\ replies' = <<>>
    BY <1>3 DEF Killed
  <2>2. notifying' \subseteq Askers /\ replies' \in Seq(Reply)
    BY <1>1, <2>1
  <2>3. DeadlineArmed' /\ ZeroReserved' /\ OnceRegistered' /\ WireInv'
    BY <2>1 DEF DeadlineArmed, ZeroReserved, OnceRegistered, WireInv
  <2>4. ASSUME NEW d \in Askers PROVE CallerInv(d)'
    <3>1. ~Registered(d)'
      BY <2>1 DEF Registered
    <3>2. d \in notifying' <=> d \in notifying \/ Registered(d)
      BY <2>1 DEF Registered
    <3>3. CallerInv(d)
      BY DEF SocketIInv
    <3>. QED
      BY <3>1, <3>2, <3>3 DEF CallerInv
  <2>. QED
    BY <2>1, <2>2, <2>3, <2>4
<1>. QED
  BY <1>2, <1>3

\* What is left to show of a step that calls kill.
LEMMA KilledInv ==
  ASSUME SocketAssumption, SocketIInv, Killed, UNCHANGED <<nextId, armed, requests, stage, ended>>,
         \/ reader' = reader
         \/ reader.at \notin {"docs"} /\ reader' = [reader EXCEPT !.at = "ended"]
         \/ reader.at \notin {"docs"} /\ reader' = [AtHeader EXCEPT !.at = "ended"]
  PROVE  SocketIInv'
<1>1. reader \in [at : {"header", "docs", "finish", "dying", "ended"},
                  func : Askers \cup {Nobody}, who : Askers \cup {Nobody},
                  docs : 0 .. MaxDocs]
  BY DEF SocketIInv, SocketTypeOK
<1>2. reader' = reader \/ (reader.at # "docs" /\ reader'.at = "ended")
  BY <1>1 DEF AtHeader
<1>3. \A d \in Askers : Reading(d)' <=> Reading(d)
  BY <1>2 DEF Reading
<1>4. /\ {dead', broken'} \subseteq BOOLEAN /\ (dead => dead')
      /\ DOMAIN replyFuncs' \subseteq Ids
      /\ \A i \in DOMAIN replyFuncs' : replyFuncs'[i] \in Askers
      /\ replies' \in Seq(Reply) /\ notifying' \subseteq Askers
      /\ DeadlineArmed' /\ ZeroReserved' /\ OnceRegistered' /\ WireInv'
      /\ \A d \in Askers : CallerInv(d)'
  BY <1>3, Kills
<1>5. reader' \in [at : {"header", "docs", "finish", "dying", "ended"},
                   func : Askers \cup {Nobody}, who : Askers \cup {Nobody},
                   docs : 0 .. MaxDocs]
  BY <1>1 DEF AtHeader, SocketAssumption
<1>6. RepliesMatch' /\ ReaderInv'
  BY <1>2, <1>4 DEF SocketIInv, RepliesMatch, ReaderInv
<1>7. SocketTypeOK'
  <2>1. SocketTypeOK /\ {dead', broken', armed'} \subseteq BOOLEAN
    BY <1>4 DEF SocketIInv, SocketTypeOK
  <2>. QED
    BY <1>4, <1>5, <2>1 DEF SocketTypeOK, Reply
<1>. QED
  BY <1>4, <1>6, <1>7 DEF SocketIInv

LEMMA CloseInv == ASSUME SocketAssumption, SocketIInv, CloseConn PROVE SocketIInv'
  BY KilledInv DEF CloseConn

LEMMA HeaderFailsInv ==
  ASSUME SocketAssumption, SocketIInv, HeaderFails PROVE SocketIInv'
  BY KilledInv DEF HeaderFails

LEMMA DieInv == ASSUME SocketAssumption, SocketIInv, Die PROVE SocketIInv'
  BY KilledInv DEF Die

----------------------------------------------------------------------------
(* The read loop                                                           *)

\* A reply is read: its replyFunc goes from the map to the read loop, or has
\* been told its end.
LEMMA ReadHeaderInv ==
  ASSUME SocketAssumption, SocketIInv, ReadHeader PROVE SocketIInv'
<1> DEFINE m == Head(replies)
           func == IF m.id \in DOMAIN replyFuncs THEN replyFuncs[m.id] ELSE Nobody
<1>1. /\ reader.at = "header" /\ replies # <<>> /\ replies' = Tail(replies)
      /\ replyFuncs' = [i \in DOMAIN replyFuncs \ {m.id} |-> replyFuncs[i]]
      /\ reader' = [at |-> IF m.docs = 0 THEN "finish" ELSE "docs",
                    func |-> func, who |-> m.who, docs |-> m.docs]
      /\ ended' = IF func # Nobody /\ m.docs = 0 THEN Ended(func, TRUE) ELSE ended
      /\ UNCHANGED <<dead, nextId, armed, broken, requests, notifying, stage>>
  BY DEF ReadHeader
<1>2. replies \in Seq(Reply) /\ requests \in Seq(Request) /\ SocketTypeOK
  BY DEF SocketIInv, SocketTypeOK, Reply, Request
<1>3. ~dead /\ AllKnown(requests, replyFuncs) /\ AllKnown(replies, replyFuncs)
        /\ Unique(requests) /\ Unique(replies) /\ Apart(requests, replies)
        /\ Answered(requests)
  BY <1>1 DEF SocketIInv, WireInv
<1>4. m \in Reply /\ Tail(replies) \in Seq(Reply)
  BY <1>1, <1>2
<1> HIDE DEF m
<1>5. /\ 1 \in 1 .. Len(replies) /\ m = replies[1] /\ Len(Tail(replies)) = Len(replies) - 1
      /\ \A k \in 1 .. Len(Tail(replies)) :
           k + 1 \in 1 .. Len(replies) /\ Tail(replies)[k] = replies[k + 1] /\ k + 1 # 1
  BY <1>1, <1>2 DEF m
<1>6. Known(m, replyFuncs)
  BY <1>3, <1>5 DEF AllKnown
<1>7. /\ DOMAIN replyFuncs' = DOMAIN replyFuncs \ {m.id}
      /\ \A i \in DOMAIN replyFuncs' : replyFuncs'[i] = replyFuncs[i]
  BY <1>1
<1>8. \/ m.id = 0 /\ m.who = Nobody /\ func = Nobody /\ DOMAIN replyFuncs' = DOMAIN replyFuncs
      \/ m.id \in DOMAIN replyFuncs /\ func = m.who /\ func \in Askers /\ func # Nobody
  <2>1. CASE m.id = 0
    <3>1. m.who = Nobody /\ 0 \notin DOMAIN replyFuncs
      BY <1>6, <2>1 DEF Known, SocketIInv, ZeroReserved
    <3>. QED
      BY <1>7, <2>1, <3>1
  <2>2. CASE m.id # 0
    <3>1. m.id \in DOMAIN replyFuncs /\ replyFuncs[m.id] = m.who
      BY <1>6, <2>2 DEF Known
    <3>2. replyFuncs[m.id] \in Askers
      BY <1>2, <3>1 DEF SocketTypeOK
    <3>3. Nobody \notin Askers
      BY DEF SocketAssumption
    <3>. QED
      BY ONLY <3>1, <3>2, <3>3 DEF func
  <2>. QED
    BY <2>1, <2>2
<1> HIDE DEF func
<1>9. \A n : Known(n, replyFuncs) /\ (m.id = 0 \/ n.id # m.id) => Known(n, replyFuncs')
  <2> SUFFICES ASSUME NEW n, Known(n, replyFuncs), m.id = 0 \/ n.id # m.id
               PROVE  Known(n, replyFuncs')
    OBVIOUS
  <2>1. CASE n.who = Nobody
    BY <2>1 DEF Known
  <2>2. CASE n.who # Nobody
    <3>1. n.id \in DOMAIN replyFuncs /\ replyFuncs[n.id] = n.who
      BY <2>2 DEF Known
    <3>2. n.id # m.id
      BY <3>1 DEF SocketIInv, ZeroReserved
    <3>. QED
      BY <1>7, <2>2, <3>1, <3>2 DEF Known
  <2>. QED
    BY <2>1, <2>2
<1>10. m.id # 0 => /\ \A k \in 1 .. Len(requests) : requests[k].id # m.id
                   /\ \A k \in 1 .. Len(Tail(replies)) : Tail(replies)[k].id # m.id
  BY <1>3, <1>5 DEF Apart, Unique
<1>11. WireInv'
  <2>1. AllKnown(requests, replyFuncs') /\ AllKnown(Tail(replies), replyFuncs')
    BY <1>3, <1>5, <1>9, <1>10 DEF AllKnown
  <2>2. Apart(requests, Tail(replies))
    BY <1>3, <1>5 DEF Apart
  <2>3. Unique(Tail(replies))
    <3> SUFFICES ASSUME NEW k \in 1 .. Len(Tail(replies)), NEW l \in 1 .. Len(Tail(replies)),
                        Tail(replies)[k].id # 0, Tail(replies)[k].id = Tail(replies)[l].id
                 PROVE  k = l
      BY DEF Unique
    <3>1. k + 1 = l + 1 /\ k \in Int /\ l \in Int
      BY <1>3, <1>5 DEF Unique
    <3>. QED
      BY <3>1
  <2>. QED
    BY <1>1, <1>3, <2>1, <2>2, <2>3 DEF WireInv
<1>12. DeadlineArmed' /\ ZeroReserved' /\ OnceRegistered'
  BY <1>1, <1>7 DEF SocketIInv, DeadlineArmed, ZeroReserved, OnceRegistered
<1>13. /\ reader' = [at |-> IF m.docs = 0 THEN "finish" ELSE "docs",
                     func |-> func, who |-> m.who, docs |-> m.docs]
       /\ ended' = IF func # Nobody /\ m.docs = 0 THEN Ended(func, TRUE) ELSE ended
  BY <1>1 DEF m, func
<1>14. m.docs \in 0 .. MaxDocs /\ m.who \in Askers \cup {Nobody}
         /\ func \in Askers \cup {Nobody}
  BY <1>4, <1>8 DEF Reply
<1>15. RepliesMatch' /\ ReaderInv'
  <2>1. m.docs # 0 => m.docs > 0
    BY <1>14
  <2>. QED
    BY <1>8, <1>13, <2>1 DEF RepliesMatch, ReaderInv
<1>16. func # Nobody =>
         /\ func \in Askers /\ ended[func] = 0 /\ stage[func] # "idle"
         /\ func \notin notifying /\ \A i \in DOMAIN replyFuncs' : replyFuncs'[i] # func
  <2> SUFFICES ASSUME func # Nobody
               PROVE  /\ func \in Askers /\ ended[func] = 0 /\ stage[func] # "idle"
                      /\ func \notin notifying /\ \A i \in DOMAIN replyFuncs' : replyFuncs'[i] # func
    OBVIOUS
  <2>1. m.id \in DOMAIN replyFuncs /\ replyFuncs[m.id] = func /\ func \in Askers
    BY <1>8 DEF func
  <2>2. Registered(func) /\ CallerInv(func)
    BY <2>1 DEF Registered, SocketIInv
  <2>3. \A i \in DOMAIN replyFuncs' : replyFuncs'[i] # func
    BY <1>7, <2>1 DEF SocketIInv, OnceRegistered
  <2>. QED
    BY <2>1, <2>2, <2>3 DEF CallerInv
<1>17. /\ ended' \in [Askers -> Nat]
       /\ func # Nobody => ended'[func] = IF m.docs = 0 THEN 1 ELSE 0
       /\ \A d \in Askers : d # func => ended'[d] = ended[d]
  <2>1. ended \in [Askers -> Nat]
    BY <1>2 DEF SocketTypeOK
  <2>2. CASE func # Nobody /\ m.docs = 0
    BY <1>13, <1>16, <2>2, EndedOnce
  <2>3. CASE ~(func # Nobody /\ m.docs = 0)
    BY <1>13, <1>16, <2>1, <2>3
  <2>. QED
    BY <2>2, <2>3
<1>18. SocketTypeOK'
  <2>1. reader' \in [at : {"header", "docs", "finish", "dying", "ended"},
                     func : Askers \cup {Nobody}, who : Askers \cup {Nobody},
                     docs : 0 .. MaxDocs]
    BY <1>13, <1>14
  <2>2. replies' \in Seq(Reply)
    BY <1>1, <1>4
  <2>. QED
    BY <1>1, <1>2, <1>7, <1>17, <2>1, <2>2 DEF SocketTypeOK, Reply
<1>19. ASSUME NEW d \in Askers PROVE CallerInv(d)'
  <2>1. ~Reading(d) /\ CallerInv(d) /\ d # Nobody
    BY <1>1 DEF Reading, SocketIInv, SocketAssumption
  <2>2. CASE d = func
    <3>1. ended'[d] = (IF m.docs = 0 THEN 1 ELSE 0) /\ stage'[d] # "idle" /\ d \notin notifying'
            /\ ~Registered(d)'
      BY <1>1, <1>16, <1>17, <2>1, <2>2 DEF Registered
    <3>2. Reading(d)' <=> m.docs # 0
      BY <1>13, <2>2 DEF Reading
    <3>. QED
      BY <3>1, <3>2 DEF CallerInv
  <2>3. CASE d # func
    <3>1. ended'[d] = ended[d] /\ stage'[d] = stage[d] /\ notifying' = notifying
      BY <1>1, <1>17, <2>3
    <3>2. ~Reading(d)'
      BY <1>13, <2>3 DEF Reading
    <3>3. Registered(d)' <=> Registered(d)
      BY <1>7, <1>8, <2>1, <2>3 DEF Registered, func
    <3>. QED
      BY <2>1, <3>1, <3>2, <3>3 DEF CallerInv
  <2>. QED
    BY <2>2, <2>3
<1>. QED
  BY <1>11, <1>12, <1>15, <1>18, <1>19 DEF SocketIInv

\* A document is handed over, the last one with the end of the reply.
LEMMA TellsInv ==
  ASSUME SocketAssumption, SocketIInv, reader.at = "docs",
         UNCHANGED <<WireVars, notifying, stage>>,
         NEW last \in BOOLEAN,
         ended' = IF reader.func = Nobody THEN ended ELSE Ended(reader.func, last),
         reader' \in [at : {"header", "docs", "finish", "dying", "ended"},
                      func : Askers \cup {Nobody}, who : Askers \cup {Nobody},
                      docs : 0 .. MaxDocs],
         last <=> reader'.at # "docs",
         reader'.at \in {"docs", "finish"} =>
           reader'.func = reader.func /\ reader'.who = reader.who,
         reader'.at = "docs" => reader'.docs > 0
  PROVE  SocketIInv'
<1>1. SocketTypeOK /\ reader.func \in Askers \cup {Nobody}
  BY DEF SocketIInv, SocketTypeOK
<1>2. reader.func # Nobody => Reading(reader.func) /\ reader.func \in Askers
  BY <1>1 DEF Reading
<1>3. reader.func # Nobody =>
        /\ ended[reader.func] = 0 /\ stage[reader.func] # "idle"
        /\ reader.func \notin notifying /\ ~Registered(reader.func)
  BY <1>2 DEF SocketIInv, CallerInv
<1>4. /\ ended' \in [Askers -> Nat]
      /\ reader.func # Nobody => ended'[reader.func] = IF last THEN 1 ELSE 0
      /\ \A d \in Askers : d # reader.func => ended'[d] = ended[d]
  <2>1. CASE reader.func = Nobody
    BY <1>1, <2>1 DEF SocketTypeOK
  <2>2. CASE reader.func # Nobody
    BY <1>2, <1>3, <2>2, EndedOnce
  <2>. QED
    BY <2>1, <2>2
<1>5. SocketTypeOK'
  BY <1>1, <1>4 DEF SocketTypeOK, WireVars
<1>6. RepliesMatch' /\ ReaderInv'
  BY DEF SocketIInv, RepliesMatch, ReaderInv, WireVars
<1>7. ASSUME NEW d \in Askers PROVE CallerInv(d)'
  <2>1. (Registered(d)' <=> Registered(d)) /\ stage'[d] = stage[d]
          /\ (d \in notifying' <=> d \in notifying)
    BY DEF Registered, WireVars
  <2>2. CallerInv(d) /\ d # Nobody
    BY DEF SocketIInv, SocketAssumption
  <2>3. CASE d = reader.func
    <3>1. ended'[d] = (IF last THEN 1 ELSE 0) /\ stage'[d] # "idle" /\ d \notin notifying'
            /\ ~Registered(d)
      BY <1>3, <1>4, <2>1, <2>2, <2>3
    <3>2. Reading(d)' <=> ~last
      BY <2>3 DEF Reading
    <3>. QED
      BY <2>1, <3>1, <3>2 DEF CallerInv
  <2>4. CASE d # reader.func
    <3>1. ~Reading(d) /\ ~Reading(d)' /\ ended'[d] = ended[d]
      BY <1>4, <2>4 DEF Reading
    <3>. QED
      BY <2>1, <2>2, <3>1 DEF CallerInv
  <2>. QED
    BY <2>3, <2>4
<1>. QED
  BY <1>5, <1>6, <1>7, WireSame DEF SocketIInv

LEMMA ReadDocInv == ASSUME SocketAssumption, SocketIInv, ReadDoc PROVE SocketIInv'
<1> DEFINE last == reader.docs = 1
<1>1. /\ reader.at = "docs" /\ UNCHANGED <<WireVars, notifying, stage>>
      /\ reader' = [reader EXCEPT !.docs = @ - 1,
                                  !.at = IF last THEN "finish" ELSE "docs"]
      /\ ended' = IF reader.func = Nobody THEN ended ELSE Ended(reader.func, last)
  BY DEF ReadDoc, WireVars
<1>2. /\ reader \in [at : {"header", "docs", "finish", "dying", "ended"},
                     func : Askers \cup {Nobody}, who : Askers \cup {Nobody},
                     docs : 0 .. MaxDocs]
      /\ reader.docs > 0 /\ MaxDocs \in Nat
  BY <1>1 DEF SocketIInv, SocketTypeOK, ReaderInv, SocketAssumption
<1>3. reader.docs - 1 \in 0 .. MaxDocs /\ (~last => reader.docs - 1 > 0)
  BY <1>2
<1> HIDE DEF last
<1>4. /\ reader' \in [at : {"header", "docs", "finish", "dying", "ended"},
                      func : Askers \cup {Nobody}, who : Askers \cup {Nobody},
                      docs : 0 .. MaxDocs]
      /\ reader'.at = (IF last THEN "finish" ELSE "docs")
      /\ reader'.func = reader.func /\ reader'.who = reader.who
      /\ reader'.docs = reader.docs - 1
  BY <1>1, <1>2, <1>3
<1>5. last \in BOOLEAN
  BY DEF last
<1>. QED
  BY <1>1, <1>3, <1>4, <1>5, TellsInv

LEMMA DocFailsInv == ASSUME SocketAssumption, SocketIInv, DocFails PROVE SocketIInv'
<1>1. /\ reader.at = "docs" /\ UNCHANGED <<WireVars, notifying, stage>>
      /\ reader' = [AtHeader EXCEPT !.at = "dying"]
      /\ ended' = IF reader.func = Nobody THEN ended ELSE Ended(reader.func, TRUE)
  BY DEF DocFails, WireVars
<1>2. /\ reader' \in [at : {"header", "docs", "finish", "dying", "ended"},
                      func : Askers \cup {Nobody}, who : Askers \cup {Nobody},
                      docs : 0 .. MaxDocs]
      /\ reader'.at = "dying"
  BY <1>1 DEF AtHeader, SocketAssumption
<1>. QED
  BY <1>1, <1>2, TellsInv

\* The connection keeps its deadline if another reply is waited for.
LEMMA FinishInv == ASSUME SocketAssumption, SocketIInv, Finish PROVE SocketIInv'
<1>1. /\ reader.at = "finish" /\ reader' = AtHeader
      /\ armed' = (DOMAIN replyFuncs # {})
      /\ UNCHANGED <<dead, nextId, replyFuncs, broken, requests, replies,
                     notifying, stage, ended>>
  BY DEF Finish
<1>2. SocketTypeOK'
  <2>1. SocketTypeOK /\ armed' \in BOOLEAN
    BY <1>1 DEF SocketIInv
  <2>2. reader' \in [at : {"header", "docs", "finish", "dying", "ended"},
                     func : Askers \cup {Nobody}, who : Askers \cup {Nobody},
                     docs : 0 .. MaxDocs]
    BY <1>1 DEF AtHeader, SocketAssumption
  <2>. QED
    BY <1>1, <2>1, <2>2 DEF SocketTypeOK
<1>3. RepliesMatch' /\ ReaderInv' /\ reader'.at = "header"
  BY <1>1 DEF RepliesMatch, ReaderInv, AtHeader
<1>4. DeadlineArmed' /\ ZeroReserved' /\ OnceRegistered' /\ WireInv'
  BY <1>1 DEF SocketIInv, DeadlineArmed, ZeroReserved, OnceRegistered, WireInv
<1>5. ASSUME NEW d \in Askers PROVE CallerInv(d)'
  <2>1. (Registered(d)' <=> Registered(d)) /\ ~Reading(d) /\ ~Reading(d)'
    BY <1>1, <1>3 DEF Registered, Reading
  <2>. QED
    BY <1>1, <2>1 DEF SocketIInv, CallerInv
<1>. QED
  BY <1>2, <1>3, <1>4, <1>5 DEF SocketIInv

----------------------------------------------------------------------------
(* The server and the network                                              *)

\* The variables of the goroutines and of the read loop.
HereVars == <<dead, nextId, replyFuncs, armed, reader, notifying, stage, ended>>

LEMMA HereSame ==
  ASSUME SocketIInv, UNCHANGED HereVars
  PROVE  /\ RepliesMatch' /\ DeadlineArmed' /\ ZeroReserved' /\ OnceRegistered'
         /\ ReaderInv' /\ \A c \in Askers : CallerInv(c)'
<1>1. /\ RepliesMatch' /\ DeadlineArmed' /\ ZeroReserved' /\ OnceRegistered' /\ ReaderInv'
  BY DEF HereVars, SocketIInv, RepliesMatch, DeadlineArmed, ZeroReserved,
         OnceRegistered, ReaderInv
<1>2. ASSUME NEW c \in Askers PROVE CallerInv(c)'
  <2>1. (Registered(c)' <=> Registered(c)) /\ (Reading(c)' <=> Reading(c))
    BY DEF Registered, Reading, HereVars
  <2>. QED
    BY <2>1 DEF HereVars, SocketIInv, CallerInv
<1>. QED
  BY <1>1, <1>2

LEMMA ServeInv == ASSUME SocketAssumption, SocketIInv, Serve PROVE SocketIInv'
<1> DEFINE m == Head(requests)
<1>1. /\ requests # <<>> /\ ~broken /\ UNCHANGED <<HereVars, broken>>
      /\ requests' = Tail(requests)
      /\ \/ ~m.answered /\ replies' = replies
         \/ m.answered /\ \E docs \in 0 .. MaxDocs, bad \in BOOLEAN :
              replies' = Append(replies, [id |-> m.id, who |-> m.who,
                                          docs |-> docs, bad |-> bad])
  BY DEF Serve, HereVars
<1>2. requests \in Seq(Request) /\ replies \in Seq(Reply) /\ SocketTypeOK
  BY DEF SocketIInv, SocketTypeOK, Request, Reply
<1>3. /\ ~dead
      /\ AllKnown(requests, replyFuncs) /\ AllKnown(replies, replyFuncs)
      /\ Answered(requests) /\ Unique(requests) /\ Unique(replies)
      /\ Apart(requests, replies)
  BY <1>1 DEF SocketIInv, WireInv
<1>4. m \in Request /\ Tail(requests) \in Seq(Request)
  BY <1>1, <1>2
<1>5. /\ AllKnown(Tail(requests), replyFuncs) /\ Unique(Tail(requests))
      /\ Apart(Tail(requests), replies) /\ Answered(Tail(requests))
      /\ Known(m, replyFuncs)
      /\ m.id # 0 => \A k \in 1 .. Len(Tail(requests)) : Tail(requests)[k].id # m.id
      /\ m.id # 0 => \A k \in 1 .. Len(replies) : replies[k].id # m.id
  BY <1>1, <1>2, <1>3, Taken
<1> HIDE DEF m
<1>6. replies' \in Seq(Reply) /\ AllKnown(replies', replyFuncs) /\ Unique(replies')
        /\ Apart(Tail(requests), replies')
  <2>1. CASE replies' = replies
    BY <1>2, <1>3, <1>5, <2>1
  <2>2. ASSUME NEW docs \in 0 .. MaxDocs, NEW bad \in BOOLEAN,
               replies' = Append(replies, [id |-> m.id, who |-> m.who,
                                           docs |-> docs, bad |-> bad])
        PROVE  replies' \in Seq(Reply) /\ AllKnown(replies', replyFuncs) /\ Unique(replies')
                 /\ Apart(Tail(requests), replies')
    <3>1. PICK x \in Reply : /\ x.id = m.id /\ x.who = m.who
                             /\ replies' = Append(replies, x)
      <4>1. [id |-> m.id, who |-> m.who, docs |-> docs, bad |-> bad] \in Reply
        BY <1>4 DEF Request, Reply
      <4>. QED
        BY <2>2, <4>1
    <3>2. Known(x, replyFuncs)
      BY <1>5, <3>1 DEF Known
    <3>3. Apart(replies, Tail(requests))
      BY <1>5 DEF Apart
    <3>4. AllKnown(replies', replyFuncs) /\ Unique(replies') /\ Apart(replies', Tail(requests))
      BY <1>2, <1>3, <1>5, <3>1, <3>2, <3>3, Appended
    <3>5. Apart(Tail(requests), replies')
      BY <3>4 DEF Apart
    <3>. QED
      BY <1>2, <3>1, <3>4, <3>5
  <2>. QED
    BY <1>1, <2>1, <2>2
<1>7. WireInv'
  BY <1>1, <1>3, <1>5, <1>6 DEF WireInv, HereVars
<1>8. SocketTypeOK'
  <2>1. requests' \in Seq(Request) /\ replies' \in Seq(Reply)
    BY <1>1, <1>4, <1>6
  <2>. QED
    BY <1>1, <1>2, <2>1 DEF SocketTypeOK, HereVars, Request, Reply
<1>. QED
  BY <1>1, <1>7, <1>8, HereSame DEF SocketIInv

LEMMA BreakInv == ASSUME SocketIInv, Break PROVE SocketIInv'
<1>1. broken' = TRUE /\ UNCHANGED <<HereVars, requests, replies>>
  BY DEF Break, HereVars
<1>2. SocketTypeOK' /\ WireInv'
  BY <1>1 DEF SocketIInv, SocketTypeOK, WireInv, HereVars
<1>. QED
  BY <1>1, <1>2, HereSame DEF SocketIInv

----------------------------------------------------------------------------
(* Theorems                                                                *)

LEMMA StepIInv == ASSUME SocketAssumption, SocketIInv, [SocketNext]_socketVars PROVE SocketIInv'
<1>1. CASE \E c \in Askers, wants \in BOOLEAN :
             \/ \E flagged \in BOOLEAN : Query(c, wants, flagged)
             \/ WriteFails(c, wants)
             \/ QueryDead(c, wants)
  BY <1>1, QueryInv, WriteFailsInv, QueryDeadInv
<1>2. CASE \E c \in Askers : Return(c) \/ Notify(c)
  BY <1>2, ReturnInv, NotifyInv
<1>3. CASE ReadLoop
  BY <1>3, ReadHeaderInv, HeaderFailsInv, ReadDocInv, DocFailsInv, DieInv, FinishInv
     DEF ReadLoop
<1>4. CASE CloseConn \/ Serve \/ Break
  BY <1>4, CloseInv, ServeInv, BreakInv
<1>5. CASE UNCHANGED socketVars
  <2>1. UNCHANGED HereVars /\ UNCHANGED WireVars
    BY <1>5 DEF socketVars, HereVars, WireVars
  <2>2. SocketTypeOK' /\ WireInv'
    BY <2>1 DEF SocketIInv, SocketTypeOK, WireInv, HereVars, WireVars
  <2>. QED
    BY <2>1, <2>2, HereSame DEF SocketIInv
<1>. QED
  BY <1>1, <1>2, <1>3, <1>4, <1>5 DEF SocketNext

\* Goroutines that share a connection get the replies to their own requests,
\* each is told the end of its reply once and is known to somebody who will
\* tell it, a read deadline stands while anybody waits, and id 0 is nobody's
\* (socket.go:288-311, 334-485, 500-602), however many goroutines there are and
\* however often the ids go round.
THEOREM SocketCorrect == SocketSpec => []SocketInv
<1>1. SocketInit => SocketIInv
  BY InitIInv, SocketAssumption
<1>2. SocketIInv /\ [SocketNext]_socketVars => SocketIInv'
  BY StepIInv, SocketAssumption
<1>. QED
  BY <1>1, <1>2, IInvImplies, PTL DEF SocketSpec

----------------------------------------------------------------------------
(* The logins of one connection                                            *)

----------------------------------------------------------------------------
(* The inductive invariant                                                 *)

\* What a goroutine is doing fits where it is.
SharerOk(c) ==
  /\ loginPc[c] \in {"nonce", "parked"} => task[c].kind = "auth"
  /\ loginPc[c] \in {"flush", "send"} => task[c].kind # "none"
  /\ loginPc[c] = "waiting" => task[c].kind \in {"auth", "sasl"}
  /\ task[c].kind \in {"auth", "sasl"} => task[c].cred \in Cred
  /\ loginPc[c] \in {"nonce", "parked", "flush"} => task[c].lops = <<>>

\* The answers under way are those that goroutines wait for, one for each.
Asks(m) == m.kind \in {"auth", "sasl"}
AnswerOk(m) ==
  /\ m.kind \in {"auth", "sasl", "logout"} => m.cred \in Cred
  /\ Asks(m) => /\ m.who \in Sharers
                /\ loginPc[m.who] = "waiting" /\ task[m.who].kind = m.kind
AnswersOk ==
  /\ \A i \in DOMAIN wire : AnswerOk(wire[i])
  /\ \A i, j \in DOMAIN wire : Asks(wire[i]) /\ Asks(wire[j]) /\ wire[i].who = wire[j].who
                               => i = j

\* The next nonce is in one place: asked for, cached, used by the login that
\* took it, or that login is about to ask for the next. A mongos has none.
HoldsTurn(c) == /\ loginPc[c] \in {"flush", "send", "waiting"}
            /\ task[c].kind \in {"auth", "getnonce"}
AskedFor(i) == wire[i].kind = "getnonce"
OneNonce ==
  /\ nonce # "none" => /\ \A i \in DOMAIN wire : ~AskedFor(i)
                       /\ \A c \in Sharers : ~HoldsTurn(c)
  /\ \A i, j \in DOMAIN wire : AskedFor(i) /\ AskedFor(j) => i = j
  /\ \A i \in DOMAIN wire, c \in Sharers : ~(AskedFor(i) /\ HoldsTurn(c))
  /\ \A c, d \in Sharers : HoldsTurn(c) /\ HoldsTurn(d) => c = d
NonceSomewhere ==
  nonce # "none" \/ (\E i \in DOMAIN wire : AskedFor(i)) \/ \E c \in Sharers : HoldsTurn(c)

\* The server waits for the nonce it issued last exactly while it is unused.
IssuedUnused ==
  issued <=> nonce = "nonce" \/ \E c \in Sharers : HoldsTurn(c) /\ task[c].kind = "auth"

\* Nobody sleeps over a cached nonce unless another one is up to take it.
NobodySleepsOver ==
  nonce = "nonce" /\ (\E c \in Sharers : loginPc[c] = "parked")
    => \E c \in Sharers : loginPc[c] = "nonce"

\* What the socket knows of a login of the server in database db, or the
\* client that gave it up did.
KnownHere(db) ==
  \/ db \in abandoned
  \/ \E i \in DOMAIN creds : Source(creds[i]) = db
  \/ \E i \in DOMAIN logout : Source(logout[i]) = db
  \/ \E c \in Sharers : /\ loginPc[c] = "send"
                        /\ \E i \in DOMAIN task[c].lops : Source(task[c].lops[i]) = db
  \/ \E i \in DOMAIN wire : wire[i].kind = "logout" /\ Source(wire[i].cred) = db

LoginsKnown == \A a \in auth : KnownHere(Source(a))

LoginIInv ==
  /\ LoginTypeOK
  /\ \A c \in Sharers : SharerOk(c)
  /\ AnswersOk
  /\ ~loginDead => OneNonce /\ NonceSomewhere /\ IssuedUnused /\ NobodySleepsOver
                   /\ LoginsKnown
  /\ NoNoncePanic /\ NonceInTurn

----------------------------------------------------------------------------
(* Lists of credentials                                                    *)

LEMMA LeastPlace ==
  ASSUME NEW S \in SUBSET Nat, S # {}
  PROVE  Min(S) \in S
<1> DEFINE R == OpToRel(<, Nat)
<1>1. \A a, b \in Nat : a < b => <<a, b>> \in R
  BY DEF OpToRel
<1>2. IsWellFoundedOn(R, Nat)
  BY NatLessThanWellFounded
<1> HIDE DEF R
<1>3. PICK x \in S : \A y \in S : ~(<<y, x>> \in R)
  BY <1>2, WFMin
<1>4. ASSUME NEW y \in S PROVE x <= y
  <2>1. x \in Nat /\ y \in Nat /\ (y < x => <<y, x>> \in R)
    BY <1>1
  <2>2. ~(y < x)
    BY <2>1, <1>3
  <2>. QED
    BY <2>1, <2>2
<1>. QED
  BY <1>4 DEF Min

\* One of the places goes, everything at another place stays.
LEMMA Dropped ==
  ASSUME NEW T, NEW list \in Seq(T), NEW places \in SUBSET DOMAIN list
  PROVE  /\ Drop(list, places) \in Seq(T)
         /\ \A i \in DOMAIN list \ places :
              \E j \in DOMAIN Drop(list, places) : Drop(list, places)[j] = list[i]
<1>1. CASE places = {}
  BY <1>1 DEF Drop
<1>2. CASE places # {}
  <2> DEFINE k == Min(places)
             before == SubSeq(list, 1, k - 1)
             behind == SubSeq(list, k + 1, Len(list))
  <2>1. k \in places /\ k \in 1..Len(list)
    BY <1>2, LeastPlace
  <2> HIDE DEF k
  <2>2. /\ before \in Seq(T) /\ Len(before) = k - 1
        /\ \A i \in 1..(k - 1) : before[i] = list[i]
    BY <2>1
  <2>3. /\ behind \in Seq(T) /\ Len(behind) = Len(list) - k
        /\ \A i \in 1..(Len(list) - k) : behind[i] = list[k + i]
    BY <2>1
  <2>4. Drop(list, places) = before \o behind
    BY <1>2 DEF Drop, RemoveAt, k
  <2> HIDE DEF before, behind
  <2>5. before \o behind \in Seq(T) /\ Len(before \o behind) = Len(list) - 1
    BY <2>1, <2>2, <2>3
  <2>6. ASSUME NEW i \in DOMAIN list, i # k
        PROVE  \E j \in DOMAIN (before \o behind) : (before \o behind)[j] = list[i]
    <3>1. i \in 1..Len(list)
      OBVIOUS
    <3>2. CASE i < k
      <4>1. i \in 1..Len(before \o behind) /\ (before \o behind)[i] = before[i]
        BY <2>1, <2>2, <2>3, <2>5, <3>1, <3>2
      <4>2. before[i] = list[i]
        BY <2>1, <2>2, <3>1, <3>2
      <4>. QED
        BY <4>1, <4>2, <2>5
    <3>3. CASE i > k
      <4>1. i - 1 \in 1..Len(before \o behind) /\ (before \o behind)[i - 1] = behind[i - k]
        BY <2>1, <2>2, <2>3, <2>5, <3>1, <3>3
      <4>2. behind[i - k] = list[i]
        BY <2>1, <2>3, <3>1, <3>3
      <4>. QED
        BY <4>1, <4>2, <2>5
    <3>. QED
      BY <2>6, <2>1, <3>1, <3>2, <3>3
  <2>. QED
    BY <2>1, <2>4, <2>5, <2>6
<1>. QED
  BY <1>1, <1>2

----------------------------------------------------------------------------
LEMMA InitLoginIInv == ASSUME LoginInit PROVE LoginIInv
<1> USE DEF LoginInit
<1>1. wire = <<GetNonceCmd>> /\ DOMAIN wire = {1} /\ wire[1] = GetNonceCmd
  OBVIOUS
<1>2. \A c \in Sharers : loginPc[c] = "idle" /\ task[c] = NoTask
  OBVIOUS
<1>3. LoginTypeOK
  <2>1. NoTask \in Task
    BY LoginAssumption DEF NoTask, Task
  <2>2. GetNonceCmd \in Command
    BY LoginAssumption DEF GetNonceCmd, Command
  <2>3. wire \in Seq(Command) /\ task \in [Sharers -> Task] /\ creds \in Seq(Cred) /\ logout \in Seq(Cred)
    BY <2>1, <2>2
  <2>. QED
    BY <2>3 DEF LoginTypeOK
<1>4. \A c \in Sharers : SharerOk(c) /\ ~HoldsTurn(c)
  BY <1>2 DEF SharerOk, NoTask, HoldsTurn
<1>5. AnswersOk
  BY <1>1 DEF AnswersOk, AnswerOk, Asks, GetNonceCmd
<1>6. OneNonce /\ NonceSomewhere /\ IssuedUnused /\ NobodySleepsOver /\ LoginsKnown
  BY <1>1, <1>2, <1>4 DEF OneNonce, NonceSomewhere, IssuedUnused, NobodySleepsOver, LoginsKnown,
     AskedFor, GetNonceCmd
<1>7. NoNoncePanic /\ NonceInTurn
  BY DEF NoNoncePanic, NonceInTurn
<1>. QED
  BY <1>3, <1>4, <1>5, <1>6, <1>7 DEF LoginIInv

LEMMA LoginIInvImplies == ASSUME LoginIInv PROVE LoginInv
<1>1. NonceComing
  <2> SUFFICES ASSUME ~loginDead, nonce # "mongos", \E c \in Sharers : loginPc[c] = "parked"
               PROVE  \/ \E c \in Sharers : loginPc[c] = "nonce"
                      \/ \E i \in 1 .. Len(wire) : wire[i].kind = "getnonce"
                      \/ \E c \in Sharers : /\ task[c].kind \in {"auth", "getnonce"}
                                            /\ loginPc[c] \in {"flush", "send", "waiting"}
    BY DEF NonceComing
  <2>1. nonce = "nonce" => \E c \in Sharers : loginPc[c] = "nonce"
    BY DEF LoginIInv, NobodySleepsOver
  <2>2. nonce \in {"none", "mongos", "nonce"} /\ DOMAIN wire = 1 .. Len(wire)
    BY DEF LoginIInv, LoginTypeOK
  <2>3. nonce # "none" \/ (\E i \in DOMAIN wire : AskedFor(i)) \/ \E c \in Sharers : HoldsTurn(c)
    BY DEF LoginIInv, NonceSomewhere
  <2>. QED
    BY <2>1, <2>2, <2>3 DEF AskedFor, HoldsTurn
<1>2. NoStrayLogin
  <2> SUFFICES ASSUME ~loginDead, NEW a \in auth
               PROVE  \/ Source(a) \in abandoned
                      \/ \E k \in ToSet(creds) \cup ToSet(logout) : Source(k) = Source(a)
                      \/ \E c \in Sharers : \E k \in ToSet(task[c].lops) : Source(k) = Source(a)
                      \/ \E i \in 1 .. Len(wire) : /\ wire[i].kind = "logout"
                                                   /\ Source(wire[i].cred) = Source(a)
    BY DEF NoStrayLogin
  <2>1. KnownHere(Source(a))
    BY DEF LoginIInv, LoginsKnown
  <2>2. DOMAIN wire = 1 .. Len(wire)
    BY DEF LoginIInv, LoginTypeOK
  <2>. QED
    BY <2>1, <2>2 DEF KnownHere, ToSet
<1>. QED
  BY <1>1, <1>2 DEF LoginInv, LoginIInv
----------------------------------------------------------------------------
(* What stays when one goroutine moves                                     *)

LoginPlaces == {"idle", "nonce", "parked", "flush", "send", "waiting"}

LEMMA LoginMoved ==
  ASSUME LoginTypeOK, NEW c \in Sharers, NEW at \in LoginPlaces, NEW t \in Task,
         loginPc' = [loginPc EXCEPT ![c] = at], task' = [task EXCEPT ![c] = t]
  PROVE  /\ loginPc' \in [Sharers -> LoginPlaces] /\ task' \in [Sharers -> Task]
         /\ loginPc'[c] = at /\ task'[c] = t
         /\ \A d \in Sharers \ {c} : loginPc'[d] = loginPc[d] /\ task'[d] = task[d]
<1>1. loginPc \in [Sharers -> LoginPlaces] /\ task \in [Sharers -> Task]
  BY DEF LoginTypeOK, LoginPlaces
<1>. QED
  BY <1>1

LEMMA OthersOk ==
  ASSUME NEW c \in Sharers, \A d \in Sharers : SharerOk(d), SharerOk(c)',
         \A d \in Sharers \ {c} : loginPc'[d] = loginPc[d] /\ task'[d] = task[d]
  PROVE  \A d \in Sharers : SharerOk(d)'
<1>1. ASSUME NEW d \in Sharers \ {c} PROVE SharerOk(d)'
  <2>1. loginPc'[d] = loginPc[d] /\ task'[d] = task[d] /\ SharerOk(d)
    OBVIOUS
  <2>. QED
    BY <2>1 DEF SharerOk
<1>. QED
  BY <1>1

\* Nobody's answer is taken from him.
LEMMA AnswersStay ==
  ASSUME AnswersOk, wire' = wire,
         \A d \in Sharers : loginPc[d] = "waiting" =>
           loginPc'[d] = "waiting" /\ task'[d].kind = task[d].kind
  PROVE  AnswersOk'
<1>1. ASSUME NEW m, AnswerOk(m) PROVE AnswerOk(m)'
  BY <1>1 DEF AnswerOk, Asks
<1>. QED
  BY <1>1 DEF AnswersOk, Asks

\* The next nonce stays where it is.
LEMMA NonceStays ==
  ASSUME OneNonce, NonceSomewhere, IssuedUnused,
         wire' = wire, nonce' = nonce, issued' = issued,
         \A d \in Sharers : /\ HoldsTurn(d)' <=> HoldsTurn(d)
                            /\ HoldsTurn(d) => (task'[d].kind = "auth" <=> task[d].kind = "auth")
  PROVE  OneNonce' /\ NonceSomewhere' /\ IssuedUnused'
<1>1. \A i : AskedFor(i)' <=> AskedFor(i)
  BY DEF AskedFor
<1>2. OneNonce'
  BY <1>1 DEF OneNonce
<1>3. NonceSomewhere'
  BY <1>1 DEF NonceSomewhere
<1>4. IssuedUnused'
  BY DEF IssuedUnused
<1>. QED
  BY <1>2, <1>3, <1>4

\* A move of one that has nothing to do with it.
LEMMA NonceElsewhere ==
  ASSUME OneNonce, NonceSomewhere, IssuedUnused,
         wire' = wire, nonce' = nonce, issued' = issued,
         NEW c \in Sharers, ~HoldsTurn(c), ~HoldsTurn(c)',
         \A d \in Sharers \ {c} : loginPc'[d] = loginPc[d] /\ task'[d] = task[d]
  PROVE  OneNonce' /\ NonceSomewhere' /\ IssuedUnused'
<1>1. ASSUME NEW d \in Sharers
      PROVE  /\ HoldsTurn(d)' <=> HoldsTurn(d)
             /\ HoldsTurn(d) => (task'[d].kind = "auth" <=> task[d].kind = "auth")
  <2>1. CASE d = c
    BY <2>1
  <2>2. CASE d # c
    <3>1. loginPc'[d] = loginPc[d] /\ task'[d] = task[d]
      BY <2>2
    <3>. QED
      BY <3>1 DEF HoldsTurn
  <2>. QED
    BY <2>1, <2>2
<1>. QED
  BY <1>1, NonceStays

\* What the socket knew of a login it still knows.
LEMMA LoginsStay ==
  ASSUME LoginsKnown, auth' = auth, creds' = creds, logout' = logout, wire' = wire,
         abandoned' = abandoned,
         \A d \in Sharers : loginPc[d] = "send" =>
           loginPc'[d] = "send" /\ task'[d].lops = task[d].lops
  PROVE  LoginsKnown'
<1>1. ASSUME NEW db, KnownHere(db) PROVE KnownHere(db)'
  BY <1>1 DEF KnownHere
<1>. QED
  BY <1>1 DEF LoginsKnown

----------------------------------------------------------------------------
(* The steps of a login up to its command                                  *)

LEMMA LoginKnownKeepsIInv ==
  ASSUME LoginIInv, NEW c \in Sharers, NEW cred \in Cred, LoginKnown(c, cred)
  PROVE  LoginIInv'
<1> USE DEF LoginIInv, LoginKnown
<1> DEFINE places == {i \in DOMAIN logout : logout[i] = cred}
<1>1. /\ logout \in Seq(Cred) /\ creds \in Seq(Cred)
      /\ places \in SUBSET DOMAIN logout /\ logout' = Drop(logout, places)
  BY DEF LoginTypeOK, DropLogout
<1>2. \A i \in DOMAIN logout \ places : \E j \in DOMAIN logout' : logout'[j] = logout[i]
  <2> HIDE DEF places
  <2>. QED
    BY <1>1, Dropped
<1>3. logout' \in Seq(Cred)
  <2> HIDE DEF places
  <2>. QED
    BY <1>1, Dropped
<1>4. /\ creds' \in Seq(Cred) /\ Len(creds) + 1 \in DOMAIN creds' /\ creds'[Len(creds) + 1] = cred
      /\ \A i \in DOMAIN creds : i \in DOMAIN creds' /\ creds'[i] = creds[i]
  BY <1>1
<1>5. LoginTypeOK'
  BY <1>3, <1>4 DEF LoginTypeOK
<1>6. \A d \in Sharers : SharerOk(d)'
  BY DEF SharerOk
<1>7. AnswersOk'
  BY AnswersStay
<1>8. ASSUME NEW db, KnownHere(db) PROVE KnownHere(db)'
  <2>1. CASE \E i \in DOMAIN creds : Source(creds[i]) = db
    BY <2>1, <1>4 DEF KnownHere
  <2>2. CASE \E i \in DOMAIN logout : Source(logout[i]) = db
    <3>1. PICK i \in DOMAIN logout : Source(logout[i]) = db
      BY <2>2
    <3>2. CASE i \in places
      BY <3>1, <3>2, <1>4 DEF KnownHere
    <3>3. CASE i \notin places
      BY <3>1, <3>3, <1>2 DEF KnownHere
    <3>. QED
      BY <3>2, <3>3
  <2>. QED
    BY <1>8, <2>1, <2>2 DEF KnownHere
<1>9. ASSUME ~loginDead'
      PROVE  OneNonce' /\ NonceSomewhere' /\ IssuedUnused' /\ NobodySleepsOver' /\ LoginsKnown'
  <2>1. \A d \in Sharers : HoldsTurn(d)' <=> HoldsTurn(d)
    BY DEF HoldsTurn
  <2>2. OneNonce' /\ NonceSomewhere' /\ IssuedUnused'
    BY <1>9, <2>1, NonceStays
  <2>3. NobodySleepsOver' /\ LoginsKnown'
    BY <1>8, <1>9 DEF NobodySleepsOver, LoginsKnown
  <2>. QED
    BY <2>2, <2>3
<1>. QED
  BY <1>5, <1>6, <1>7, <1>9 DEF NoNoncePanic, NonceInTurn

LEMMA LoginKeepsIInv ==
  ASSUME LoginIInv, NEW c \in Sharers, NEW cred \in Cred, Login(c, cred)
  PROVE  LoginIInv'
<1> USE DEF LoginIInv, Login, LoginGoto, Set, Asking
<1>1. PICK at \in {"flush", "nonce"}, t \in Task :
        /\ at = "nonce" <=> t.kind = "auth"
        /\ t.kind \in {"auth", "sasl"} /\ t.cred \in Cred /\ t.lops = <<>>
        /\ loginPc' = [loginPc EXCEPT ![c] = at] /\ task' = [task EXCEPT ![c] = t]
  <2>1. \A kind \in {"auth", "sasl"} :
          [kind |-> kind, cred |-> cred, step |-> 1, lops |-> <<>>] \in Task
    BY LoginAssumption DEF Task
  <2>2. CASE cred \in Sasl
    BY <2>1, <2>2
  <2>3. CASE cred \notin Sasl
    BY <2>1, <2>3
  <2>. QED
    BY <2>2, <2>3
<1>2. /\ loginPc' \in [Sharers -> LoginPlaces] /\ task' \in [Sharers -> Task]
      /\ loginPc'[c] = at /\ task'[c] = t
      /\ \A d \in Sharers \ {c} : loginPc'[d] = loginPc[d] /\ task'[d] = task[d]
  BY <1>1, LoginMoved DEF LoginPlaces
<1>3. LoginTypeOK'
  BY <1>2 DEF LoginTypeOK, LoginPlaces
<1>4. SharerOk(c)'
  BY <1>1, <1>2 DEF SharerOk
<1>5. \A d \in Sharers : SharerOk(d)'
  BY <1>2, <1>4, OthersOk
<1>6. AnswersOk'
  BY <1>2, AnswersStay
<1>7. ASSUME ~loginDead'
      PROVE  OneNonce' /\ NonceSomewhere' /\ IssuedUnused' /\ NobodySleepsOver' /\ LoginsKnown'
  <2>1. ~HoldsTurn(c) /\ ~HoldsTurn(c)'
    BY <1>1, <1>2 DEF HoldsTurn
  <2>2. OneNonce' /\ NonceSomewhere' /\ IssuedUnused'
    BY <1>2, <1>7, <2>1, NonceElsewhere
  <2>3. NobodySleepsOver'
    BY <1>1, <1>2, <1>7 DEF NobodySleepsOver
  <2>4. LoginsKnown'
    BY <1>2, <1>7, LoginsStay
  <2>. QED
    BY <2>2, <2>3, <2>4
<1>. QED
  BY <1>3, <1>5, <1>6, <1>7 DEF NoNoncePanic, NonceInTurn

LEMMA LoginWithoutServerKeepsIInv ==
  ASSUME LoginIInv, NEW c \in Sharers, NEW cred \in Cred, LoginWithoutServer(c, cred)
  PROVE  LoginIInv'
<1> USE DEF LoginIInv, LoginWithoutServer
<1>1. LoginTypeOK'
  BY DEF LoginTypeOK
<1>2. \A d \in Sharers : SharerOk(d)'
  BY DEF SharerOk
<1>3. AnswersOk'
  BY AnswersStay
<1>. QED
  BY <1>1, <1>2, <1>3 DEF NoNoncePanic, NonceInTurn

LEMMA ParkForNonceKeepsIInv ==
  ASSUME LoginIInv, NEW c \in Sharers, ParkForNonce(c)
  PROVE  LoginIInv'
<1> USE DEF LoginIInv, ParkForNonce, LoginGoto
<1>1. task[c] \in Task /\ task' = [task EXCEPT ![c] = task[c]]
  BY DEF LoginTypeOK
<1>2. /\ loginPc' \in [Sharers -> LoginPlaces] /\ task' \in [Sharers -> Task]
      /\ loginPc'[c] = "parked" /\ task'[c] = task[c]
      /\ \A d \in Sharers \ {c} : loginPc'[d] = loginPc[d] /\ task'[d] = task[d]
  BY <1>1, LoginMoved DEF LoginPlaces
<1>3. LoginTypeOK'
  BY <1>2 DEF LoginTypeOK, LoginPlaces
<1>4. SharerOk(c)'
  BY <1>2 DEF SharerOk
<1>5. \A d \in Sharers : SharerOk(d)'
  BY <1>2, <1>4, OthersOk
<1>6. AnswersOk'
  BY <1>2, AnswersStay
<1>7. OneNonce' /\ NonceSomewhere' /\ IssuedUnused' /\ NobodySleepsOver' /\ LoginsKnown'
  <2>1. ~HoldsTurn(c) /\ ~HoldsTurn(c)'
    BY <1>2 DEF HoldsTurn
  <2>2. OneNonce' /\ NonceSomewhere' /\ IssuedUnused'
    BY <1>2, <2>1, NonceElsewhere
  <2>3. NobodySleepsOver'
    BY DEF NobodySleepsOver
  <2>4. LoginsKnown'
    BY <1>2, LoginsStay
  <2>. QED
    BY <2>2, <2>3, <2>4
<1>. QED
  BY <1>3, <1>5, <1>6, <1>7 DEF NoNoncePanic, NonceInTurn

LEMMA NoNonceKeepsIInv ==
  ASSUME LoginIInv, NEW c \in Sharers, NoNonce(c)
  PROVE  LoginIInv'
<1> USE DEF LoginIInv, NoNonce, LoginGoto
<1>1. NoTask \in Task
  BY LoginAssumption DEF Task, NoTask
<1>2. /\ loginPc' \in [Sharers -> LoginPlaces] /\ task' \in [Sharers -> Task]
      /\ loginPc'[c] = "idle" /\ task'[c] = NoTask
      /\ \A d \in Sharers \ {c} : loginPc'[d] = loginPc[d] /\ task'[d] = task[d]
  BY <1>1, LoginMoved DEF LoginPlaces
<1>3. LoginTypeOK'
  BY <1>2 DEF LoginTypeOK, LoginPlaces
<1>4. SharerOk(c)'
  BY <1>2 DEF SharerOk, NoTask
<1>5. \A d \in Sharers : SharerOk(d)'
  BY <1>2, <1>4, OthersOk
<1>6. AnswersOk'
  BY <1>2, AnswersStay
<1>7. ASSUME ~loginDead'
      PROVE  OneNonce' /\ NonceSomewhere' /\ IssuedUnused' /\ NobodySleepsOver' /\ LoginsKnown'
  <2>1. nonce = "mongos" /\ nonce' = nonce
    BY <1>7
  <2>2. ~HoldsTurn(c) /\ ~HoldsTurn(c)'
    BY <1>2 DEF HoldsTurn
  <2>3. OneNonce' /\ NonceSomewhere' /\ IssuedUnused'
    BY <1>2, <1>7, <2>1, <2>2, NonceElsewhere
  <2>4. NobodySleepsOver'
    BY <2>1 DEF NobodySleepsOver
  <2>5. LoginsKnown'
    BY <1>2, <1>7, LoginsStay
  <2>. QED
    BY <2>3, <2>4, <2>5
<1>. QED
  BY <1>3, <1>5, <1>6, <1>7 DEF NoNoncePanic, NonceInTurn

\* The nonce goes from the cache to the one login that will use it.
LEMMA TakeNonceKeepsIInv ==
  ASSUME LoginIInv, NEW c \in Sharers, TakeNonce(c)
  PROVE  LoginIInv'
<1> USE DEF LoginIInv, TakeNonce, LoginGoto
<1>1. task[c] \in Task /\ task' = [task EXCEPT ![c] = task[c]]
  BY DEF LoginTypeOK
<1>2. /\ loginPc' \in [Sharers -> LoginPlaces] /\ task' \in [Sharers -> Task]
      /\ loginPc'[c] = "flush" /\ task'[c] = task[c]
      /\ \A d \in Sharers \ {c} : loginPc'[d] = loginPc[d] /\ task'[d] = task[d]
  BY <1>1, LoginMoved DEF LoginPlaces
<1>3. LoginTypeOK'
  BY <1>2 DEF LoginTypeOK, LoginPlaces
<1>4. SharerOk(c) /\ SharerOk(c)' /\ task[c].kind = "auth"
  BY <1>2 DEF SharerOk
<1>5. \A d \in Sharers : SharerOk(d)'
  BY <1>2, <1>4, OthersOk
<1>6. AnswersOk'
  BY <1>2, AnswersStay
<1>7. OneNonce' /\ NonceSomewhere' /\ IssuedUnused' /\ NobodySleepsOver' /\ LoginsKnown'
  <2>1. (\A i \in DOMAIN wire : ~AskedFor(i)) /\ \A d \in Sharers : ~HoldsTurn(d)
    BY DEF OneNonce
  <2>2. \A i : AskedFor(i)' <=> AskedFor(i)
    BY DEF AskedFor
  <2>3. HoldsTurn(c)'
    BY <1>2, <1>4 DEF HoldsTurn
  <2>4. ASSUME NEW d \in Sharers \ {c} PROVE ~HoldsTurn(d)'
    <3>1. loginPc'[d] = loginPc[d] /\ task'[d] = task[d]
      BY <1>2
    <3>. QED
      BY <2>1, <3>1 DEF HoldsTurn
  <2>5. OneNonce'
    BY <2>1, <2>2, <2>4 DEF OneNonce
  <2>6. NonceSomewhere'
    BY <2>3 DEF NonceSomewhere
  <2>7. IssuedUnused'
    BY <1>2, <1>4, <2>3 DEF IssuedUnused
  <2>8. NobodySleepsOver'
    BY DEF NobodySleepsOver
  <2>9. LoginsKnown'
    BY <1>2, LoginsStay
  <2>. QED
    BY <2>5, <2>6, <2>7, <2>8, <2>9
<1>. QED
  BY <1>3, <1>5, <1>6, <1>7 DEF NoNoncePanic, NonceInTurn

----------------------------------------------------------------------------
(* Operations and their flagged logouts                                    *)

LEMMA StartOpKeepsIInv ==
  ASSUME LoginIInv, NEW c \in Sharers, StartOp(c)
  PROVE  LoginIInv'
<1> DEFINE t == [kind |-> "op", cred |-> NoCred, step |-> 1, lops |-> <<>>]
<1> USE DEF LoginIInv, StartOp, LoginGoto, Set, Asking
<1>1. t \in Task
  BY LoginAssumption DEF Task
<1>2. /\ loginPc' \in [Sharers -> LoginPlaces] /\ task' \in [Sharers -> Task]
      /\ loginPc'[c] = "flush" /\ task'[c] = t
      /\ \A d \in Sharers \ {c} : loginPc'[d] = loginPc[d] /\ task'[d] = task[d]
  BY <1>1, LoginMoved DEF LoginPlaces
<1>3. LoginTypeOK'
  BY <1>2 DEF LoginTypeOK, LoginPlaces
<1>4. SharerOk(c)'
  BY <1>2 DEF SharerOk
<1>5. \A d \in Sharers : SharerOk(d)'
  BY <1>2, <1>4, OthersOk
<1>6. AnswersOk'
  BY <1>2, AnswersStay
<1>7. ASSUME ~loginDead'
      PROVE  OneNonce' /\ NonceSomewhere' /\ IssuedUnused' /\ NobodySleepsOver' /\ LoginsKnown'
  <2>1. ~HoldsTurn(c) /\ ~HoldsTurn(c)'
    BY <1>2 DEF HoldsTurn
  <2>2. OneNonce' /\ NonceSomewhere' /\ IssuedUnused'
    BY <1>2, <1>7, <2>1, NonceElsewhere
  <2>3. NobodySleepsOver'
    BY <1>2, <1>7 DEF NobodySleepsOver
  <2>4. LoginsKnown'
    BY <1>2, <1>7, LoginsStay
  <2>. QED
    BY <2>2, <2>3, <2>4
<1>. QED
  BY <1>3, <1>5, <1>6, <1>7 DEF NoNoncePanic, NonceInTurn

\* What was flagged is on its way with the operation.
LEMMA FlushLogoutKeepsIInv ==
  ASSUME LoginIInv, NEW c \in Sharers, FlushLogout(c)
  PROVE  LoginIInv'
<1> DEFINE t == [task[c] EXCEPT !.lops = logout]
<1> USE DEF LoginIInv, FlushLogout, LoginGoto
<1>1. /\ task[c] \in Task /\ t \in Task
      /\ t.kind = task[c].kind /\ t.cred = task[c].cred /\ t.lops = logout
      /\ task' = [task EXCEPT ![c] = t]
  BY DEF LoginTypeOK, Task
<1> HIDE DEF t
<1>2. /\ loginPc' \in [Sharers -> LoginPlaces] /\ task' \in [Sharers -> Task]
      /\ loginPc'[c] = "send" /\ task'[c] = t
      /\ \A d \in Sharers \ {c} : loginPc'[d] = loginPc[d] /\ task'[d] = task[d]
  BY <1>1, LoginMoved DEF LoginPlaces
<1>3. LoginTypeOK'
  BY <1>2 DEF LoginTypeOK, LoginPlaces
<1>4. SharerOk(c)'
  BY <1>1, <1>2 DEF SharerOk
<1>5. \A d \in Sharers : SharerOk(d)'
  BY <1>2, <1>4, OthersOk
<1>6. AnswersOk'
  BY <1>2, AnswersStay
<1>7. ASSUME ~loginDead'
      PROVE  OneNonce' /\ NonceSomewhere' /\ IssuedUnused' /\ NobodySleepsOver' /\ LoginsKnown'
  <2>1. ASSUME NEW d \in Sharers
        PROVE  /\ HoldsTurn(d)' <=> HoldsTurn(d)
               /\ HoldsTurn(d) => (task'[d].kind = "auth" <=> task[d].kind = "auth")
    <3>1. CASE d = c
      BY <1>1, <1>2, <3>1 DEF HoldsTurn
    <3>2. CASE d # c
      <4>1. loginPc'[d] = loginPc[d] /\ task'[d] = task[d]
        BY <1>2, <3>2
      <4>. QED
        BY <4>1 DEF HoldsTurn
    <3>. QED
      BY <3>1, <3>2
  <2>2. OneNonce' /\ NonceSomewhere' /\ IssuedUnused'
    BY <1>7, <2>1, NonceStays
  <2>3. NobodySleepsOver'
    BY <1>2, <1>7 DEF NobodySleepsOver
  <2>4. ASSUME NEW db, KnownHere(db) PROVE KnownHere(db)'
    <3>1. CASE \E i \in DOMAIN logout : Source(logout[i]) = db
      BY <1>1, <1>2, <3>1 DEF KnownHere
    <3>2. CASE \E d \in Sharers : /\ loginPc[d] = "send"
                                  /\ \E i \in DOMAIN task[d].lops : Source(task[d].lops[i]) = db
      <4>1. PICK d \in Sharers : /\ loginPc[d] = "send"
                                 /\ \E i \in DOMAIN task[d].lops : Source(task[d].lops[i]) = db
        BY <3>2
      <4>2. loginPc'[d] = loginPc[d] /\ task'[d] = task[d]
        BY <4>1, <1>2
      <4>. QED
        BY <4>1, <4>2 DEF KnownHere
    <3>3. CASE \/ \E i \in DOMAIN creds : Source(creds[i]) = db
               \/ \E i \in DOMAIN wire : wire[i].kind = "logout" /\ Source(wire[i].cred) = db
      BY <3>3 DEF KnownHere
    <3>. QED
      BY <2>4, <3>1, <3>2, <3>3 DEF KnownHere
  <2>. QED
    BY <1>7, <2>2, <2>3, <2>4 DEF LoginsKnown
<1>. QED
  BY <1>3, <1>5, <1>6, <1>7 DEF NoNoncePanic, NonceInTurn

\* What a goroutine is told to do next.
LEMMA AfterMoves ==
  ASSUME LoginTypeOK, NEW c \in Sharers, After(c)
  PROVE  /\ loginPc' \in [Sharers -> LoginPlaces] /\ task' \in [Sharers -> Task]
         /\ \A d \in Sharers \ {c} : loginPc'[d] = loginPc[d] /\ task'[d] = task[d]
         /\ SharerOk(c)' /\ loginPc'[c] \in {"idle", "flush"}
         /\ task[c].kind = "auth" => loginPc'[c] = "flush" /\ task'[c].kind = "getnonce"
         /\ task[c].kind # "auth" => loginPc'[c] = "idle" /\ task'[c].kind = "none"
<1> DEFINE t == [kind |-> "getnonce", cred |-> NoCred, step |-> 1, lops |-> <<>>]
<1>1. t \in Task /\ NoTask \in Task
  BY LoginAssumption DEF Task, NoTask
<1>2. CASE task[c].kind = "auth"
  <2>1. loginPc' = [loginPc EXCEPT ![c] = "flush"] /\ task' = [task EXCEPT ![c] = t]
    BY <1>2 DEF After, LoginGoto, Set, Asking
  <2>2. t.kind = "getnonce" /\ t.lops = <<>>
    OBVIOUS
  <2> HIDE DEF t
  <2>3. /\ loginPc' \in [Sharers -> LoginPlaces] /\ task' \in [Sharers -> Task]
        /\ loginPc'[c] = "flush" /\ task'[c] = t
        /\ \A d \in Sharers \ {c} : loginPc'[d] = loginPc[d] /\ task'[d] = task[d]
    BY <1>1, <2>1, LoginMoved DEF LoginPlaces
  <2>. QED
    BY <1>2, <2>2, <2>3 DEF SharerOk
<1>3. CASE task[c].kind # "auth"
  <2>1. loginPc' = [loginPc EXCEPT ![c] = "idle"] /\ task' = [task EXCEPT ![c] = NoTask]
    BY <1>3 DEF After, LoginGoto
  <2>2. /\ loginPc' \in [Sharers -> LoginPlaces] /\ task' \in [Sharers -> Task]
        /\ loginPc'[c] = "idle" /\ task'[c] = NoTask
        /\ \A d \in Sharers \ {c} : loginPc'[d] = loginPc[d] /\ task'[d] = task[d]
    BY <1>1, <2>1, LoginMoved DEF LoginPlaces
  <2>. QED
    BY <1>3, <2>2 DEF SharerOk, NoTask
<1>. QED
  BY <1>2, <1>3

LEMMA SendDeadKeepsIInv ==
  ASSUME LoginIInv, NEW c \in Sharers, SendDead(c)
  PROVE  LoginIInv'
<1> USE DEF LoginIInv, SendDead
<1>1. /\ loginPc' \in [Sharers -> LoginPlaces] /\ task' \in [Sharers -> Task]
      /\ \A d \in Sharers \ {c} : loginPc'[d] = loginPc[d] /\ task'[d] = task[d]
      /\ SharerOk(c)'
  BY AfterMoves
<1>2. LoginTypeOK'
  BY <1>1 DEF LoginTypeOK, LoginPlaces
<1>3. \A d \in Sharers : SharerOk(d)'
  BY <1>1, OthersOk
<1>4. AnswersOk'
  BY <1>1, AnswersStay
<1>. QED
  BY <1>2, <1>3, <1>4 DEF NoNoncePanic, NonceInTurn

LEMMA JoinedTwo ==
  ASSUME NEW v \in Seq(Command), NEW w \in Seq(Command)
  PROVE  /\ v \o w \in Seq(Command) /\ Len(v \o w) = Len(v) + Len(w)
         /\ \A i \in 1 .. Len(v) : i \in 1 .. Len(v \o w) /\ (v \o w)[i] = v[i]
         /\ \A i \in 1 .. Len(w) : /\ Len(v) + i \in 1 .. Len(v \o w)
                                   /\ (v \o w)[Len(v) + i] = w[i]
OBVIOUS

\* A query with its logouts behind what is under way.
LEMMA Joined ==
  ASSUME NEW w \in Seq(Command), NEW f \in Seq(Command), NEW e \in Seq(Command)
  PROVE  /\ w \o f \o e \in Seq(Command)
         /\ Len(w \o f \o e) = Len(w) + Len(f) + Len(e)
         /\ \A i \in 1 .. Len(w) : i \in 1 .. Len(w \o f \o e) /\ (w \o f \o e)[i] = w[i]
         /\ \A i \in 1 .. Len(f) : /\ Len(w) + i \in 1 .. Len(w \o f \o e)
                                   /\ (w \o f \o e)[Len(w) + i] = f[i]
         /\ \A i \in 1 .. Len(e) : /\ Len(w) + Len(f) + i \in 1 .. Len(w \o f \o e)
                                   /\ (w \o f \o e)[Len(w) + Len(f) + i] = e[i]
<1> DEFINE wf == w \o f
<1>1. /\ wf \in Seq(Command) /\ Len(wf) = Len(w) + Len(f)
      /\ \A i \in 1 .. Len(w) : i \in 1 .. Len(wf) /\ wf[i] = w[i]
      /\ \A i \in 1 .. Len(f) : Len(w) + i \in 1 .. Len(wf) /\ wf[Len(w) + i] = f[i]
  BY JoinedTwo
<1> HIDE DEF wf
<1> DEFINE whole == wf \o e
<1>2. /\ whole \in Seq(Command) /\ Len(whole) = Len(wf) + Len(e)
      /\ \A i \in 1 .. Len(wf) : i \in 1 .. Len(whole) /\ whole[i] = wf[i]
      /\ \A i \in 1 .. Len(e) : Len(wf) + i \in 1 .. Len(whole) /\ whole[Len(wf) + i] = e[i]
  BY <1>1, JoinedTwo
<1> HIDE DEF whole
<1>3. \A i \in 1 .. Len(w) : i \in 1 .. Len(whole) /\ whole[i] = w[i]
  BY <1>1, <1>2
<1>4. \A i \in 1 .. Len(f) : Len(w) + i \in 1 .. Len(whole) /\ whole[Len(w) + i] = f[i]
  BY <1>1, <1>2
<1>5. \A i \in 1 .. Len(e) : /\ Len(w) + Len(f) + i \in 1 .. Len(whole)
                             /\ whole[Len(w) + Len(f) + i] = e[i]
  BY <1>1, <1>2
<1>. QED
  BY <1>1, <1>2, <1>3, <1>4, <1>5 DEF wf, whole

LEMMA Third ==
  ASSUME NEW m \in Nat, NEW n \in Nat, NEW k \in {0, 1}, NEW i \in 1 .. (m + n + k)
  PROVE  i \in 1 .. m \/ i - m \in 1 .. n \/ (i = m + n + 1 /\ k = 1)
<1>1. CASE k = 0
  BY <1>1
<1>2. CASE k = 1
  BY <1>2
<1>. QED
  BY <1>1, <1>2

\* What Send puts on the wire.
LEMMA Sent ==
  ASSUME LoginTypeOK, NEW c \in Sharers, SharerOk(c), Send(c)
  PROVE  /\ wire' \in Seq(Command)
         /\ \A i \in DOMAIN wire : i \in DOMAIN wire' /\ wire'[i] = wire[i]
         /\ \A i \in DOMAIN task[c].lops :
              \E j \in DOMAIN wire' : wire'[j].kind = "logout" /\ wire'[j].cred = task[c].lops[i]
         /\ \A i \in DOMAIN wire' :
              \/ i \in DOMAIN wire
              \/ wire'[i].kind = "logout" /\ wire'[i].cred \in Cred
              \/ /\ i = Len(wire') /\ task[c].kind # "op"
                 /\ wire'[i].kind = task[c].kind /\ wire'[i].cred = task[c].cred
                 /\ wire'[i].who = c
         /\ task[c].kind = "getnonce" => \E i \in DOMAIN wire' : wire'[i].kind = "getnonce"
<1> DEFINE t == task[c]
           f == [i \in 1 .. Len(t.lops) |->
                   [kind |-> "logout", cred |-> t.lops[i], step |-> 0, who |-> NoCred]]
           cmd == [kind |-> t.kind, cred |-> t.cred, step |-> t.step, who |-> c]
           e == IF t.kind = "op" THEN <<>> ELSE <<cmd>>
<1>1. t \in Task /\ wire \in Seq(Command) /\ t.lops \in Seq(Cred) /\ t.kind # "none"
  BY DEF LoginTypeOK, Task, Send, SharerOk
<1>2. wire' = wire \o f \o e
  BY DEF Send
<1>3. /\ f \in Seq(Command) /\ Len(f) = Len(t.lops)
      /\ \A i \in 1 .. Len(f) : f[i].kind = "logout" /\ f[i].cred = t.lops[i] /\ f[i].cred \in Cred
  <2>1. Len(t.lops) \in Nat /\ \A i \in 1 .. Len(t.lops) : t.lops[i] \in Cred
    BY <1>1
  <2>2. \A i \in 1 .. Len(t.lops) :
          [kind |-> "logout", cred |-> t.lops[i], step |-> 0, who |-> NoCred] \in Command
    BY <2>1, LoginAssumption DEF Command
  <2>. QED
    BY <2>1, <2>2
<1>4. /\ e \in Seq(Command) /\ Len(e) = (IF t.kind = "op" THEN 0 ELSE 1)
      /\ t.kind # "op" => e[1] = cmd
  <2>1. t.kind # "op" => cmd \in Command
    BY <1>1 DEF Command, Task
  <2>2. CASE t.kind = "op"
    BY <2>2
  <2>3. CASE t.kind # "op"
    <3> HIDE DEF cmd, t
    <3>. QED
      BY <2>1, <2>3
  <2>. QED
    BY <2>2, <2>3
<1>5. DOMAIN wire = 1 .. Len(wire) /\ DOMAIN t.lops = 1 .. Len(t.lops) /\ Len(wire) \in Nat
      /\ Len(t.lops) \in Nat
  BY <1>1
<1>6. cmd.kind = t.kind /\ cmd.cred = t.cred /\ cmd.who = c
  OBVIOUS
<1> HIDE DEF f, e, cmd, t
<1>7. /\ wire' \in Seq(Command) /\ Len(wire') = Len(wire) + Len(f) + Len(e)
      /\ \A i \in 1 .. Len(wire) : i \in 1 .. Len(wire') /\ wire'[i] = wire[i]
      /\ \A i \in 1 .. Len(f) : Len(wire) + i \in 1 .. Len(wire') /\ wire'[Len(wire) + i] = f[i]
      /\ \A i \in 1 .. Len(e) : /\ Len(wire) + Len(f) + i \in 1 .. Len(wire')
                                /\ wire'[Len(wire) + Len(f) + i] = e[i]
  <2>1. wire \in Seq(Command) /\ f \in Seq(Command) /\ e \in Seq(Command)
    BY <1>1, <1>3, <1>4
  <2>. DEFINE w == wire \o f \o e
  <2>2. /\ w \in Seq(Command) /\ Len(w) = Len(wire) + Len(f) + Len(e)
        /\ \A i \in 1 .. Len(wire) : i \in 1 .. Len(w) /\ w[i] = wire[i]
        /\ \A i \in 1 .. Len(f) : Len(wire) + i \in 1 .. Len(w) /\ w[Len(wire) + i] = f[i]
        /\ \A i \in 1 .. Len(e) : /\ Len(wire) + Len(f) + i \in 1 .. Len(w)
                                  /\ w[Len(wire) + Len(f) + i] = e[i]
    BY ONLY <2>1, Joined
  <2>3. wire' = w
    BY ONLY <1>2
  <2>. HIDE DEF w
  <2>. QED
    BY ONLY <2>2, <2>3
<1>8. DOMAIN wire' = 1 .. Len(wire')
  BY <1>7
<1>9. ASSUME NEW i \in DOMAIN wire'
      PROVE  \/ i \in DOMAIN wire
             \/ wire'[i].kind = "logout" /\ wire'[i].cred \in Cred
             \/ i = Len(wire') /\ t.kind # "op" /\ wire'[i] = cmd
  <2>1. CASE i \in 1 .. Len(wire)
    BY <2>1, <1>5
  <2>2. CASE i - Len(wire) \in 1 .. Len(f)
    <3>1. Len(wire) + (i - Len(wire)) = i
      BY <1>5, <1>8
    <3>2. wire'[i] = f[i - Len(wire)]
      BY <2>2, <3>1, <1>7
    <3>. QED
      BY <2>2, <3>2, <1>3
  <2>3. CASE i = Len(wire) + Len(f) + 1 /\ Len(e) = 1
    BY <2>3, <1>4, <1>7
  <2>4. Len(wire) \in Nat /\ Len(f) \in Nat /\ Len(e) \in {0, 1}
    BY <1>3, <1>4, <1>5
  <2>5. i \in 1 .. Len(wire')
    BY <1>8
  <2>6. i \in 1 .. (Len(wire) + Len(f) + Len(e))
    BY <2>5, <1>7
  <2>7. \/ i \in 1 .. Len(wire)
        \/ i - Len(wire) \in 1 .. Len(f)
        \/ i = Len(wire) + Len(f) + 1 /\ Len(e) = 1
    BY <2>4, <2>6, Third
  <2>. QED
    BY ONLY <2>1, <2>2, <2>3, <2>7
<1>10. ASSUME t.kind = "getnonce"
       PROVE  \E i \in DOMAIN wire' : wire'[i].kind = "getnonce"
  <2>1. 1 \in 1 .. Len(e) /\ e[1] = cmd
    BY <1>10, <1>4
  <2>. QED
    BY <1>10, <2>1, <1>6, <1>7, <1>8
<1>11. ASSUME NEW i \in DOMAIN t.lops
       PROVE  \E j \in DOMAIN wire' : wire'[j].kind = "logout" /\ wire'[j].cred = t.lops[i]
  <2>1. i \in 1 .. Len(f) /\ f[i].kind = "logout" /\ f[i].cred = t.lops[i]
    BY <1>3, <1>5
  <2>2. Len(wire) + i \in DOMAIN wire' /\ wire'[Len(wire) + i] = f[i]
    BY <2>1, <1>7, <1>8
  <2>. QED
    BY <2>1, <2>2
<1>12. \A i \in DOMAIN wire : i \in DOMAIN wire' /\ wire'[i] = wire[i]
  BY <1>5, <1>7, <1>8
<1>. QED
  BY <1>6, <1>7, <1>9, <1>10, <1>11, <1>12 DEF t

LEMMA SendKeepsIInv ==
  ASSUME LoginIInv, NEW c \in Sharers, Send(c)
  PROVE  LoginIInv'
<1> DEFINE kind == task[c].kind
           asks == kind \in {"auth", "sasl"}
<1> USE DEF LoginIInv
<1>1. /\ loginPc[c] = "send" /\ ~loginDead /\ ~loginDead'
      /\ nonce' = nonce /\ creds' = creds /\ logout' = logout /\ auth' = auth
      /\ issued' = issued /\ wrong' = wrong /\ loginDead' = loginDead
      /\ abandoned' = abandoned
  BY DEF Send, LoginTypeOK
<1>2. task[c] \in Task /\ kind \in {"auth", "sasl", "getnonce", "op"}
  BY <1>1 DEF LoginTypeOK, Task, SharerOk
<1>3. /\ wire' \in Seq(Command)
      /\ \A i \in DOMAIN wire : i \in DOMAIN wire' /\ wire'[i] = wire[i]
      /\ \A i \in DOMAIN task[c].lops :
           \E j \in DOMAIN wire' : wire'[j].kind = "logout" /\ wire'[j].cred = task[c].lops[i]
      /\ \A i \in DOMAIN wire' :
           \/ i \in DOMAIN wire
           \/ wire'[i].kind = "logout" /\ wire'[i].cred \in Cred
           \/ /\ i = Len(wire') /\ kind # "op"
              /\ wire'[i].kind = kind /\ wire'[i].cred = task[c].cred /\ wire'[i].who = c
      /\ kind = "getnonce" => \E i \in DOMAIN wire' : wire'[i].kind = "getnonce"
  BY Sent
<1>4. /\ loginPc' \in [Sharers -> LoginPlaces] /\ task' \in [Sharers -> Task]
      /\ \A d \in Sharers \ {c} : loginPc'[d] = loginPc[d] /\ task'[d] = task[d]
      /\ SharerOk(c)'
      /\ asks => loginPc'[c] = "waiting" /\ task'[c] = task[c]
      /\ ~asks => loginPc'[c] = "idle"
  <2>1. CASE asks
    <3>1. loginPc' = [loginPc EXCEPT ![c] = "waiting"] /\ task' = [task EXCEPT ![c] = task[c]]
      BY <2>1 DEF Send, LoginGoto, LoginTypeOK
    <3>2. /\ loginPc' \in [Sharers -> LoginPlaces] /\ task' \in [Sharers -> Task]
          /\ loginPc'[c] = "waiting" /\ task'[c] = task[c]
          /\ \A d \in Sharers \ {c} : loginPc'[d] = loginPc[d] /\ task'[d] = task[d]
      BY <1>2, <3>1, LoginMoved DEF LoginPlaces
    <3>. QED
      BY <2>1, <3>2 DEF SharerOk
  <2>2. CASE ~asks
    <3>1. After(c)
      BY <2>2 DEF Send
    <3>2. /\ loginPc' \in [Sharers -> LoginPlaces] /\ task' \in [Sharers -> Task]
          /\ \A d \in Sharers \ {c} : loginPc'[d] = loginPc[d] /\ task'[d] = task[d]
          /\ SharerOk(c)'
          /\ kind # "auth" => loginPc'[c] = "idle"
      BY <3>1, AfterMoves
    <3>. QED
      BY <2>2, <3>2
  <2>. QED
    BY <2>1, <2>2
<1>5. LoginTypeOK'
  <2>1. {loginDead, issued} \subseteq BOOLEAN /\ {loginDead', issued'} \subseteq BOOLEAN
    BY <1>1 DEF LoginTypeOK
  <2>2. /\ nonce \in {"none", "mongos", "nonce"} /\ auth \subseteq Cred
        /\ creds \in Seq(Cred) /\ logout \in Seq(Cred) /\ wire' \in Seq(Command)
        /\ abandoned' \subseteq Databases
    BY <1>1, <1>3 DEF LoginTypeOK
  <2>. QED
    BY ONLY <1>1, <1>4, <2>1, <2>2 DEF LoginTypeOK, LoginPlaces
<1>6. \A d \in Sharers : SharerOk(d)'
  BY <1>4, OthersOk
<1>7. ASSUME NEW i \in DOMAIN wire
      PROVE  /\ i \in DOMAIN wire' /\ wire'[i] = wire[i] /\ AnswerOk(wire[i])
             /\ Asks(wire[i]) => wire[i].who # c
  BY <1>1, <1>3 DEF AnswersOk, AnswerOk
<1>8. ASSUME NEW i \in DOMAIN wire' PROVE AnswerOk(wire[i])'
  <2>1. CASE i \in DOMAIN wire
    <3>1. wire'[i] = wire[i] /\ AnswerOk(wire[i]) /\ (Asks(wire[i]) => wire[i].who # c)
      BY <2>1, <1>7
    <3>2. Asks(wire[i]) => /\ loginPc'[wire[i].who] = loginPc[wire[i].who]
                           /\ task'[wire[i].who] = task[wire[i].who]
      BY <3>1, <1>4 DEF AnswerOk
    <3>. QED
      BY <3>1, <3>2 DEF AnswerOk, Asks
  <2>2. CASE wire'[i].kind = "logout" /\ wire'[i].cred \in Cred
    BY <2>2 DEF AnswerOk, Asks
  <2>3. CASE wire'[i].kind = kind /\ wire'[i].cred = task[c].cred /\ wire'[i].who = c
    <3>1. asks => task[c].cred \in Cred
      BY DEF SharerOk
    <3>. QED
      BY <2>3, <3>1, <1>2, <1>4 DEF AnswerOk, Asks
  <2>. QED
    BY <1>3, <2>1, <2>2, <2>3
<1>9. AnswersOk'
  <2>1. ASSUME NEW i \in DOMAIN wire', NEW j \in DOMAIN wire',
               Asks(wire'[i]), Asks(wire'[j]), wire'[i].who = wire'[j].who
        PROVE  i = j
    <3>1. \A k \in DOMAIN wire' : Asks(wire'[k]) =>
             \/ k \in DOMAIN wire /\ wire'[k] = wire[k] /\ wire[k].who # c
             \/ k = Len(wire') /\ wire'[k].who = c
      BY <1>3, <1>7 DEF Asks
    <3>2. CASE i \in DOMAIN wire /\ j \in DOMAIN wire
      BY <2>1, <3>2, <1>7 DEF AnswersOk
    <3>3. CASE i \notin DOMAIN wire \/ j \notin DOMAIN wire
      BY <2>1, <3>1, <3>3, <1>7
    <3>. QED
      BY <3>2, <3>3
  <2>. QED
    BY ONLY <1>8, <2>1 DEF AnswersOk, Asks
<1>10. ASSUME NEW d \in Sharers \ {c} PROVE HoldsTurn(d)' <=> HoldsTurn(d)
  <2>1. loginPc'[d] = loginPc[d] /\ task'[d] = task[d]
    BY <1>4
  <2>. QED
    BY <2>1 DEF HoldsTurn
<1>11. (HoldsTurn(c)' <=> kind = "auth") /\ (HoldsTurn(c) <=> kind \in {"auth", "getnonce"})
  BY <1>1, <1>2, <1>4 DEF HoldsTurn
<1>12. ASSUME NEW i \in DOMAIN wire'
       PROVE  /\ i \in DOMAIN wire /\ AskedFor(i) => AskedFor(i)'
              /\ AskedFor(i)' => \/ i \in DOMAIN wire /\ AskedFor(i)
                                 \/ i = Len(wire') /\ kind = "getnonce"
  BY <1>3 DEF AskedFor
<1>13. OneNonce'
  <2>1. nonce' # "none" => /\ \A i \in DOMAIN wire' : ~AskedFor(i)'
                           /\ \A d \in Sharers : ~HoldsTurn(d)'
    BY <1>1, <1>10, <1>11, <1>12 DEF OneNonce
  <2>2. \A i, j \in DOMAIN wire' : AskedFor(i)' /\ AskedFor(j)' => i = j
    BY <1>1, <1>11, <1>12 DEF OneNonce
  <2>3. \A i \in DOMAIN wire', d \in Sharers : ~(AskedFor(i)' /\ HoldsTurn(d)')
    BY <1>1, <1>10, <1>11, <1>12 DEF OneNonce
  <2>4. \A d, e \in Sharers : HoldsTurn(d)' /\ HoldsTurn(e)' => d = e
    BY <1>1, <1>10, <1>11 DEF OneNonce
  <2>. QED
    BY <2>1, <2>2, <2>3, <2>4 DEF OneNonce
<1>14. NonceSomewhere'
  <2>1. CASE nonce # "none"
    BY <2>1, <1>1 DEF NonceSomewhere
  <2>2. CASE \E i \in DOMAIN wire : AskedFor(i)
    BY <2>2, <1>7, <1>12 DEF NonceSomewhere
  <2>3. CASE \E d \in Sharers : HoldsTurn(d)
    <3>1. CASE kind = "getnonce"
      <4>1. PICK i \in DOMAIN wire' : wire'[i].kind = "getnonce"
        BY <3>1, <1>3
      <4>. QED
        BY <4>1 DEF NonceSomewhere, AskedFor
    <3>2. CASE kind # "getnonce"
      BY <2>3, <3>2, <1>10, <1>11 DEF NonceSomewhere
    <3>. QED
      BY <3>1, <3>2
  <2>. QED
    BY <1>1, <2>1, <2>2, <2>3 DEF NonceSomewhere
<1>15. IssuedUnused'
  <2>1. ASSUME NEW d \in Sharers
        PROVE  HoldsTurn(d)' /\ task'[d].kind = "auth" <=> HoldsTurn(d) /\ task[d].kind = "auth"
    <3>1. CASE d = c
      BY <3>1, <1>4, <1>11
    <3>2. CASE d # c
      BY <3>2, <1>4, <1>10
    <3>. QED
      BY <3>1, <3>2
  <2>. QED
    BY <1>1, <2>1 DEF IssuedUnused
<1>16. NobodySleepsOver'
  BY <1>1, <1>2, <1>4 DEF NobodySleepsOver
<1>17. ASSUME NEW db, KnownHere(db) PROVE KnownHere(db)'
  <2>1. CASE \E i \in DOMAIN wire : wire[i].kind = "logout" /\ Source(wire[i].cred) = db
    BY <2>1, <1>7 DEF KnownHere
  <2>2. CASE \E d \in Sharers : /\ loginPc[d] = "send"
                                /\ \E i \in DOMAIN task[d].lops : Source(task[d].lops[i]) = db
    <3>1. PICK d \in Sharers : /\ loginPc[d] = "send"
                               /\ \E i \in DOMAIN task[d].lops : Source(task[d].lops[i]) = db
      BY <2>2
    <3>2. CASE d = c
      BY <3>1, <3>2, <1>3 DEF KnownHere
    <3>3. CASE d # c
      <4>1. loginPc'[d] = loginPc[d] /\ task'[d] = task[d]
        BY <3>3, <1>4
      <4>. QED
        BY <3>1, <4>1 DEF KnownHere
    <3>. QED
      BY <3>2, <3>3
  <2>3. CASE \/ \E i \in DOMAIN creds : Source(creds[i]) = db
             \/ \E i \in DOMAIN logout : Source(logout[i]) = db
             \/ db \in abandoned
    BY <2>3, <1>1 DEF KnownHere
  <2>. QED
    BY <1>17, <2>1, <2>2, <2>3 DEF KnownHere
<1>18. LoginsKnown'
  BY <1>1, <1>17 DEF LoginsKnown
<1>. QED
  BY <1>1, <1>5, <1>6, <1>9, <1>13, <1>14, <1>15, <1>16, <1>18 DEF NoNoncePanic, NonceInTurn

----------------------------------------------------------------------------
(* The answers                                                             *)

\* The answer that is read leaves the others in their order.
LEMMA Read ==
  ASSUME LoginTypeOK, wire # <<>>, wire' = Tail(wire)
  PROVE  /\ wire' \in Seq(Command) /\ 1 \in DOMAIN wire
         /\ Head(wire) = wire[1] /\ Head(wire) \in Command
         /\ \A i \in DOMAIN wire' : i + 1 \in DOMAIN wire \ {1} /\ wire'[i] = wire[i + 1]
         /\ \A i \in DOMAIN wire \ {1} : \E j \in DOMAIN wire' : wire'[j] = wire[i]
<1>1. wire \in Seq(Command) /\ DOMAIN wire = 1 .. Len(wire) /\ Len(wire) \in Nat \ {0}
  BY DEF LoginTypeOK
<1>2. /\ wire' \in Seq(Command) /\ Len(wire') = Len(wire) - 1 /\ DOMAIN wire' = 1 .. Len(wire')
      /\ \A i \in 1 .. (Len(wire) - 1) : wire'[i] = wire[i + 1]
  BY <1>1
<1>3. ASSUME NEW i \in DOMAIN wire \ {1} PROVE \E j \in DOMAIN wire' : wire'[j] = wire[i]
  <2>1. i - 1 \in 1 .. (Len(wire) - 1) /\ (i - 1) + 1 = i
    BY <1>1
  <2>2. i - 1 \in DOMAIN wire' /\ wire'[i - 1] = wire[i]
    BY <2>1, <1>2
  <2>. QED
    BY <2>2
<1>4. \A i \in DOMAIN wire' : i + 1 \in DOMAIN wire \ {1} /\ wire'[i] = wire[i + 1]
  BY <1>1, <1>2
<1>. QED
  BY <1>1, <1>2, <1>3, <1>4

\* Whoever does not wait for this answer still waits for his.
LEMMA AnswersLeft ==
  ASSUME LoginTypeOK, AnswersOk, wire # <<>>, wire' = Tail(wire),
         \A d \in Sharers : loginPc[d] = "waiting" /\ ~(Asks(Head(wire)) /\ Head(wire).who = d) =>
           loginPc'[d] = "waiting" /\ task'[d].kind = task[d].kind
  PROVE  AnswersOk'
<1>1. /\ 1 \in DOMAIN wire /\ Head(wire) = wire[1]
      /\ \A i \in DOMAIN wire' : i + 1 \in DOMAIN wire \ {1} /\ wire'[i] = wire[i + 1]
  BY Read
<1>2. ASSUME NEW i \in DOMAIN wire'
      PROVE  /\ AnswerOk(wire[i + 1]) /\ wire'[i] = wire[i + 1] /\ i + 1 # 1
             /\ Asks(wire[i + 1]) => ~(Asks(Head(wire)) /\ Head(wire).who = wire[i + 1].who)
  BY <1>1 DEF AnswersOk
<1>3. ASSUME NEW i \in DOMAIN wire' PROVE AnswerOk(wire[i])'
  BY <1>2 DEF AnswerOk, Asks
<1>4. ASSUME NEW i \in DOMAIN wire', NEW j \in DOMAIN wire',
             Asks(wire[i])', Asks(wire[j])', wire'[i].who = wire'[j].who
      PROVE  i = j
  <2>1. i + 1 = j + 1
    BY <1>1, <1>4 DEF AnswersOk, Asks
  <2>2. i \in Int /\ j \in Int
    <3>1. wire' \in Seq(Command)
      BY Read
    <3>. QED
      BY <3>1
  <2>. QED
    BY <2>1, <2>2
<1>. QED
  BY ONLY <1>3, <1>4 DEF AnswersOk, Asks

\* A command that was not for a nonce leaves the nonce that was asked for.
LEMMA NonceLeft ==
  ASSUME LoginTypeOK, wire # <<>>, wire' = Tail(wire), Head(wire).kind # "getnonce",
         OneNonce, NonceSomewhere, nonce' = nonce,
         \A d \in Sharers : HoldsTurn(d)' <=> HoldsTurn(d)
  PROVE  OneNonce' /\ NonceSomewhere'
<1>1. /\ 1 \in DOMAIN wire /\ Head(wire) = wire[1] /\ wire' \in Seq(Command)
      /\ \A i \in DOMAIN wire' : i + 1 \in DOMAIN wire \ {1} /\ wire'[i] = wire[i + 1]
      /\ \A i \in DOMAIN wire \ {1} : \E j \in DOMAIN wire' : wire'[j] = wire[i]
  BY Read
<1>2. \A i \in DOMAIN wire' : i \in Int /\ (AskedFor(i)' => i + 1 \in DOMAIN wire /\ AskedFor(i + 1))
  BY <1>1 DEF AskedFor
<1>3. OneNonce'
  <2>1. \A i, j \in DOMAIN wire' : AskedFor(i)' /\ AskedFor(j)' => i = j
    <3> SUFFICES ASSUME NEW i \in DOMAIN wire', NEW j \in DOMAIN wire',
                        AskedFor(i)', AskedFor(j)'
                 PROVE  i = j
      OBVIOUS
    <3>1. i + 1 = j + 1
      BY <1>2 DEF OneNonce
    <3>. QED
      BY <3>1, <1>2
  <2>2. nonce' # "none" => /\ \A i \in DOMAIN wire' : ~AskedFor(i)'
                           /\ \A d \in Sharers : ~HoldsTurn(d)'
    BY <1>2 DEF OneNonce
  <2>3. \A i \in DOMAIN wire', d \in Sharers : ~(AskedFor(i)' /\ HoldsTurn(d)')
    BY <1>2 DEF OneNonce
  <2>4. \A d, e \in Sharers : HoldsTurn(d)' /\ HoldsTurn(e)' => d = e
    BY DEF OneNonce
  <2>. QED
    BY <2>1, <2>2, <2>3, <2>4 DEF OneNonce
<1>4. NonceSomewhere'
  <2>1. CASE \E i \in DOMAIN wire : AskedFor(i)
    <3>1. PICK i \in DOMAIN wire : AskedFor(i)
      BY <2>1
    <3>2. PICK j \in DOMAIN wire' : wire'[j] = wire[i]
      BY <1>1, <3>1 DEF AskedFor
    <3>. QED
      BY <3>1, <3>2 DEF AskedFor, NonceSomewhere
  <2>2. CASE nonce # "none" \/ \E d \in Sharers : HoldsTurn(d)
    BY <2>2 DEF NonceSomewhere
  <2>. QED
    BY <2>1, <2>2 DEF NonceSomewhere
<1>. QED
  BY <1>3, <1>4

\* What the socket knows apart from its credentials and the answer read.
LEMMA KnownLeft ==
  ASSUME LoginTypeOK, wire # <<>>, wire' = Tail(wire), logout' = logout,
         \A d \in Sharers : loginPc[d] = "send" =>
           loginPc'[d] = "send" /\ task'[d].lops = task[d].lops,
         NEW db, KnownHere(db),
         Head(wire).kind = "logout" => Source(Head(wire).cred) # db,
         (\E i \in DOMAIN creds : Source(creds[i]) = db)
           => \E i \in DOMAIN creds' : Source(creds'[i]) = db,
         db \in abandoned => db \in abandoned' \/ \E i \in DOMAIN creds' : Source(creds'[i]) = db
  PROVE  KnownHere(db)'
<1>1. CASE \E i \in DOMAIN wire : wire[i].kind = "logout" /\ Source(wire[i].cred) = db
  <2>1. PICK i \in DOMAIN wire : wire[i].kind = "logout" /\ Source(wire[i].cred) = db
    BY <1>1
  <2>2. /\ Head(wire) = wire[1]
        /\ \A k \in DOMAIN wire \ {1} : \E j \in DOMAIN wire' : wire'[j] = wire[k]
    BY Read
  <2>3. PICK j \in DOMAIN wire' : wire'[j] = wire[i]
    BY <2>1, <2>2
  <2>. QED
    BY <2>1, <2>3 DEF KnownHere
<1>2. CASE \/ \E i \in DOMAIN creds : Source(creds[i]) = db
           \/ \E i \in DOMAIN logout : Source(logout[i]) = db
           \/ \E d \in Sharers : /\ loginPc[d] = "send"
                                 /\ \E i \in DOMAIN task[d].lops : Source(task[d].lops[i]) = db
  BY <1>2 DEF KnownHere
<1>3. CASE db \in abandoned
  BY <1>3 DEF KnownHere
<1>. QED
  BY <1>1, <1>2, <1>3 DEF KnownHere

\* A login takes the place of the one of its database, in the server and in
\* the socket.
LEMMA AcceptedKnown ==
  ASSUME LoginTypeOK, NEW cred \in Cred, Accepted(cred)
  PROVE  /\ auth' \subseteq Cred /\ creds' \in Seq(Cred)
         /\ \A a \in auth' : a = cred \/ (a \in auth /\ Source(a) # Source(cred))
         /\ \E i \in DOMAIN creds' : Source(creds'[i]) = Source(cred)
         /\ \A i \in DOMAIN creds :
              \E j \in DOMAIN creds' : Source(creds'[j]) = Source(creds[i])
         /\ abandoned' = abandoned \ {Source(cred)}
<1> DEFINE places == OfSource(creds, Source(cred))
           rest == Drop(creds, places)
<1>1. creds \in Seq(Cred) /\ auth \subseteq Cred
  BY DEF LoginTypeOK
<1>2. /\ places \in SUBSET DOMAIN creds
      /\ \A i \in DOMAIN creds : i \in places <=> Source(creds[i]) = Source(cred)
  BY DEF OfSource
<1>3. creds' = Append(rest, cred)
  BY DEF Accepted, DropAuth
<1> HIDE DEF places
<1>4. /\ rest \in Seq(Cred)
      /\ \A i \in DOMAIN creds \ places : \E j \in DOMAIN rest : rest[j] = creds[i]
  BY <1>1, <1>2, Dropped
<1> HIDE DEF rest
<1>5. /\ creds' \in Seq(Cred) /\ Len(rest) + 1 \in DOMAIN creds'
      /\ creds'[Len(rest) + 1] = cred
      /\ \A j \in DOMAIN rest : j \in DOMAIN creds' /\ creds'[j] = rest[j]
  BY <1>3, <1>4
<1>6. ASSUME NEW i \in DOMAIN creds
      PROVE  \E j \in DOMAIN creds' : Source(creds'[j]) = Source(creds[i])
  <2>1. CASE i \in places
    BY <2>1, <1>2, <1>5
  <2>2. CASE i \notin places
    <3>1. PICK j \in DOMAIN rest : rest[j] = creds[i]
      BY <2>2, <1>4
    <3>. QED
      BY <3>1, <1>5
  <2>. QED
    BY <2>1, <2>2
<1>7. /\ auth' = {a \in auth : Source(a) # Source(cred)} \cup {cred}
      /\ abandoned' = abandoned \ {Source(cred)}
  BY DEF Accepted, Authenticated
<1>. QED
  BY <1>1, <1>5, <1>6, <1>7

LEMMA ReplyAuthKeepsIInv ==
  ASSUME LoginIInv, ~loginDead, wire # <<>>, wire' = Tail(wire), ReplyAuth(Head(wire))
  PROVE  LoginIInv'
<1> DEFINE m == Head(wire)
<1> USE DEF LoginIInv
<1>1. /\ wire' \in Seq(Command) /\ m = wire[1] /\ 1 \in DOMAIN wire /\ m.kind = "auth"
      /\ issued' = FALSE /\ loginDead' = loginDead /\ nonce' = nonce /\ logout' = logout
      /\ wrong' = IF issued THEN wrong ELSE wrong \cup {"nonce out of turn"}
      /\ Accepted(m.cred) \/ (auth' = auth /\ creds' = creds /\ abandoned' = abandoned)
      /\ After(m.who)
  BY Read DEF ReplyAuth
<1>2. PICK c \in Sharers : /\ c = m.who /\ m.cred \in Cred
                           /\ loginPc[c] = "waiting" /\ task[c].kind = "auth"
  BY <1>1 DEF AnswersOk, AnswerOk, Asks
<1>3. Asks(m)
  BY <1>1 DEF Asks
<1>4. m.kind # "getnonce" /\ m.kind # "logout"
  BY <1>1
<1>5. /\ loginPc' \in [Sharers -> LoginPlaces] /\ task' \in [Sharers -> Task]
      /\ \A d \in Sharers \ {c} : loginPc'[d] = loginPc[d] /\ task'[d] = task[d]
      /\ SharerOk(c)' /\ loginPc'[c] = "flush" /\ task'[c].kind = "getnonce"
  BY <1>1, <1>2, AfterMoves
<1>6. /\ auth' \subseteq Cred /\ creds' \in Seq(Cred) /\ abandoned' \subseteq Databases
      /\ \A a \in auth' : \/ a \in auth
                          \/ \E i \in DOMAIN creds' : Source(creds'[i]) = Source(a)
      /\ \A i \in DOMAIN creds : \E j \in DOMAIN creds' : Source(creds'[j]) = Source(creds[i])
      /\ \A db \in abandoned : db \in abandoned'
                                 \/ \E i \in DOMAIN creds' : Source(creds'[i]) = db
  <2>1. CASE Accepted(m.cred)
    <3> HIDE DEF m
    <3>. QED
      BY <1>2, <2>1, AcceptedKnown DEF LoginTypeOK
  <2>2. CASE auth' = auth /\ creds' = creds /\ abandoned' = abandoned
    BY <2>2 DEF LoginTypeOK
  <2>. QED
    BY <1>1, <2>1, <2>2
<1>7. LoginTypeOK'
  <2>1. {loginDead', issued'} \subseteq BOOLEAN
    BY <1>1 DEF LoginTypeOK
  <2>2. nonce' \in {"none", "mongos", "nonce"} /\ logout' \in Seq(Cred) /\ wire' \in Seq(Command)
    BY <1>1 DEF LoginTypeOK
  <2>. QED
    BY ONLY <1>5, <1>6, <2>1, <2>2 DEF LoginTypeOK, LoginPlaces
<1>8. \A d \in Sharers : SharerOk(d)'
  BY <1>2, <1>5, OthersOk
<1>9. AnswersOk'
  BY <1>2, <1>3, <1>5, AnswersLeft
<1>10. HoldsTurn(c) /\ HoldsTurn(c)'
  BY <1>2, <1>5 DEF HoldsTurn
<1>11. ASSUME NEW d \in Sharers PROVE HoldsTurn(d)' <=> HoldsTurn(d)
  <2>1. CASE d = c
    BY <2>1, <1>10
  <2>2. CASE d # c
    <3>1. loginPc'[d] = loginPc[d] /\ task'[d] = task[d]
      BY <1>5, <2>2
    <3>. QED
      BY <3>1 DEF HoldsTurn
  <2>. QED
    BY <2>1, <2>2
<1>12. OneNonce' /\ NonceSomewhere'
  BY <1>1, <1>4, <1>11, NonceLeft
<1>13. nonce = "none" /\ \A d \in Sharers : HoldsTurn(d) => d = c
  BY <1>2, <1>10 DEF OneNonce
<1>14. issued
  BY <1>2, <1>10 DEF IssuedUnused
<1>15. IssuedUnused'
  <2>1. ~issued' /\ nonce' # "nonce"
    BY <1>1, <1>13
  <2>2. \A d \in Sharers : ~(HoldsTurn(d)' /\ task'[d].kind = "auth")
    BY <1>5, <1>11, <1>13
  <2>. QED
    BY <2>1, <2>2 DEF IssuedUnused
<1>16. NobodySleepsOver'
  BY <1>1, <1>13 DEF NobodySleepsOver
<1>17. ASSUME NEW a \in auth' PROVE KnownHere(Source(a))'
  <2>1. CASE \E i \in DOMAIN creds' : Source(creds'[i]) = Source(a)
    BY <2>1 DEF KnownHere
  <2>2. CASE a \in auth
    <3>1. KnownHere(Source(a))
      BY <2>2 DEF LoginsKnown
    <3>2. \A d \in Sharers : loginPc[d] = "send" =>
             loginPc'[d] = "send" /\ task'[d].lops = task[d].lops
      BY <1>2, <1>5
    <3> DEFINE db == Source(a)
    <3>3. /\ KnownHere(db) /\ (Head(wire).kind = "logout" => Source(Head(wire).cred) # db)
          /\ (\E i \in DOMAIN creds : Source(creds[i]) = db)
               => \E i \in DOMAIN creds' : Source(creds'[i]) = db
          /\ db \in abandoned => \/ db \in abandoned'
                                 \/ \E i \in DOMAIN creds' : Source(creds'[i]) = db
      BY <1>4, <1>6, <3>1
    <3> HIDE DEF db
    <3>4. KnownHere(db)'
      BY <1>1, <3>2, <3>3, KnownLeft
    <3>. QED
      BY <3>4 DEF db
  <2>. QED
    BY <1>6, <2>1, <2>2
<1>18. LoginsKnown'
  BY <1>17 DEF LoginsKnown
<1>. QED
  BY <1>1, <1>7, <1>8, <1>9, <1>12, <1>14, <1>15, <1>16, <1>18 DEF NoNoncePanic, NonceInTurn

\* The server has accepted, and the client has not.
GivenUp(cred) == /\ Authenticated(cred) /\ creds' = creds
                 /\ abandoned' = abandoned \cup {Source(cred)}

LEMMA ReplySaslKeepsIInv ==
  ASSUME LoginIInv, ~loginDead, wire # <<>>, wire' = Tail(wire), ReplySasl(Head(wire))
  PROVE  LoginIInv'
<1> DEFINE m == Head(wire)
<1> USE DEF LoginIInv
<1>1. /\ wire' \in Seq(Command) /\ m = wire[1] /\ 1 \in DOMAIN wire /\ m \in Command
      /\ m.kind = "sasl" /\ issued' = issued /\ loginDead' = loginDead
      /\ nonce' = nonce /\ logout' = logout /\ wrong' = wrong
      /\ \/ Accepted(m.cred) \/ GivenUp(m.cred)
         \/ auth' = auth /\ creds' = creds /\ abandoned' = abandoned
      /\ (m.step <= SaslSteps /\ NextSaslStep(m)) \/ After(m.who)
  <2>1. m \in Command /\ m.step \in 0 .. SaslSteps + 1
    BY Read DEF Command
  <2>. QED
    BY <2>1, Read, LoginAssumption DEF ReplySasl, GivenUp
<1>2. PICK c \in Sharers : /\ c = m.who /\ m.cred \in Cred
                           /\ loginPc[c] = "waiting" /\ task[c].kind = "sasl"
  BY <1>1 DEF AnswersOk, AnswerOk, Asks
<1>3. Asks(m) /\ m.kind # "getnonce" /\ m.kind # "logout"
  BY <1>1 DEF Asks
<1>4. /\ loginPc' \in [Sharers -> LoginPlaces] /\ task' \in [Sharers -> Task]
      /\ \A d \in Sharers \ {c} : loginPc'[d] = loginPc[d] /\ task'[d] = task[d]
      /\ SharerOk(c)' /\ loginPc'[c] \in {"idle", "flush"}
      /\ task'[c].kind \in {"none", "sasl"}
  <2>1. CASE After(c)
    BY <1>2, <2>1, AfterMoves
  <2>2. CASE m.step <= SaslSteps /\ NextSaslStep(m)
    <3> DEFINE t == [kind |-> "sasl", cred |-> m.cred, step |-> m.step + 1, lops |-> <<>>]
    <3>1. loginPc' = [loginPc EXCEPT ![c] = "flush"] /\ task' = [task EXCEPT ![c] = t]
      BY <1>2, <2>2 DEF NextSaslStep, LoginGoto, Set, Asking
    <3>2. m.step + 1 \in 0 .. SaslSteps + 1
      BY <1>1, <2>2, LoginAssumption DEF Command
    <3>3. t \in Task
      BY <1>2, <3>2 DEF Task
    <3>4. t.kind = "sasl" /\ t.lops = <<>> /\ t.cred \in Cred
      BY <1>2
    <3> HIDE DEF t
    <3>5. /\ loginPc' \in [Sharers -> LoginPlaces] /\ task' \in [Sharers -> Task]
          /\ loginPc'[c] = "flush" /\ task'[c] = t
          /\ \A d \in Sharers \ {c} : loginPc'[d] = loginPc[d] /\ task'[d] = task[d]
      BY <3>1, <3>3, LoginMoved DEF LoginPlaces
    <3>6. SharerOk(c)'
      BY <3>4, <3>5 DEF SharerOk
    <3>. QED
      BY <3>4, <3>5, <3>6
  <2>. QED
    BY <1>1, <1>2, <2>1, <2>2
<1>5. /\ auth' \subseteq Cred /\ creds' \in Seq(Cred) /\ abandoned' \subseteq Databases
      /\ \A a \in auth' : \/ a \in auth \/ Source(a) \in abandoned'
                          \/ \E i \in DOMAIN creds' : Source(creds'[i]) = Source(a)
      /\ \A i \in DOMAIN creds : \E j \in DOMAIN creds' : Source(creds'[j]) = Source(creds[i])
      /\ \A db \in abandoned : db \in abandoned'
                                 \/ \E i \in DOMAIN creds' : Source(creds'[i]) = db
  <2>1. CASE Accepted(m.cred)
    <3> HIDE DEF m
    <3>. QED
      BY <1>2, <2>1, AcceptedKnown DEF LoginTypeOK
  <2>2. CASE auth' = auth /\ creds' = creds /\ abandoned' = abandoned
    BY <2>2 DEF LoginTypeOK
  <2>3. CASE GivenUp(m.cred)
    BY <1>2, <2>3 DEF GivenUp, Authenticated, LoginTypeOK, Databases
  <2>. QED
    BY <1>1, <2>1, <2>2, <2>3
<1>6. LoginTypeOK'
  <2>1. {loginDead', issued'} \subseteq BOOLEAN
    BY <1>1 DEF LoginTypeOK
  <2>2. nonce' \in {"none", "mongos", "nonce"} /\ logout' \in Seq(Cred) /\ wire' \in Seq(Command)
    BY <1>1 DEF LoginTypeOK
  <2>. QED
    BY ONLY <1>4, <1>5, <2>1, <2>2 DEF LoginTypeOK, LoginPlaces
<1>7. \A d \in Sharers : SharerOk(d)'
  BY <1>4, OthersOk
<1>8. AnswersOk'
  BY <1>2, <1>3, <1>4, AnswersLeft
<1>9. ~HoldsTurn(c) /\ ~HoldsTurn(c)'
  BY <1>2, <1>4 DEF HoldsTurn
<1>10. ASSUME NEW d \in Sharers
       PROVE  (HoldsTurn(d)' <=> HoldsTurn(d)) /\ (HoldsTurn(d) => task'[d] = task[d])
  <2>1. CASE d = c
    BY <2>1, <1>9
  <2>2. CASE d # c
    <3>1. loginPc'[d] = loginPc[d] /\ task'[d] = task[d]
      BY <1>4, <2>2
    <3>. QED
      BY <3>1 DEF HoldsTurn
  <2>. QED
    BY <2>1, <2>2
<1>11. OneNonce' /\ NonceSomewhere'
  BY <1>1, <1>3, <1>10, NonceLeft
<1>12. IssuedUnused'
  BY <1>1, <1>10 DEF IssuedUnused
<1>13. NobodySleepsOver'
  BY <1>1, <1>2, <1>4 DEF NobodySleepsOver
<1>14. ASSUME NEW a \in auth' PROVE KnownHere(Source(a))'
  <2>1. CASE \/ Source(a) \in abandoned'
             \/ \E i \in DOMAIN creds' : Source(creds'[i]) = Source(a)
    BY <2>1 DEF KnownHere
  <2>2. CASE a \in auth
    <3>1. KnownHere(Source(a))
      BY <2>2 DEF LoginsKnown
    <3>2. \A d \in Sharers : loginPc[d] = "send" =>
             loginPc'[d] = "send" /\ task'[d].lops = task[d].lops
      BY <1>2, <1>4
    <3> DEFINE db == Source(a)
    <3>3. /\ KnownHere(db) /\ (Head(wire).kind = "logout" => Source(Head(wire).cred) # db)
          /\ (\E i \in DOMAIN creds : Source(creds[i]) = db)
               => \E i \in DOMAIN creds' : Source(creds'[i]) = db
          /\ db \in abandoned => \/ db \in abandoned'
                                 \/ \E i \in DOMAIN creds' : Source(creds'[i]) = db
      BY <1>3, <1>5, <3>1
    <3> HIDE DEF db
    <3>4. KnownHere(db)'
      BY <1>1, <3>2, <3>3, KnownLeft
    <3>. QED
      BY <3>4 DEF db
  <2>. QED
    BY <1>5, <2>1, <2>2
<1>15. LoginsKnown'
  BY <1>14 DEF LoginsKnown
<1>. QED
  BY <1>1, <1>6, <1>7, <1>8, <1>11, <1>12, <1>13, <1>15 DEF NoNoncePanic, NonceInTurn

LEMMA ReplyLogoutKeepsIInv ==
  ASSUME LoginIInv, ~loginDead, wire # <<>>, wire' = Tail(wire), ReplyLogout(Head(wire))
  PROVE  LoginIInv'
<1> DEFINE m == Head(wire)
<1> USE DEF LoginIInv
<1>1. /\ wire' \in Seq(Command) /\ m = wire[1] /\ 1 \in DOMAIN wire /\ m.kind = "logout"
      /\ issued' = issued /\ loginDead' = loginDead /\ nonce' = nonce /\ logout' = logout
      /\ wrong' = wrong /\ creds' = creds /\ loginPc' = loginPc /\ task' = task
      /\ auth' = {a \in auth : Source(a) # Source(m.cred)}
      /\ abandoned' = abandoned \ {Source(m.cred)}
  BY Read DEF ReplyLogout
<1>2. ~Asks(m) /\ m.kind # "getnonce"
  BY <1>1 DEF Asks
<1>3. LoginTypeOK'
  BY <1>1 DEF LoginTypeOK
<1>4. \A d \in Sharers : SharerOk(d)'
  BY <1>1 DEF SharerOk
<1>5. AnswersOk'
  BY <1>1, <1>2, AnswersLeft
<1>6. \A d \in Sharers : HoldsTurn(d)' <=> HoldsTurn(d)
  BY <1>1 DEF HoldsTurn
<1>7. OneNonce' /\ NonceSomewhere'
  BY <1>1, <1>2, <1>6, NonceLeft
<1>8. IssuedUnused'
  BY <1>1, <1>6 DEF IssuedUnused
<1>9. NobodySleepsOver'
  BY <1>1 DEF NobodySleepsOver
<1>10. ASSUME NEW a \in auth' PROVE KnownHere(Source(a))'
  <2> DEFINE db == Source(a)
  <2>1. KnownHere(db) /\ Source(Head(wire).cred) # db
    BY <1>1 DEF LoginsKnown
  <2> HIDE DEF db
  <2>2. KnownHere(db)'
    BY <1>1, <2>1, KnownLeft
  <2>. QED
    BY <2>2 DEF db
<1>11. LoginsKnown'
  BY <1>10 DEF LoginsKnown
<1>. QED
  BY <1>1, <1>3, <1>4, <1>5, <1>7, <1>8, <1>9, <1>11 DEF NoNoncePanic, NonceInTurn

\* The nonce that arrives is the one that was asked for: none is cached, and
\* the one that is woken can take it.
LEMMA ReplyNonceKeepsIInv ==
  ASSUME LoginIInv, ~loginDead, wire # <<>>, wire' = Tail(wire), ReplyNonce(Head(wire))
  PROVE  LoginIInv'
<1> DEFINE m == Head(wire)
<1> USE DEF LoginIInv
<1>1. /\ wire' \in Seq(Command) /\ m = wire[1] /\ 1 \in DOMAIN wire /\ m.kind = "getnonce"
      /\ \A i \in DOMAIN wire' : i + 1 \in DOMAIN wire \ {1} /\ wire'[i] = wire[i + 1]
      /\ loginDead' = loginDead /\ creds' = creds /\ logout' = logout /\ auth' = auth
      /\ task' = task /\ abandoned' = abandoned /\ Signal
  BY Read DEF ReplyNonce
<1>2. /\ nonce' \in {"nonce", "mongos"} /\ (issued' <=> nonce' = "nonce")
      /\ issued' \in BOOLEAN
      /\ wrong' = IF nonce = "none" THEN wrong ELSE wrong \cup {"nonce already cached"}
  BY DEF ReplyNonce
<1>3. ~Asks(m) /\ m.kind # "logout" /\ AskedFor(1)
  BY <1>1 DEF Asks, AskedFor
<1>4. /\ nonce = "none" /\ (\A d \in Sharers : ~HoldsTurn(d))
      /\ \A i \in DOMAIN wire : AskedFor(i) => i = 1
  BY <1>1, <1>3 DEF OneNonce
<1>5. /\ loginPc' \in [Sharers -> LoginPlaces]
      /\ \A d \in Sharers : loginPc[d] # "parked" => loginPc'[d] = loginPc[d]
      /\ \A d \in Sharers : loginPc[d] = "parked" => loginPc'[d] \in {"parked", "nonce"}
      /\ (\E d \in Sharers : loginPc[d] = "parked") => \E d \in Sharers : loginPc'[d] = "nonce"
  <2>1. loginPc \in [Sharers -> LoginPlaces]
    BY DEF LoginTypeOK, LoginPlaces
  <2>2. CASE \E d \in Sharers : loginPc[d] = "parked"
    <3>1. PICK c \in Sharers : loginPc[c] = "parked" /\ loginPc' = [loginPc EXCEPT ![c] = "nonce"]
      BY <1>1, <2>2 DEF Signal, LoginGoto
    <3>. QED
      BY <2>1, <3>1 DEF LoginPlaces
  <2>3. CASE ~\E d \in Sharers : loginPc[d] = "parked"
    BY <1>1, <2>1, <2>3 DEF Signal
  <2>. QED
    BY <2>2, <2>3
<1>6. LoginTypeOK'
  <2>1. {loginDead', issued'} \subseteq BOOLEAN
    BY <1>1, <1>2 DEF LoginTypeOK
  <2>2. /\ nonce' \in {"none", "mongos", "nonce"} /\ task' \in [Sharers -> Task]
        /\ logout' \in Seq(Cred) /\ creds' \in Seq(Cred) /\ auth' \subseteq Cred
        /\ wire' \in Seq(Command) /\ abandoned' \subseteq Databases
    BY <1>1, <1>2 DEF LoginTypeOK
  <2>. QED
    BY ONLY <1>5, <2>1, <2>2 DEF LoginTypeOK, LoginPlaces
<1>7. ASSUME NEW d \in Sharers PROVE SharerOk(d)'
  <2>1. SharerOk(d) /\ task'[d] = task[d]
    BY <1>1
  <2>2. CASE loginPc[d] = "parked"
    BY <1>5, <2>1, <2>2 DEF SharerOk
  <2>3. CASE loginPc[d] # "parked"
    BY <1>5, <2>1, <2>3 DEF SharerOk
  <2>. QED
    BY <2>2, <2>3
<1>8. AnswersOk'
  <2>1. \A d \in Sharers : loginPc[d] = "waiting" =>
          loginPc'[d] = "waiting" /\ task'[d].kind = task[d].kind
    BY <1>1, <1>5
  <2>. QED
    BY <2>1, AnswersLeft
<1>9. \A d \in Sharers : ~HoldsTurn(d)'
  <2>1. ASSUME NEW d \in Sharers PROVE ~HoldsTurn(d)'
    <3>1. CASE loginPc[d] = "parked"
      BY <1>5, <3>1 DEF HoldsTurn
    <3>2. CASE loginPc[d] # "parked"
      BY <1>1, <1>4, <1>5, <3>2 DEF HoldsTurn
    <3>. QED
      BY <3>1, <3>2
  <2>. QED
    BY <2>1
<1>10. \A i \in DOMAIN wire' : ~AskedFor(i)'
  <2>1. ASSUME NEW i \in DOMAIN wire' PROVE ~AskedFor(i)'
    <3>1. i + 1 \in DOMAIN wire /\ i + 1 # 1 /\ wire'[i] = wire[i + 1]
      BY <1>1
    <3>2. ~AskedFor(i + 1)
      BY <1>4, <3>1
    <3>. QED
      BY <3>1, <3>2 DEF AskedFor
  <2>. QED
    BY <2>1
<1>11. OneNonce' /\ NonceSomewhere' /\ IssuedUnused'
  BY <1>2, <1>9, <1>10 DEF OneNonce, NonceSomewhere, IssuedUnused
<1>12. NobodySleepsOver'
  BY <1>5 DEF NobodySleepsOver
<1>13. ASSUME NEW a \in auth PROVE KnownHere(Source(a))'
  <2> DEFINE db == Source(a)
  <2>1. KnownHere(db)
    BY DEF LoginsKnown
  <2>2. \A d \in Sharers : loginPc[d] = "send" =>
          loginPc'[d] = "send" /\ task'[d].lops = task[d].lops
    BY <1>1, <1>5
  <2> HIDE DEF db
  <2>3. KnownHere(db)'
    BY <1>1, <1>3, <2>1, <2>2, KnownLeft
  <2>. QED
    BY <2>3 DEF db
<1>14. LoginsKnown'
  BY <1>1, <1>13 DEF LoginsKnown
<1>15. wrong' = wrong
  BY <1>2, <1>4
<1>. QED
  BY <1>6, <1>7, <1>8, <1>11, <1>12, <1>14, <1>15 DEF NoNoncePanic, NonceInTurn

----------------------------------------------------------------------------
(* The end of the connection, and logouts                                  *)

LEMMA LoginKillKeepsIInv ==
  ASSUME LoginIInv, LoginKill
  PROVE  LoginIInv'
<1> DEFINE t == Asking("getnonce", NoCred, 1)
           lost == {c \in Sharers : loginPc[c] = "waiting"}
           resets == {c \in lost : task[c].kind = "auth"}
<1> USE DEF LoginIInv
<1>1. /\ loginDead' = TRUE /\ wire' = <<>> /\ nonce' = nonce /\ creds' = creds
      /\ logout' = logout /\ auth' = auth /\ issued' = issued /\ wrong' = wrong
      /\ abandoned' = abandoned
  BY DEF LoginKill
<1>2. NoTask \in Task /\ t \in Task /\ t.kind = "getnonce" /\ t.lops = <<>>
  <2>1. t = [kind |-> "getnonce", cred |-> NoCred, step |-> 1, lops |-> <<>>]
    BY DEF Asking
  <2>2. NoTask \in Task
    BY LoginAssumption DEF NoTask, Task
  <2> HIDE DEF t
  <2>. QED
    BY <2>1, <2>2, LoginAssumption DEF Task
<1>3. /\ loginPc' = [c \in Sharers |-> IF c \in resets THEN "flush"
                                       ELSE IF c \in lost THEN "idle" ELSE loginPc[c]]
      /\ task' = [c \in Sharers |-> IF c \in resets THEN t
                                    ELSE IF c \in lost THEN NoTask ELSE task[c]]
  BY DEF LoginKill
<1> HIDE DEF t
<1>4. /\ loginPc \in [Sharers -> LoginPlaces] /\ task \in [Sharers -> Task]
  BY DEF LoginTypeOK, LoginPlaces
<1>5. ASSUME NEW c \in Sharers
      PROVE  \/ loginPc'[c] = "flush" /\ task'[c] = t
             \/ loginPc'[c] = "idle" /\ task'[c] = NoTask
             \/ loginPc'[c] = loginPc[c] /\ task'[c] = task[c] /\ loginPc[c] # "waiting"
  BY <1>3
<1>6. loginPc' \in [Sharers -> LoginPlaces] /\ task' \in [Sharers -> Task]
  BY <1>2, <1>3, <1>4 DEF LoginPlaces
<1>7. LoginTypeOK'
  <2>1. {loginDead', issued'} \subseteq BOOLEAN
    BY <1>1 DEF LoginTypeOK
  <2>2. /\ nonce' \in {"none", "mongos", "nonce"} /\ wire' \in Seq(Command)
        /\ logout' \in Seq(Cred) /\ creds' \in Seq(Cred) /\ auth' \subseteq Cred
        /\ abandoned' \subseteq Databases
    BY <1>1 DEF LoginTypeOK
  <2>. QED
    BY ONLY <1>6, <2>1, <2>2 DEF LoginTypeOK, LoginPlaces
<1>8. ASSUME NEW c \in Sharers PROVE SharerOk(c)'
  BY <1>2, <1>5 DEF SharerOk, NoTask
<1>9. AnswersOk'
  <2>1. DOMAIN wire' = {}
    BY <1>1
  <2>. QED
    BY <2>1 DEF AnswersOk
<1>. QED
  BY <1>1, <1>7, <1>8, <1>9 DEF NoNoncePanic, NonceInTurn

\* A step that at most moves credentials of the socket.
LEMMA LogoutsKeepIInv ==
  ASSUME LoginIInv, creds' \in Seq(Cred), logout' \in Seq(Cred),
         UNCHANGED <<loginDead, nonce, wire, auth, issued, loginPc, task, wrong, abandoned>>,
         \A db : KnownHere(db) => KnownHere(db)'
  PROVE  LoginIInv'
<1> USE DEF LoginIInv
<1>1. LoginTypeOK'
  BY DEF LoginTypeOK
<1>2. \A d \in Sharers : SharerOk(d)'
  BY DEF SharerOk
<1>3. AnswersOk'
  BY AnswersStay
<1>4. ASSUME ~loginDead'
      PROVE  OneNonce' /\ NonceSomewhere' /\ IssuedUnused' /\ NobodySleepsOver' /\ LoginsKnown'
  <2>1. \A d \in Sharers : HoldsTurn(d)' <=> HoldsTurn(d)
    BY DEF HoldsTurn
  <2>2. OneNonce' /\ NonceSomewhere' /\ IssuedUnused'
    BY <1>4, <2>1, NonceStays
  <2>3. NobodySleepsOver' /\ LoginsKnown'
    BY <1>4 DEF NobodySleepsOver, LoginsKnown
  <2>. QED
    BY <2>2, <2>3
<1>. QED
  BY <1>1, <1>2, <1>3, <1>4 DEF NoNoncePanic, NonceInTurn

LEMMA FlagLogoutKeepsIInv ==
  ASSUME LoginIInv, NEW db, FlagLogout(db)
  PROVE  LoginIInv'
<1> DEFINE found == OfSource(creds, db)
           first == creds[Min(found)]
<1>1. /\ found # {} /\ creds' = Drop(creds, found) /\ logout' = Append(logout, first)
      /\ UNCHANGED <<loginDead, nonce, wire, auth, issued, loginPc, task, wrong, abandoned>>
  BY DEF FlagLogout, DropAuth
<1>2. creds \in Seq(Cred) /\ logout \in Seq(Cred)
  BY DEF LoginIInv, LoginTypeOK
<1>3. /\ found \in SUBSET DOMAIN creds /\ found \in SUBSET Nat
      /\ \A i \in DOMAIN creds : i \in found <=> Source(creds[i]) = db
  BY <1>2 DEF OfSource
<1> HIDE DEF found
<1>4. Min(found) \in found
  BY <1>1, <1>3, LeastPlace
<1>5. first \in Cred /\ Source(first) = db
  BY <1>2, <1>3, <1>4
<1> HIDE DEF first
<1>6. /\ creds' \in Seq(Cred)
      /\ \A i \in DOMAIN creds \ found : \E j \in DOMAIN creds' : creds'[j] = creds[i]
  BY <1>1, <1>2, <1>3, Dropped
<1>7. /\ logout' \in Seq(Cred) /\ Len(logout) + 1 \in DOMAIN logout'
      /\ logout'[Len(logout) + 1] = first
      /\ \A i \in DOMAIN logout : i \in DOMAIN logout' /\ logout'[i] = logout[i]
  BY <1>1, <1>2, <1>5
<1>8. ASSUME NEW d, KnownHere(d) PROVE KnownHere(d)'
  <2>1. CASE \E i \in DOMAIN creds : Source(creds[i]) = d
    <3>1. PICK i \in DOMAIN creds : Source(creds[i]) = d
      BY <2>1
    <3>2. CASE i \in found
      BY <3>1, <3>2, <1>3, <1>5, <1>7 DEF KnownHere
    <3>3. CASE i \notin found
      BY <3>1, <3>3, <1>6 DEF KnownHere
    <3>. QED
      BY <3>2, <3>3
  <2>2. CASE \E i \in DOMAIN logout : Source(logout[i]) = d
    BY <2>2, <1>7 DEF KnownHere
  <2>3. CASE \/ \E c \in Sharers : /\ loginPc[c] = "send"
                                   /\ \E i \in DOMAIN task[c].lops : Source(task[c].lops[i]) = d
             \/ \E i \in DOMAIN wire : wire[i].kind = "logout" /\ Source(wire[i].cred) = d
             \/ d \in abandoned
    BY <2>3, <1>1 DEF KnownHere
  <2>. QED
    BY <1>8, <2>1, <2>2, <2>3 DEF KnownHere
<1>. QED
  BY <1>1, <1>6, <1>7, <1>8, LogoutsKeepIInv

LEMMA LogoutAllKeepsIInv ==
  ASSUME LoginIInv, LogoutAll
  PROVE  LoginIInv'
<1>1. /\ creds' = <<>> /\ logout' = logout \o creds
      /\ UNCHANGED <<loginDead, nonce, wire, auth, issued, loginPc, task, wrong, abandoned>>
  BY DEF LogoutAll
<1>2. creds \in Seq(Cred) /\ logout \in Seq(Cred)
  BY DEF LoginIInv, LoginTypeOK
<1>3. /\ logout' \in Seq(Cred) /\ creds' \in Seq(Cred)
      /\ \A i \in 1 .. Len(logout) : i \in DOMAIN logout' /\ logout'[i] = logout[i]
      /\ \A i \in 1 .. Len(creds) : /\ Len(logout) + i \in DOMAIN logout'
                                    /\ logout'[Len(logout) + i] = creds[i]
  BY <1>1, <1>2
<1>4. DOMAIN logout = 1 .. Len(logout) /\ DOMAIN creds = 1 .. Len(creds)
  BY <1>2
<1>5. ASSUME NEW d, KnownHere(d) PROVE KnownHere(d)'
  <2>1. CASE \/ \E i \in DOMAIN creds : Source(creds[i]) = d
             \/ \E i \in DOMAIN logout : Source(logout[i]) = d
    BY <2>1, <1>3, <1>4 DEF KnownHere
  <2>2. CASE \/ \E c \in Sharers : /\ loginPc[c] = "send"
                                   /\ \E i \in DOMAIN task[c].lops : Source(task[c].lops[i]) = d
             \/ \E i \in DOMAIN wire : wire[i].kind = "logout" /\ Source(wire[i].cred) = d
             \/ d \in abandoned
    BY <2>2, <1>1 DEF KnownHere
  <2>. QED
    BY <1>5, <2>1, <2>2 DEF KnownHere
<1>. QED
  BY <1>1, <1>3, <1>5, LogoutsKeepIInv

----------------------------------------------------------------------------
LEMMA LoginStepKeepsIInv ==
  ASSUME LoginIInv, [LoginNext]_loginVars
  PROVE  LoginIInv'
<1>1. ASSUME NEW c \in Sharers, NEW cred \in Cred,
             LoginKnown(c, cred) \/ Login(c, cred) \/ LoginWithoutServer(c, cred)
      PROVE  LoginIInv'
  BY <1>1, LoginKnownKeepsIInv, LoginKeepsIInv, LoginWithoutServerKeepsIInv
<1>2. ASSUME NEW c \in Sharers, StartOp(c)
      PROVE  LoginIInv'
  BY <1>2, StartOpKeepsIInv
<1>3. ASSUME NEW c \in Sharers, Proceed(c)
      PROVE  LoginIInv'
  BY <1>3, ParkForNonceKeepsIInv, NoNonceKeepsIInv, TakeNonceKeepsIInv, FlushLogoutKeepsIInv,
     SendKeepsIInv, SendDeadKeepsIInv DEF Proceed
<1>4. CASE HandleReply
  BY <1>4, ReplyAuthKeepsIInv, ReplySaslKeepsIInv, ReplyLogoutKeepsIInv, ReplyNonceKeepsIInv
     DEF HandleReply
<1>5. CASE LoginKill
  BY <1>5, LoginKillKeepsIInv
<1>6. ASSUME NEW db \in Databases, FlagLogout(db)
      PROVE  LoginIInv'
  BY <1>6, FlagLogoutKeepsIInv
<1>7. CASE LogoutAll
  BY <1>7, LogoutAllKeepsIInv
<1>8. CASE UNCHANGED loginVars
  <2>1. /\ UNCHANGED <<loginDead, nonce, wire, auth, issued, loginPc, task, wrong, abandoned>>
        /\ UNCHANGED <<creds, logout>>
    BY <1>8 DEF loginVars
  <2>2. creds' \in Seq(Cred) /\ logout' \in Seq(Cred)
    BY <2>1 DEF LoginIInv, LoginTypeOK
  <2>3. \A db : KnownHere(db) => KnownHere(db)'
    BY <2>1 DEF KnownHere
  <2>. QED
    BY <2>1, <2>2, <2>3, LogoutsKeepIInv
<1>. QED
  BY <1>1, <1>2, <1>3, <1>4, <1>5, <1>6, <1>7, <1>8 DEF LoginNext

\* auth.go: however logins, logouts and operations on one connection
\* interleave, and wherever it dies, the panic "nonce already cached" is never
\* reached, no nonce is used twice or after the server replaced it, a login
\* that waits for a nonce is not left alone, and the server keeps no login the
\* socket has forgotten.
THEOREM LoginCorrect == LoginSpec => []LoginInv
<1>1. LoginInit => LoginIInv
  BY InitLoginIInv
<1>2. LoginIInv /\ [LoginNext]_loginVars => LoginIInv'
  BY LoginStepKeepsIInv
<1>3. LoginIInv => LoginInv
  BY LoginIInvImplies
<1>. QED
  BY <1>1, <1>2, <1>3, PTL DEF LoginSpec

----------------------------------------------------------------------------
(* The pool                                                                *)

USE PoolAssumption

Held == {"connected", "holding"}
Carried == {"popped", "recycling"}

Users == {c \in Goroutines : pc[c] \in Held}
Alive == {s \in Sockets : status[s] = "alive"}
InUse == {s \in Sockets : references[s] > 0}

Places == {"idle", "acquiring", "popped", "dialing", "connected",
           "holding", "recycling", "pinged", "stopped"}

LEMMA Finite ==
  /\ IsFiniteSet(Goroutines)
  /\ \A s : IsFiniteSet(Owners(s))
  /\ IsFiniteSet(Users) /\ IsFiniteSet(Alive) /\ IsFiniteSet(InUse)
<1>1. IsFiniteSet(Goroutines)
  BY FS_AddElement DEF Goroutines
<1>2. \A s : Owners(s) \subseteq Goroutines
  BY DEF Owners
<1>3. Users \subseteq Goroutines /\ Alive \subseteq Sockets /\ InUse \subseteq Sockets
  BY DEF Users, Alive, InUse
<1>. QED
  BY <1>1, <1>2, <1>3, FS_Subset

----------------------------------------------------------------------------
(* Who has a socket after a goroutine moved                                *)

LEMMA Moved ==
  ASSUME TypeOK, NEW c \in Goroutines, NEW to \in Places, NEW s, Goto(c, to, s)
  PROVE  /\ \A x \in Sockets :
              /\ Owners(x)' = IF to \in Held /\ x = s THEN Owners(x) \cup {c}
                                                      ELSE Owners(x) \ {c}
              /\ Carriers(x)' = IF to \in Carried /\ x = s THEN Carriers(x) \cup {c}
                                                           ELSE Carriers(x) \ {c}
         /\ Users' = IF to \in Held THEN Users \cup {c} ELSE Users \ {c}
<1>1. \A d \in Goroutines : /\ pc'[d] = IF d = c THEN to ELSE pc[d]
                            /\ sock'[d] = IF d = c THEN s ELSE sock[d]
  BY DEF TypeOK, Goto
<1>2. ASSUME NEW x \in Sockets
      PROVE  Owners(x)' = IF to \in Held /\ x = s THEN Owners(x) \cup {c}
                                                  ELSE Owners(x) \ {c}
  BY <1>1 DEF Owners, Held
<1>3. ASSUME NEW x \in Sockets
      PROVE  Carriers(x)' = IF to \in Carried /\ x = s THEN Carriers(x) \cup {c}
                                                       ELSE Carriers(x) \ {c}
  BY <1>1 DEF Carriers, Carried
<1>4. Users' = IF to \in Held THEN Users \cup {c} ELSE Users \ {c}
  BY <1>1 DEF Users, Held
<1>. QED
  BY <1>2, <1>3, <1>4

LEMMA MovedType ==
  ASSUME TypeOK, NEW c \in Goroutines, NEW to \in Places,
         NEW s \in Sockets \cup {NoSocket}, Goto(c, to, s)
  PROVE  /\ pc' \in [Goroutines -> Places]
         /\ sock' \in [Goroutines -> Sockets \cup {NoSocket}]
         /\ pc'[c] = to /\ sock'[c] = s
         /\ \A d \in Goroutines \ {c} : pc'[d] = pc[d] /\ sock'[d] = sock[d]
BY DEF TypeOK, Goto, Places

\* Nobody has the socket of a goroutine that has none.
LEMMA EmptyHands ==
  ASSUME TypeOK, NEW c \in Goroutines, sock[c] = NoSocket
  PROVE  \A x \in Sockets : c \notin Owners(x) /\ c \notin Carriers(x)
BY DEF Owners, Carriers

\* A goroutine has no other socket than the one in its hands.
LEMMA OneSocket ==
  ASSUME NEW c \in Goroutines, NEW x \in Sockets, x # sock[c]
  PROVE  c \notin Owners(x) /\ c \notin Carriers(x)
BY DEF Owners, Carriers

----------------------------------------------------------------------------
(* The count of the references                                             *)

LEMMA CountKept ==
  ASSUME ReferencesExact, references' = references,
         \A x \in Sockets : Owners(x)' = Owners(x)
  PROVE  ReferencesExact'
BY DEF ReferencesExact

LEMMA CountGained ==
  ASSUME TypeOK, ReferencesExact, NEW c, NEW s \in Sockets, c \notin Owners(s),
         references' = [references EXCEPT ![s] = references[s] + 1],
         \A x \in Sockets : Owners(x)' = IF x = s THEN Owners(x) \cup {c} ELSE Owners(x)
  PROVE  /\ ReferencesExact'
         /\ references' \in [Sockets -> Nat]
         /\ Cardinality(InUse') = IF references[s] = 0 THEN Cardinality(InUse) + 1
                                                       ELSE Cardinality(InUse)
<1>1. Cardinality(Owners(s) \cup {c}) = Cardinality(Owners(s)) + 1
  BY Finite, FS_AddElement
<1>2. references \in [Sockets -> Nat]
  BY DEF TypeOK
<1>3. \A x \in Sockets :
        references'[x] = IF x = s THEN references[x] + 1 ELSE references[x]
  BY <1>2
<1>4. ReferencesExact'
  BY <1>1, <1>3 DEF ReferencesExact
<1>5. InUse' = InUse \cup {s}
  BY <1>2, <1>3 DEF InUse
<1>6. s \in InUse <=> references[s] # 0
  BY <1>2 DEF InUse
<1>7. Cardinality(InUse') = IF s \in InUse THEN Cardinality(InUse)
                                           ELSE Cardinality(InUse) + 1
  BY <1>5, Finite, FS_AddElement
<1>8. references' \in [Sockets -> Nat]
  BY <1>2
<1>. QED
  BY <1>4, <1>6, <1>7, <1>8

LEMMA CountLost ==
  ASSUME TypeOK, ReferencesExact, NEW c, NEW s \in Sockets, c \in Owners(s),
         references' = [references EXCEPT ![s] = references[s] - 1],
         \A x \in Sockets : Owners(x)' = IF x = s THEN Owners(x) \ {c} ELSE Owners(x)
  PROVE  /\ ReferencesExact'
         /\ references' \in [Sockets -> Nat]
         /\ references[s] > 0
         /\ Cardinality(InUse') = IF references[s] = 1 THEN Cardinality(InUse) - 1
                                                       ELSE Cardinality(InUse)
<1>1. Cardinality(Owners(s) \ {c}) = Cardinality(Owners(s)) - 1
  BY Finite, FS_RemoveElement
<1>2. references \in [Sockets -> Nat]
  BY DEF TypeOK
<1>3. references[s] > 0
  BY <1>2, Finite, FS_EmptySet DEF ReferencesExact
<1>4. \A x \in Sockets :
        references'[x] = IF x = s THEN references[x] - 1 ELSE references[x]
  BY <1>2
<1>5. ReferencesExact'
  BY <1>1, <1>4 DEF ReferencesExact
<1>6. InUse' = IF references[s] = 1 THEN InUse \ {s} ELSE InUse
  BY <1>2, <1>3, <1>4 DEF InUse
<1>7. s \in InUse
  BY <1>3 DEF InUse
<1>8. references' \in [Sockets -> Nat]
  BY <1>2, <1>3
<1>9. Cardinality(InUse \ {s}) = Cardinality(InUse) - 1
  BY <1>7, Finite, FS_RemoveElement
<1>. QED
  BY <1>3, <1>5, <1>6, <1>8, <1>9

\* A socket without references has no owner, and the other way round; one
\* with a single reference has a single owner.
LEMMA Counted ==
  ASSUME TypeOK, ReferencesExact, NEW s \in Sockets
  PROVE  /\ references[s] \in Nat
         /\ references[s] = 0 <=> Owners(s) = {}
         /\ references[s] = 1 => \A c \in Owners(s) : Owners(s) = {c}
<1>1. references[s] \in Nat /\ references[s] = Cardinality(Owners(s))
  BY DEF TypeOK, ReferencesExact
<1>2. references[s] = 0 <=> Owners(s) = {}
  BY <1>1, Finite, FS_EmptySet
<1>3. ASSUME references[s] = 1, NEW c \in Owners(s)
      PROVE  Owners(s) = {c}
  <2>1. PICK d : Owners(s) = {d}
    BY <1>1, <1>3, Finite, FS_Singleton
  <2>. QED
    BY <2>1
<1>. QED
  BY <1>1, <1>2, <1>3

\* The counters in terms of the sets they count.
LEMMA StatsSets ==
  /\ StatsExact <=> /\ stats.alive = Cardinality(Alive)
                    /\ stats.inUse = Cardinality(InUse)
                    /\ stats.refs = Cardinality(Users)
  /\ StatsExact' <=> /\ stats'.alive = Cardinality(Alive')
                     /\ stats'.inUse = Cardinality(InUse')
                     /\ stats'.refs = Cardinality(Users')
BY DEF StatsExact, Alive, InUse, Users, Held

\* A socket that had one owner until now has had time for no other.
LEMMA StillAlone ==
  ASSUME PoolInv, NEW c \in Goroutines, NEW to \in Places \ {"connected"},
         NEW s \in Sockets \cup {NoSocket}, Goto(c, to, s),
         \A x \in Sockets : Owners(x)' \subseteq Owners(x)
  PROVE  \A x \in Sockets : \A d \in Owners(x)' :
           pc'[d] = "connected" => Owners(x)' = {d}
<1> SUFFICES ASSUME NEW x \in Sockets, NEW d \in Owners(x)', pc'[d] = "connected"
             PROVE  Owners(x)' = {d}
  OBVIOUS
<1>1. d \in Goroutines /\ d # c
  BY MovedType DEF Owners, PoolInv
<1>2. pc[d] = "connected"
  BY <1>1, MovedType DEF PoolInv
<1>3. Owners(x) = {d}
  BY <1>2 DEF PoolInv, InHand
<1>. QED
  BY <1>3

\* kill: one live socket less.
LEMMA PoolKilled ==
  ASSUME TypeOK, NEW s \in Sockets, Kill(s)
  PROVE  /\ status' \in [Sockets -> {"none", "alive", "dead"}]
         /\ \A x \in Sockets : status'[x] = IF x = s THEN "dead" ELSE status[x]
         /\ stats' \in [alive : Int, inUse : Int, refs : Int]
         /\ stats'.inUse = stats.inUse /\ stats'.refs = stats.refs
         /\ stats'.alive = stats.alive - 1
         /\ Cardinality(Alive') = Cardinality(Alive) - 1
<1>1. \A x \in Sockets : status'[x] = IF x = s THEN "dead" ELSE status[x]
  BY DEF Kill, TypeOK
<1>2. Alive' = Alive \ {s} /\ s \in Alive
  BY <1>1 DEF Alive, Kill
<1>3. Cardinality(Alive') = Cardinality(Alive) - 1
  BY <1>2, Finite, FS_RemoveElement
<1>. QED
  BY <1>1, <1>3 DEF Kill, TypeOK
----------------------------------------------------------------------------
(* PoolInv holds at first, and after every step                            *)

LEMMA PoolInit == Init => PoolInv
<1> SUFFICES ASSUME Init PROVE PoolInv
  OBVIOUS
<1>1. \A s \in Sockets : Owners(s) = {} /\ Carriers(s) = {}
  BY DEF Init, Owners, Carriers
<1>2. Users = {} /\ Alive = {} /\ InUse = {}
  BY DEF Init, Users, Held, Alive, InUse
<1>3. StatsExact
  <2>1. stats.alive = 0 /\ stats.inUse = 0 /\ stats.refs = 0
    BY DEF Init
  <2>. QED
    BY <1>2, <2>1, StatsSets, FS_EmptySet
<1>4. TypeOK
  <2>1. stats \in [alive : Int, inUse : Int, refs : Int]
    BY DEF Init
  <2>2. /\ status \in [Sockets -> {"none", "alive", "dead"}]
        /\ references \in [Sockets -> Nat]
    BY DEF Init
  <2>3. /\ pc \in [Goroutines -> {"idle"}]
        /\ sock \in [Goroutines -> Sockets \cup {NoSocket}]
    BY DEF Init
  <2>. QED
    BY <2>1, <2>2, <2>3 DEF Init, TypeOK
<1>5. InHand
  BY <1>1 DEF Init, InHand
<1>6. ReferencesExact
  BY <1>1, FS_EmptySet DEF Init, ReferencesExact
<1>7. NoPanic /\ NoDoubleRecycle /\ NothingLost
  BY <1>1 DEF Init, NoPanic, NoDoubleRecycle, NothingLost
<1>. QED
  BY <1>3, <1>4, <1>5, <1>6, <1>7 DEF PoolInv

\* Call, RefuseClosed, RefuseLimit, Dial, ConnectFails, AfterPing: a
\* goroutine without a socket moves on without one.
LEMMA EmptyMove ==
  ASSUME PoolInv, NEW c \in Goroutines, NEW to \in Places \ (Held \cup Carried),
         pc[c] \notin Held \cup Carried, Goto(c, to, NoSocket),
         UNCHANGED <<server, sockets>>
  PROVE  PoolInv'
<1> USE DEF PoolInv
<1>1. sock[c] = NoSocket
  BY DEF InHand, Held, Carried
<1>2. \A x \in Sockets : Owners(x)' = Owners(x) /\ Carriers(x)' = Carriers(x)
  BY <1>1, Moved, EmptyHands
<1>3. Users' = Users /\ Alive' = Alive /\ InUse' = InUse
  BY Moved DEF Users, Alive, InUse, sockets
<1>4. TypeOK'
  BY MovedType DEF TypeOK, server, sockets, Places
<1>5. InHand'
  <2>1. \A d \in Goroutines : pc'[d] \in Held \cup Carried <=> sock'[d] # NoSocket
    BY MovedType DEF InHand, Held, Carried
  <2>2. ASSUME NEW s \in Sockets, NEW d \in Owners(s), pc'[d] = "connected"
        PROVE  Owners(s)' = {d}
    BY <1>2, <2>2, MovedType DEF InHand, Owners, Held
  <2>3. \A s \in Sockets : \A d \in Owners(s)' : pc'[d] = "connected" => Owners(s)' = {d}
    BY <1>2, <2>2
  <2>. QED
    BY <1>2, <2>1, <2>3 DEF InHand, server, sockets, Held, Carried
<1>6. ReferencesExact'
  BY <1>2, CountKept DEF sockets
<1>7. NoDoubleRecycle' /\ NothingLost' /\ NoPanic'
  BY <1>2 DEF NoDoubleRecycle, NothingLost, NoPanic, server, sockets
<1>8. StatsExact'
  BY <1>3, StatsSets DEF sockets, StatsExact, Alive, InUse, Users, Held
<1>. QED
  BY <1>4, <1>5, <1>6, <1>7, <1>8

LEMMA PopUnusedInv == ASSUME PoolInv, NEW c \in Goroutines, PopUnused(c) PROVE PoolInv'
<1> USE DEF PoolInv
<1>1. PICK s \in unused : unused' = unused \ {s} /\ Goto(c, "popped", s)
  BY DEF PopUnused
<1>2. s \in Sockets /\ sock[c] = NoSocket /\ pc[c] \notin Held
  BY DEF TypeOK, InHand, PopUnused, Held
<1>3. \A x \in Sockets : /\ Owners(x)' = Owners(x)
                         /\ Carriers(x)' = IF x = s THEN {c} ELSE Carriers(x)
  BY <1>1, <1>2, Moved, EmptyHands DEF Places, Held, Carried, NoDoubleRecycle
<1>4. Users' = Users /\ Alive' = Alive /\ InUse' = InUse
  BY <1>1, <1>2, Moved DEF PopUnused, Places, Held, Users, Alive, InUse, sockets
<1>5. TypeOK'
  BY <1>1, <1>2, MovedType DEF TypeOK, PopUnused, sockets, Places
<1>6. InHand'
  <2>1. \A d \in Goroutines : pc'[d] \in Held \cup Carried <=> sock'[d] # NoSocket
    BY <1>1, <1>2, MovedType DEF InHand, Held, Carried, Places
  <2>2. \A x \in Sockets : status'[x] = "none" =>
          x \notin unused' /\ Owners(x)' = {} /\ Carriers(x)' = {}
    BY <1>1, <1>3 DEF InHand, PopUnused, sockets
  <2>3. \A x \in Sockets : \A d \in Owners(x)' : pc'[d] = "connected" => Owners(x)' = {d}
    BY <1>1, <1>2, <1>3, StillAlone DEF Places
  <2>. QED
    BY <2>1, <2>2, <2>3 DEF InHand, PopUnused, sockets, Held, Carried
<1>7. ReferencesExact'
  BY <1>3, CountKept DEF PopUnused, sockets
<1>8. NoDoubleRecycle' /\ NothingLost' /\ NoPanic'
  BY <1>1, <1>3 DEF NoDoubleRecycle, NothingLost, NoPanic, PopUnused, sockets
<1>9. StatsExact'
  BY <1>4, StatsSets DEF PopUnused, sockets
<1>. QED
  BY <1>5, <1>6, <1>7, <1>8, <1>9

LEMMA RecycleInv == ASSUME PoolInv, NEW c \in Goroutines, RecycleSocket(c) PROVE PoolInv'
<1> USE DEF PoolInv
<1> DEFINE s == sock[c]
<1>1. /\ s \in Sockets /\ Rest(c) \in Places \ (Held \cup Carried)
      /\ pc[c] \notin Held /\ Goto(c, Rest(c), NoSocket)
  BY DEF TypeOK, InHand, RecycleSocket, Rest, Places, Held, Carried
<1>2. c \in Carriers(s)
  BY DEF Carriers, RecycleSocket
<1>3. Carriers(s) = {c} /\ Owners(s) = {} /\ s \notin unused /\ status[s] # "none"
  BY <1>1, <1>2 DEF NoDoubleRecycle, InHand
<1>4. \A x \in Sockets : /\ Owners(x)' = Owners(x)
                         /\ Carriers(x)' = IF x = s THEN {} ELSE Carriers(x)
  <2>1. \A x \in Sockets : /\ Owners(x)' = Owners(x) \ {c}
                           /\ Carriers(x)' = Carriers(x) \ {c}
    BY <1>1, Moved
  <2>2. \A x \in Sockets : c \notin Owners(x) /\ (x # s => c \notin Carriers(x))
    BY <1>1 DEF Owners, Carriers, Held
  <2>3. \A x \in Sockets : /\ Owners(x) \ {c} = Owners(x)
                           /\ x # s => Carriers(x) \ {c} = Carriers(x)
    BY <2>2
  <2>4. Carriers(s) \ {c} = {}
    BY <1>3
  <2>. QED
    BY <2>1, <2>3, <2>4
<1>5. Users' = Users /\ Alive' = Alive /\ InUse' = InUse
  BY <1>1, Moved DEF RecycleSocket, Users, Alive, InUse, sockets
<1>6. unused' = IF closed THEN unused ELSE unused \cup {s}
  BY DEF RecycleSocket
<1>7. TypeOK'
  BY <1>1, <1>6, MovedType DEF TypeOK, RecycleSocket, sockets, Places
<1>8. InHand'
  <2>1. \A d \in Goroutines : pc'[d] \in Held \cup Carried <=> sock'[d] # NoSocket
    BY <1>1, MovedType DEF InHand, Held, Carried
  <2>2. \A x \in Sockets : status'[x] = "none" =>
          x \notin unused' /\ Owners(x)' = {} /\ Carriers(x)' = {}
    BY <1>3, <1>4, <1>6 DEF InHand, RecycleSocket, sockets
  <2>3. \A x \in Sockets : \A d \in Owners(x)' : pc'[d] = "connected" => Owners(x)' = {d}
    BY <1>1, <1>4, StillAlone DEF Held
  <2>. QED
    BY <2>1, <2>2, <2>3 DEF InHand, RecycleSocket, sockets, Held, Carried
<1>9. ReferencesExact'
  BY <1>4, CountKept DEF RecycleSocket, sockets
<1>10. NoDoubleRecycle' /\ NothingLost' /\ NoPanic'
  BY <1>3, <1>4, <1>6 DEF NoDoubleRecycle, NothingLost, NoPanic, RecycleSocket, sockets
<1>11. StatsExact'
  BY <1>5, StatsSets DEF RecycleSocket, sockets
<1>. QED
  BY <1>7, <1>8, <1>9, <1>10, <1>11

LEMMA RecordInv == ASSUME PoolInv, NEW c \in Goroutines, Record(c) PROVE PoolInv'
<1> USE DEF PoolInv
<1> DEFINE s == sock[c]
<1>1. s \in Sockets /\ pc[c] = "connected" /\ Goto(c, "holding", s)
  BY DEF TypeOK, InHand, Record
<1>2. c \in Owners(s) /\ c \in Users
  BY <1>1 DEF Owners, Users, Held
<1>3. \A x \in Sockets : Owners(x)' = Owners(x) /\ Carriers(x)' = Carriers(x)
  <2>1. \A x \in Sockets : c \notin Carriers(x) /\ (x # s => c \notin Owners(x))
    BY <1>1 DEF Owners, Carriers
  <2>2. \A x \in Sockets :
          /\ Owners(x)' = IF x = s THEN Owners(x) \cup {c} ELSE Owners(x) \ {c}
          /\ Carriers(x)' = Carriers(x) \ {c}
    BY <1>1, Moved DEF Places, Held, Carried
  <2>3. \A x \in Sockets : /\ Carriers(x) \ {c} = Carriers(x)
                           /\ x # s => Owners(x) \ {c} = Owners(x)
    BY <2>1
  <2>4. Owners(s) \cup {c} = Owners(s)
    BY <1>2
  <2>. QED
    BY <2>2, <2>3, <2>4
<1>4. Users' = Users /\ Alive' = Alive /\ InUse' = InUse
  <2>1. Users' = Users \cup {c}
    BY <1>1, Moved DEF Places, Held
  <2>2. Users \cup {c} = Users
    BY <1>2
  <2>. QED
    BY <2>1, <2>2 DEF Record, Alive, InUse, sockets
<1>5. TypeOK'
  BY <1>1, MovedType DEF TypeOK, Record, sockets, Places
<1>6. InHand'
  <2>1. \A d \in Goroutines : pc'[d] \in Held \cup Carried <=> sock'[d] # NoSocket
    BY <1>1, MovedType DEF InHand, Held, Carried, Places
  <2>2. \A x \in Sockets : status'[x] = "none" =>
          x \notin unused' /\ Owners(x)' = {} /\ Carriers(x)' = {}
    BY <1>3 DEF InHand, Record, sockets
  <2>3. \A x \in Sockets : \A d \in Owners(x)' : pc'[d] = "connected" => Owners(x)' = {d}
    BY <1>1, <1>3, StillAlone DEF Places
  <2>. QED
    BY <2>1, <2>2, <2>3 DEF InHand, Record, sockets, Held, Carried
<1>7. ReferencesExact'
  BY <1>3, CountKept DEF Record, sockets
<1>8. NoDoubleRecycle' /\ NothingLost' /\ NoPanic'
  BY <1>3 DEF NoDoubleRecycle, NothingLost, NoPanic, Record, sockets
<1>9. StatsExact'
  BY <1>4, StatsSets DEF Record, sockets
<1>. QED
  BY <1>5, <1>6, <1>7, <1>8, <1>9

\* A cached socket that died goes back to nobody; one that lives gets its
\* first reference.  A reference already there would be the panic.
LEMMA InitialAcquireInv ==
  ASSUME PoolInv, NEW c \in Goroutines, InitialAcquire(c) PROVE PoolInv'
<1> USE DEF PoolInv
<1> DEFINE s == sock[c]
<1>1. s \in Sockets /\ pc[c] = "popped"
  BY DEF TypeOK, InHand, InitialAcquire
<1>2. c \in Carriers(s)
  BY <1>1 DEF Carriers
<1>3. Carriers(s) = {c} /\ Owners(s) = {} /\ s \notin unused /\ status[s] # "none"
  BY <1>1, <1>2 DEF NoDoubleRecycle, InHand
<1>4. references[s] = 0
  BY <1>1, <1>3, Counted
<1>5. c \notin Users /\ \A x \in Sockets : c \notin Owners(x) /\ (x # s => c \notin Carriers(x))
  BY <1>1 DEF Owners, Carriers, Users, Held
<1>6. \A x \in Sockets : /\ Owners(x) \ {c} = Owners(x)
                         /\ x # s => Carriers(x) \ {c} = Carriers(x)
  BY <1>5
<1>7. Carriers(s) \ {c} = {}
  BY <1>3
<1>8. CASE status[s] = "dead" /\ Goto(c, "acquiring", NoSocket)
           /\ UNCHANGED <<status, references, stats, panicked>>
  <2>1. \A x \in Sockets : /\ Owners(x)' = Owners(x)
                           /\ Carriers(x)' = IF x = s THEN {} ELSE Carriers(x)
    <3>1. \A x \in Sockets : /\ Owners(x)' = Owners(x) \ {c}
                             /\ Carriers(x)' = Carriers(x) \ {c}
      BY <1>8, Moved DEF Places, Held, Carried
    <3>. QED
      BY <1>6, <1>7, <3>1
  <2>2. Users' = Users /\ Alive' = Alive /\ InUse' = InUse
    BY <1>5, <1>8, Moved DEF Places, Held, Alive, InUse
  <2>3. TypeOK'
    BY <1>8, MovedType DEF TypeOK, InitialAcquire, server, Places
  <2>4. InHand'
    <3>1. \A d \in Goroutines : pc'[d] \in Held \cup Carried <=> sock'[d] # NoSocket
      BY <1>8, MovedType DEF InHand, Held, Carried, Places
    <3>2. \A x \in Sockets : status'[x] = "none" =>
            x \notin unused' /\ Owners(x)' = {} /\ Carriers(x)' = {}
      BY <1>8, <2>1 DEF InHand, InitialAcquire, server
    <3>3. \A x \in Sockets : \A d \in Owners(x)' : pc'[d] = "connected" => Owners(x)' = {d}
      BY <1>8, <2>1, StillAlone DEF Places
    <3>. QED
      BY <1>8, <3>1, <3>2, <3>3 DEF InHand, InitialAcquire, Held, Carried
  <2>5. ReferencesExact'
    BY <1>8, <2>1, CountKept
  <2>6. NoDoubleRecycle' /\ NothingLost' /\ NoPanic'
    BY <1>1, <1>8, <2>1 DEF NoDoubleRecycle, NothingLost, NoPanic, InitialAcquire, server
  <2>7. StatsExact'
    BY <1>8, <2>2, StatsSets
  <2>. QED
    BY <2>3, <2>4, <2>5, <2>6, <2>7
<1>9. CASE /\ references' = [references EXCEPT ![s] = 1]
           /\ stats' = [stats EXCEPT !.inUse = @ + 1, !.refs = @ + 1]
           /\ Goto(c, "holding", s)
           /\ UNCHANGED <<status, panicked>>
  <2>1. \A x \in Sockets : /\ Owners(x)' = IF x = s THEN {c} ELSE Owners(x)
                           /\ Carriers(x)' = IF x = s THEN {} ELSE Carriers(x)
    <3>1. \A x \in Sockets :
            /\ Owners(x)' = IF x = s THEN Owners(x) \cup {c} ELSE Owners(x) \ {c}
            /\ Carriers(x)' = Carriers(x) \ {c}
      BY <1>9, Moved DEF Places, Held, Carried
    <3>2. Owners(s) \cup {c} = {c}
      BY <1>3
    <3>. QED
      BY <1>6, <1>7, <3>1, <3>2
  <2>2. Users' = Users \cup {c} /\ Alive' = Alive
    BY <1>9, Moved DEF Places, Held, Alive
  <2>3. /\ ReferencesExact' /\ references' \in [Sockets -> Nat]
        /\ Cardinality(InUse') = Cardinality(InUse) + 1
    <3>1. references' = [references EXCEPT ![s] = references[s] + 1]
      BY <1>4, <1>9
    <3>2. \A x \in Sockets : Owners(x)' = IF x = s THEN Owners(x) \cup {c} ELSE Owners(x)
      BY <1>3, <2>1
    <3>. QED
      BY <1>1, <1>4, <1>5, <3>1, <3>2, CountGained
  <2>4. TypeOK'
    <3>1. stats' \in [alive : Int, inUse : Int, refs : Int]
      <4>1. stats \in [alive : Int, inUse : Int, refs : Int]
        BY DEF TypeOK
      <4>2. stats.inUse + 1 \in Int /\ stats.refs + 1 \in Int
        BY <4>1
      <4>. QED
        BY <1>9, <4>1, <4>2, Zenon
    <3>. QED
      BY <1>1, <1>9, <2>3, <3>1, MovedType DEF TypeOK, InitialAcquire, server, Places
  <2>5. InHand'
    <3>1. \A d \in Goroutines : pc'[d] \in Held \cup Carried <=> sock'[d] # NoSocket
      BY <1>1, <1>9, MovedType DEF InHand, Held, Carried, Places
    <3>2. \A x \in Sockets : status'[x] = "none" =>
            x \notin unused' /\ Owners(x)' = {} /\ Carriers(x)' = {}
      BY <1>3, <1>9, <2>1 DEF InHand, InitialAcquire, server
    <3>3. \A x \in Sockets : \A d \in Owners(x)' : pc'[d] = "connected" => Owners(x)' = {d}
      <4> SUFFICES ASSUME NEW x \in Sockets, NEW d \in Owners(x)', pc'[d] = "connected"
                   PROVE  Owners(x)' = {d}
        OBVIOUS
      <4>1. pc'[c] = "holding"
        BY <1>1, <1>9, MovedType DEF Places
      <4>2. d # c /\ x # s /\ d \in Owners(x)
        BY <2>1, <4>1
      <4>3. pc[d] = "connected"
        BY <1>1, <1>9, <4>2, MovedType DEF Places, Owners
      <4>. QED
        BY <2>1, <4>2, <4>3 DEF InHand
    <3>. QED
      BY <1>9, <3>1, <3>2, <3>3 DEF InHand, InitialAcquire, Held, Carried
  <2>6. NoDoubleRecycle' /\ NothingLost' /\ NoPanic'
    BY <1>3, <1>9, <2>1 DEF NoDoubleRecycle, NothingLost, NoPanic, InitialAcquire, server
  <2>7. StatsExact'
    <3>1. Cardinality(Users') = Cardinality(Users) + 1
      BY <1>5, <2>2, Finite, FS_AddElement
    <3>2. /\ stats'.alive = stats.alive /\ stats'.inUse = stats.inUse + 1
          /\ stats'.refs = stats.refs + 1
      BY <1>9 DEF TypeOK
    <3>. QED
      BY <2>2, <2>3, <3>1, <3>2, StatsSets
  <2>. QED
    BY <2>3, <2>4, <2>5, <2>6, <2>7
<1>. QED
  BY <1>1, <1>4, <1>8, <1>9 DEF InitialAcquire

LEMMA ConnectInv == ASSUME PoolInv, NEW c \in Goroutines, Connect(c) PROVE PoolInv'
<1> USE DEF PoolInv
<1>1. PICK s \in Sockets :
        /\ status[s] = "none"
        /\ status' = [status EXCEPT ![s] = "alive"]
        /\ references' = [references EXCEPT ![s] = 1]
        /\ Goto(c, "connected", s)
  BY DEF Connect
<1>2. /\ stats' = [alive |-> stats.alive + 1, inUse |-> stats.inUse + 1,
                   refs |-> stats.refs + 1]
      /\ UNCHANGED <<server, abending, doomed, panicked>>
  BY DEF Connect
<1>3. pc[c] = "dialing" /\ sock[c] = NoSocket
  BY DEF Connect, InHand
<1>4. s \notin unused /\ Owners(s) = {} /\ Carriers(s) = {} /\ references[s] = 0
  BY <1>1, Counted DEF InHand
<1>5. \A x \in Sockets : /\ Owners(x)' = IF x = s THEN {c} ELSE Owners(x)
                         /\ Carriers(x)' = Carriers(x)
  <2>1. \A x \in Sockets :
          /\ Owners(x)' = IF x = s THEN Owners(x) \cup {c} ELSE Owners(x) \ {c}
          /\ Carriers(x)' = Carriers(x) \ {c}
    BY <1>1, Moved DEF Places, Held, Carried
  <2>2. \A x \in Sockets : Owners(x) \ {c} = Owners(x) /\ Carriers(x) \ {c} = Carriers(x)
    BY <1>3, EmptyHands
  <2>3. Owners(s) \cup {c} = {c}
    BY <1>4
  <2>. QED
    BY <2>1, <2>2, <2>3
<1>6. /\ ReferencesExact' /\ references' \in [Sockets -> Nat]
      /\ Cardinality(InUse') = Cardinality(InUse) + 1
  <2>1. references' = [references EXCEPT ![s] = references[s] + 1]
    BY <1>1, <1>4
  <2>2. \A x \in Sockets : Owners(x)' = IF x = s THEN Owners(x) \cup {c} ELSE Owners(x)
    BY <1>4, <1>5
  <2>. QED
    BY <1>4, <2>1, <2>2, CountGained
<1>7. \A x \in Sockets : status'[x] = IF x = s THEN "alive" ELSE status[x]
  BY <1>1 DEF TypeOK
<1>8. TypeOK'
  <2>1. status' \in [Sockets -> {"none", "alive", "dead"}]
    BY <1>1 DEF TypeOK
  <2>2. stats' \in [alive : Int, inUse : Int, refs : Int]
    BY <1>2 DEF TypeOK
  <2>. QED
    BY <1>1, <1>2, <1>6, <2>1, <2>2, MovedType DEF TypeOK, server, Places
<1>9. InHand'
  <2>1. \A d \in Goroutines : pc'[d] \in Held \cup Carried <=> sock'[d] # NoSocket
    BY <1>1, MovedType DEF InHand, Held, Carried, Places
  <2>2. \A x \in Sockets : status'[x] = "none" =>
          x \notin unused' /\ Owners(x)' = {} /\ Carriers(x)' = {}
    BY <1>2, <1>5, <1>7 DEF InHand, server
  <2>3. \A x \in Sockets : \A d \in Owners(x)' : pc'[d] = "connected" => Owners(x)' = {d}
    <3> SUFFICES ASSUME NEW x \in Sockets \ {s}, NEW d \in Owners(x), pc'[d] = "connected"
                 PROVE  Owners(x) = {d}
      BY <1>5
    <3>1. d # c
      BY <1>3, EmptyHands
    <3>2. pc[d] = "connected"
      BY <1>1, <3>1, MovedType DEF Places, Owners
    <3>. QED
      BY <3>2 DEF InHand
  <2>4. \A x \in abending' : status'[x] = "dead"
    BY <1>1, <1>2, <1>7 DEF InHand, TypeOK
  <2>. QED
    BY <2>1, <2>2, <2>3, <2>4 DEF InHand, Held, Carried
<1>10. NoDoubleRecycle' /\ NothingLost' /\ NoPanic'
  BY <1>2, <1>4, <1>5, <1>7 DEF NoDoubleRecycle, NothingLost, NoPanic, server
<1>11. StatsExact'
  <2>1. Users' = Users \cup {c} /\ c \notin Users
    BY <1>1, <1>3, Moved DEF Places, Held, Users
  <2>2. Cardinality(Users') = Cardinality(Users) + 1
    BY <2>1, Finite, FS_AddElement
  <2>3. Alive' = Alive \cup {s} /\ s \notin Alive
    BY <1>1, <1>7 DEF Alive
  <2>4. Cardinality(Alive') = Cardinality(Alive) + 1
    BY <2>3, Finite, FS_AddElement
  <2>5. /\ stats'.alive = stats.alive + 1 /\ stats'.inUse = stats.inUse + 1
        /\ stats'.refs = stats.refs + 1
    BY <1>2
  <2>. QED
    BY <1>6, <2>2, <2>4, <2>5, StatsSets
<1>. QED
  BY <1>6, <1>8, <1>9, <1>10, <1>11

\* The socket of a goroutine that comes too late is its own alone, so that
\* the one Release gives it back.
LEMMA DropLateInv == ASSUME PoolInv, NEW c \in Goroutines, DropLate(c) PROVE PoolInv'
<1> USE DEF PoolInv
<1> DEFINE s == sock[c]
           to == IF c = Pinger THEN "stopped" ELSE "idle"
<1>1. /\ s \in Sockets /\ pc[c] = "connected" /\ to \in Places \ (Held \cup Carried)
      /\ Goto(c, to, NoSocket) /\ closed
  BY DEF TypeOK, InHand, DropLate, Places, Held, Carried
<1>2. c \in Owners(s) /\ c \in Users
  BY <1>1 DEF Owners, Users, Held
<1>3. Owners(s) = {c} /\ references[s] = 1
  <2>1. Owners(s) = {c}
    BY <1>1, <1>2 DEF InHand
  <2>. QED
    BY <1>1, <2>1, FS_Singleton DEF ReferencesExact
<1>4. /\ references' = [references EXCEPT ![s] = references[s] - 1]
      /\ status' = [status EXCEPT ![s] = "dead"]
      /\ stats' = [alive |-> IF status[s] = "alive" THEN stats.alive - 1 ELSE stats.alive,
                   inUse |-> stats.inUse - 1, refs |-> stats.refs - 1]
      /\ UNCHANGED <<server, abending, doomed, panicked>>
  BY DEF DropLate
<1>5. \A x \in Sockets : /\ Owners(x)' = IF x = s THEN {} ELSE Owners(x)
                         /\ Carriers(x)' = Carriers(x)
  <2>1. \A x \in Sockets : Owners(x)' = Owners(x) \ {c} /\ Carriers(x)' = Carriers(x) \ {c}
    BY <1>1, Moved
  <2>2. \A x \in Sockets : c \notin Carriers(x) /\ (x # s => c \notin Owners(x))
    BY <1>1 DEF Owners, Carriers
  <2>3. \A x \in Sockets : /\ Carriers(x) \ {c} = Carriers(x)
                           /\ x # s => Owners(x) \ {c} = Owners(x)
    BY <2>2
  <2>4. Owners(s) \ {c} = {}
    BY <1>3
  <2>. QED
    BY <2>1, <2>3, <2>4
<1>6. /\ ReferencesExact' /\ references' \in [Sockets -> Nat]
      /\ Cardinality(InUse') = Cardinality(InUse) - 1
  <2>1. \A x \in Sockets : Owners(x)' = IF x = s THEN Owners(x) \ {c} ELSE Owners(x)
    BY <1>3, <1>5
  <2>. QED
    BY <1>1, <1>2, <1>3, <1>4, <2>1, CountLost
<1>7. \A x \in Sockets : status'[x] = IF x = s THEN "dead" ELSE status[x]
  BY <1>4 DEF TypeOK
<1>8. TypeOK'
  <2>1. status' \in [Sockets -> {"none", "alive", "dead"}]
    BY <1>4 DEF TypeOK
  <2>2. stats' \in [alive : Int, inUse : Int, refs : Int]
    BY <1>4 DEF TypeOK
  <2>3. /\ pc' \in [Goroutines -> Places]
        /\ sock' \in [Goroutines -> Sockets \cup {NoSocket}]
    BY <1>1, MovedType
  <2>. QED
    BY <1>4, <1>6, <2>1, <2>2, <2>3 DEF TypeOK, server, Places
<1>9. InHand'
  <2>1. \A d \in Goroutines : pc'[d] \in Held \cup Carried <=> sock'[d] # NoSocket
    BY <1>1, MovedType DEF InHand, Held, Carried
  <2>2. \A x \in Sockets : status'[x] = "none" =>
          x \notin unused' /\ Owners(x)' = {} /\ Carriers(x)' = {}
    BY <1>4, <1>5, <1>7 DEF InHand, server
  <2>3. \A x \in Sockets : \A d \in Owners(x)' : pc'[d] = "connected" => Owners(x)' = {d}
    BY <1>1, <1>5, StillAlone DEF Held
  <2>4. \A x \in abending' : status'[x] = "dead"
    BY <1>4, <1>7 DEF InHand, TypeOK
  <2>. QED
    BY <2>1, <2>2, <2>3, <2>4 DEF InHand, Held, Carried
<1>10. NoDoubleRecycle' /\ NothingLost' /\ NoPanic'
  BY <1>1, <1>4, <1>5 DEF NoDoubleRecycle, NothingLost, NoPanic, server
<1>11. StatsExact'
  <2>1. Users' = Users \ {c}
    BY <1>1, Moved
  <2>2. Cardinality(Users') = Cardinality(Users) - 1
    BY <1>2, <2>1, Finite, FS_RemoveElement
  <2>3. Alive' = Alive \ {s} /\ (s \in Alive <=> status[s] = "alive")
    BY <1>1, <1>7 DEF Alive
  <2>4. Cardinality(Alive') = IF status[s] = "alive" THEN Cardinality(Alive) - 1
                                                     ELSE Cardinality(Alive)
    BY <2>3, Finite, FS_RemoveElement
  <2>5. /\ stats'.alive = IF status[s] = "alive" THEN stats.alive - 1 ELSE stats.alive
        /\ stats'.inUse = stats.inUse - 1 /\ stats'.refs = stats.refs - 1
    BY <1>4
  <2>. QED
    BY <1>6, <2>2, <2>4, <2>5, StatsSets
<1>. QED
  BY <1>6, <1>8, <1>9, <1>10, <1>11

\* Whoever shares a socket owns it, so that its count is not 0.
LEMMA AcquireInv ==
  ASSUME PoolInv, NEW c \in Goroutines, NEW d \in Goroutines, Acquire(c, d)
  PROVE  PoolInv'
<1> USE DEF PoolInv
<1> DEFINE s == sock[c]
<1>1. s \in Sockets /\ pc[c] = "holding" /\ pc[d] = "idle" /\ sock[d] = NoSocket
  BY DEF TypeOK, InHand, Acquire
<1>2. c \in Owners(s)
  BY <1>1 DEF Owners
<1>3. references[s] > 0 /\ status[s] # "none" /\ s \notin unused /\ Carriers(s) = {}
  BY <1>1, <1>2, Counted DEF InHand, NoDoubleRecycle
<1>4. /\ references' = [references EXCEPT ![s] = references[s] + 1]
      /\ stats' = [stats EXCEPT !.refs = @ + 1]
      /\ Goto(d, "holding", s)
      /\ UNCHANGED <<server, status, abending, doomed, panicked>>
  BY <1>1, <1>3 DEF Acquire, TypeOK
<1>5. \A x \in Sockets : /\ Owners(x)' = IF x = s THEN Owners(x) \cup {d} ELSE Owners(x)
                         /\ Carriers(x)' = Carriers(x)
  <2>1. \A x \in Sockets :
          /\ Owners(x)' = IF x = s THEN Owners(x) \cup {d} ELSE Owners(x) \ {d}
          /\ Carriers(x)' = Carriers(x) \ {d}
    BY <1>4, Moved DEF Places, Held, Carried
  <2>2. \A x \in Sockets : Owners(x) \ {d} = Owners(x) /\ Carriers(x) \ {d} = Carriers(x)
    BY <1>1, EmptyHands
  <2>. QED
    BY <2>1, <2>2
<1>6. /\ ReferencesExact' /\ references' \in [Sockets -> Nat]
      /\ Cardinality(InUse') = Cardinality(InUse)
  <2>1. d \notin Owners(s)
    BY <1>1, EmptyHands
  <2>2. \A x \in Sockets : Owners(x)' = IF x = s THEN Owners(x) \cup {d} ELSE Owners(x)
    BY <1>5
  <2>3. references[s] # 0
    BY <1>3
  <2>. QED
    BY <1>1, <1>4, <2>1, <2>2, <2>3, CountGained
<1>7. TypeOK'
  <2>1. stats \in [alive : Int, inUse : Int, refs : Int]
    BY DEF TypeOK
  <2>2. stats' \in [alive : Int, inUse : Int, refs : Int]
    BY <1>4, <2>1
  <2>3. /\ pc' \in [Goroutines -> Places]
        /\ sock' \in [Goroutines -> Sockets \cup {NoSocket}]
    BY <1>1, <1>4, MovedType DEF Places
  <2>. QED
    BY <1>4, <1>6, <2>2, <2>3 DEF TypeOK, server, Places
<1>8. InHand'
  <2>1. \A e \in Goroutines : pc'[e] \in Held \cup Carried <=> sock'[e] # NoSocket
    BY <1>1, <1>4, MovedType DEF InHand, Held, Carried, Places
  <2>2. \A x \in Sockets : status'[x] = "none" =>
          x \notin unused' /\ Owners(x)' = {} /\ Carriers(x)' = {}
    BY <1>3, <1>4, <1>5 DEF InHand, server
  <2>3. \A x \in Sockets : \A e \in Owners(x)' : pc'[e] = "connected" => Owners(x)' = {e}
    <3> SUFFICES ASSUME NEW x \in Sockets, NEW e \in Owners(x)', pc'[e] = "connected"
                 PROVE  Owners(x)' = {e}
      OBVIOUS
    <3>1. pc'[d] = "holding"
      BY <1>1, <1>4, MovedType DEF Places
    <3>2. e # d /\ e \in Owners(x)
      BY <1>5, <3>1
    <3>3. pc[e] = "connected"
      BY <1>1, <1>4, <3>2, MovedType DEF Places, Owners
    <3>4. Owners(x) = {e}
      BY <3>2, <3>3 DEF InHand
    <3>5. x # s
      BY <1>1, <1>2, <3>3, <3>4
    <3>. QED
      BY <1>5, <3>4, <3>5
  <2>. QED
    BY <1>4, <2>1, <2>2, <2>3 DEF InHand, Held, Carried
<1>9. NoDoubleRecycle' /\ NothingLost' /\ NoPanic'
  BY <1>3, <1>4, <1>5 DEF NoDoubleRecycle, NothingLost, NoPanic, server
<1>10. StatsExact'
  <2>1. Users' = Users \cup {d} /\ d \notin Users /\ Alive' = Alive
    BY <1>1, <1>4, Moved DEF Places, Held, Users, Alive
  <2>2. Cardinality(Users') = Cardinality(Users) + 1
    BY <2>1, Finite, FS_AddElement
  <2>3. /\ stats'.alive = stats.alive /\ stats'.inUse = stats.inUse
        /\ stats'.refs = stats.refs + 1
    BY <1>4 DEF TypeOK
  <2>. QED
    BY <1>6, <2>1, <2>2, <2>3, StatsSets
<1>. QED
  BY <1>6, <1>7, <1>8, <1>9, <1>10

\* A release that leaves references gives up its own; the last one carries
\* the socket to the cache, unless it is dead.
LEMMA ReleaseInv == ASSUME PoolInv, NEW c \in Goroutines, Release(c) PROVE PoolInv'
<1> USE DEF PoolInv
<1> DEFINE s == sock[c]
           last == references[s] = 1
           to == IF last /\ status[s] # "dead" THEN "recycling" ELSE Rest(c)
           then == IF last /\ status[s] # "dead" THEN s ELSE NoSocket
<1>1. s \in Sockets /\ pc[c] = "holding" /\ Rest(c) \in Places \ (Held \cup Carried)
  BY DEF TypeOK, InHand, Release, Rest, Places, Held, Carried
<1>2. c \in Owners(s) /\ c \in Users
  BY <1>1 DEF Owners, Users, Held
<1>3. /\ references[s] \in Nat /\ references[s] > 0
      /\ last => Owners(s) = {c}
      /\ ~last => Owners(s) \ {c} # {}
      /\ status[s] # "none" /\ s \notin unused /\ Carriers(s) = {}
  <2>1. Owners(s) \ {c} = {} => Owners(s) = {c}
    BY <1>2
  <2>2. Owners(s) = {c} => last
    BY <1>1, FS_Singleton DEF ReferencesExact
  <2>. QED
    BY <1>1, <1>2, <2>1, <2>2, Counted DEF InHand, NoDoubleRecycle
<1>4. /\ references' = [references EXCEPT ![s] = references[s] - 1]
      /\ Goto(c, to, then)
      /\ UNCHANGED <<server, status, abending, doomed, panicked>>
  BY <1>1, <1>3 DEF Release, TypeOK
<1>5. /\ stats' \in [alive : Int, inUse : Int, refs : Int]
      /\ stats'.alive = stats.alive /\ stats'.refs = stats.refs - 1
      /\ stats'.inUse = IF last THEN stats.inUse - 1 ELSE stats.inUse
  <2>1. stats \in [alive : Int, inUse : Int, refs : Int]
    BY DEF TypeOK
  <2>2. \/ last /\ stats' = [stats EXCEPT !.refs = @ - 1, !.inUse = @ - 1]
        \/ ~last /\ stats' = [stats EXCEPT !.refs = @ - 1]
    BY <1>1, <1>3 DEF Release
  <2>3. stats.inUse - 1 \in Int /\ stats.refs - 1 \in Int
    BY <2>1
  <2>4. stats' \in [alive : Int, inUse : Int, refs : Int]
    BY <2>1, <2>2, <2>3, Zenon
  <2>. QED
    BY <2>1, <2>2, <2>4
<1>6. /\ to \in Places \ Held /\ then \in Sockets \cup {NoSocket}
      /\ to \in Carried <=> last /\ status[s] # "dead"
  BY <1>1 DEF Places, Held, Carried
<1>7. \A x \in Sockets :
        /\ Owners(x)' = IF x = s THEN Owners(x) \ {c} ELSE Owners(x)
        /\ Carriers(x)' = IF x = s /\ to \in Carried THEN {c} ELSE Carriers(x)
  <2>1. \A x \in Sockets :
          /\ Owners(x)' = Owners(x) \ {c}
          /\ Carriers(x)' = IF to \in Carried /\ x = then THEN Carriers(x) \cup {c}
                                                          ELSE Carriers(x) \ {c}
    BY <1>4, <1>6, Moved
  <2>2. \A x \in Sockets : c \notin Carriers(x) /\ (x # s => c \notin Owners(x))
    BY <1>1 DEF Owners, Carriers
  <2>3. \A x \in Sockets : /\ Carriers(x) \ {c} = Carriers(x)
                           /\ x # s => Owners(x) \ {c} = Owners(x)
    BY <2>2
  <2>4. Carriers(s) \cup {c} = {c} /\ (to \in Carried => then = s)
    BY <1>3, <1>6
  <2>. QED
    BY <2>1, <2>3, <2>4
<1>8. /\ ReferencesExact' /\ references' \in [Sockets -> Nat]
      /\ Cardinality(InUse') = IF last THEN Cardinality(InUse) - 1 ELSE Cardinality(InUse)
  <2>1. \A x \in Sockets : Owners(x)' = IF x = s THEN Owners(x) \ {c} ELSE Owners(x)
    BY <1>7
  <2>. QED
    BY <1>1, <1>2, <1>4, <2>1, CountLost
<1>9. TypeOK'
  <2>1. /\ pc' \in [Goroutines -> Places]
        /\ sock' \in [Goroutines -> Sockets \cup {NoSocket}]
    BY <1>4, <1>6, MovedType
  <2>. QED
    BY <1>4, <1>5, <1>8, <2>1 DEF TypeOK, server, Places
<1>10. InHand'
  <2>1. \A d \in Goroutines : pc'[d] \in Held \cup Carried <=> sock'[d] # NoSocket
    <3>1. to \in Carried <=> then # NoSocket
      BY <1>1, <1>6
    <3>. QED
      BY <1>4, <1>6, <3>1, MovedType DEF InHand, Held, Carried
  <2>2. \A x \in Sockets : status'[x] = "none" =>
          x \notin unused' /\ Owners(x)' = {} /\ Carriers(x)' = {}
    BY <1>3, <1>4, <1>7 DEF InHand, server
  <2>3. \A x \in Sockets : \A d \in Owners(x)' : pc'[d] = "connected" => Owners(x)' = {d}
    BY <1>4, <1>6, <1>7, StillAlone DEF Held
  <2>. QED
    BY <1>4, <2>1, <2>2, <2>3 DEF InHand, Held, Carried
<1>11. NoDoubleRecycle' /\ NoPanic'
  <2>1. to \in Carried => Owners(s) \ {c} = {}
    BY <1>3, <1>6
  <2>. QED
    BY <1>3, <1>4, <1>7, <2>1 DEF NoDoubleRecycle, NoPanic, server
<1>12. NothingLost'
  BY <1>3, <1>4, <1>6, <1>7 DEF NothingLost, server
<1>13. StatsExact'
  <2>1. Users' = Users \ {c} /\ Alive' = Alive
    BY <1>4, <1>6, Moved DEF Alive
  <2>2. Cardinality(Users') = Cardinality(Users) - 1
    BY <1>2, <2>1, Finite, FS_RemoveElement
  <2>. QED
    BY <1>5, <1>8, <2>1, <2>2, StatsSets
<1>. QED
  BY <1>8, <1>9, <1>10, <1>11, <1>12, <1>13

----------------------------------------------------------------------------
(* Steps that move nobody                                                  *)

LEMMA HandsSame ==
  ASSUME UNCHANGED <<pc, sock>>
  PROVE  /\ \A x \in Sockets : Owners(x)' = Owners(x) /\ Carriers(x)' = Carriers(x)
         /\ Users' = Users
BY DEF Owners, Carriers, Users

\* A socket dies, and nothing else happens but to doomed or abending.
LEMMA KillInv ==
  ASSUME PoolInv, NEW s \in Sockets, Kill(s),
         UNCHANGED <<server, references, pc, sock, panicked>>,
         abending' \in {abending, abending \cup {s}}, doomed' \subseteq doomed
  PROVE  PoolInv'
<1> USE DEF PoolInv
<1>1. TypeOK'
  BY PoolKilled DEF TypeOK, server
<1>2. InHand'
  BY PoolKilled, HandsSame DEF InHand, server, TypeOK
<1>3. ReferencesExact'
  BY HandsSame, CountKept
<1>4. NoDoubleRecycle' /\ NothingLost' /\ NoPanic'
  BY PoolKilled, HandsSame DEF NoDoubleRecycle, NothingLost, NoPanic, server
<1>5. StatsExact'
  <2>1. InUse' = InUse /\ Users' = Users
    BY HandsSame DEF InUse
  <2>. QED
    BY <2>1, PoolKilled, StatsSets
<1>. QED
  BY <1>1, <1>2, <1>3, <1>4, <1>5

\* Only the server's lists change: a live socket leaves the cache only when
\* the server is closed.
LEMMA ListsInv ==
  ASSUME PoolInv, UNCHANGED <<status, references, pc, sock, panicked, stats>>,
         TypeOK', unused' \subseteq unused, abending' \subseteq abending,
         closed' \/ (~closed /\ \A x \in unused \ unused' : status[x] = "dead")
  PROVE  PoolInv'
<1> USE DEF PoolInv
<1>1. InHand'
  BY HandsSame DEF InHand
<1>2. ReferencesExact'
  BY HandsSame, CountKept
<1>3. NoDoubleRecycle' /\ NothingLost' /\ NoPanic'
  BY HandsSame DEF NoDoubleRecycle, NothingLost, NoPanic
<1>4. StatsExact'
  <2>1. InUse' = InUse /\ Alive' = Alive /\ Users' = Users
    BY HandsSame DEF InUse, Alive
  <2>. QED
    BY <2>1, StatsSets
<1>. QED
  BY <1>1, <1>2, <1>3, <1>4

LEMMA DeathInv ==
  ASSUME PoolInv, NEW s \in Sockets, KillAbend(s) \/ AbendSocket(s) \/ CloseSocket(s)
  PROVE  PoolInv'
<1>1. CASE KillAbend(s)
  BY <1>1, KillInv DEF KillAbend
<1>2. CASE AbendSocket(s)
  <2>1. TypeOK' /\ status[s] = "dead"
    BY <1>2 DEF PoolInv, TypeOK, InHand, AbendSocket
  <2>. QED
    BY <1>2, <2>1, ListsInv DEF AbendSocket, PoolInv, TypeOK
<1>3. CASE CloseSocket(s)
  <2>1. CASE Kill(s)
    BY <1>3, <2>1, KillInv DEF CloseSocket
  <2>2. CASE UNCHANGED <<status, stats>>
    <3>1. TypeOK'
      BY <1>3, <2>2 DEF PoolInv, TypeOK, CloseSocket, server
    <3>. QED
      BY <1>3, <2>2, <3>1, ListsInv DEF CloseSocket, PoolInv, TypeOK, server
  <2>. QED
    BY <1>3, <2>1, <2>2 DEF CloseSocket
<1>. QED
  BY <1>1, <1>2, <1>3

LEMMA ServerInv == ASSUME PoolInv, TakeSync \/ Close PROVE PoolInv'
<1>1. CASE TakeSync
  <2>1. TypeOK'
    BY <1>1 DEF PoolInv, TypeOK, TakeSync, sockets
  <2>. QED
    BY <1>1, <2>1, ListsInv DEF TakeSync, PoolInv, TypeOK, sockets
<1>2. CASE Close
  <2>1. TypeOK'
    BY <1>2 DEF PoolInv, TypeOK, Close
  <2>. QED
    BY <1>2, <2>1, ListsInv DEF Close
<1>. QED
  BY <1>1, <1>2

----------------------------------------------------------------------------
LEMMA PoolStep == ASSUME PoolInv, [Next]_vars PROVE PoolInv'
<1>1. ASSUME NEW c \in Goroutines, Call(c) \/ RefuseClosed(c) \/ RefuseLimit(c) \/
             Dial(c) \/ ConnectFails(c) \/ (c = Pinger /\ AfterPing)
      PROVE  PoolInv'
  <2>1. /\ pc[c] \notin Held \cup Carried /\ UNCHANGED <<server, sockets>>
        /\ \E to \in Places \ (Held \cup Carried) : Goto(c, to, NoSocket)
    BY <1>1 DEF Call, RefuseClosed, RefuseLimit, Dial, ConnectFails, AfterPing,
                Places, Held, Carried
  <2>. QED
    BY <2>1, EmptyMove
<1>2. ASSUME NEW c \in Goroutines, AcquireSocket(c)
      PROVE  PoolInv'
  BY <1>1, <1>2, PopUnusedInv, InitialAcquireInv, ConnectInv, RecordInv, DropLateInv
     DEF AcquireSocket
<1>3. CASE AfterPing
  BY <1>1, <1>3 DEF Goroutines
<1>4. CASE Next
  BY <1>1, <1>2, <1>3, <1>4, ReleaseInv, RecycleInv, AcquireInv, DeathInv, ServerInv DEF Next
<1>5. CASE UNCHANGED vars
  <2>1. TypeOK'
    BY <1>5 DEF PoolInv, TypeOK, vars
  <2>2. closed' \/ (~closed /\ \A x \in unused \ unused' : status[x] = "dead")
    BY <1>5 DEF PoolInv, TypeOK, vars
  <2>. QED
    BY <1>5, <2>1, <2>2, ListsInv DEF vars
<1>. QED
  BY <1>4, <1>5

\* The accounts of the pool (server.go, socket.go) are right in every
\* reachable state, for any goroutines, sockets and limit: no connection is
\* lost or given to two, and none of the panics on the references is reached.
THEOREM PoolCorrect == Spec => []PoolInv
BY PoolInit, PoolStep, PTL DEF Spec

\* The parts one by one.
COROLLARY PoolSafe ==
  Spec => [](ReferencesExact /\ NoPanic /\ NoDoubleRecycle /\ NothingLost /\ StatsExact)
<1>1. PoolInv => ReferencesExact /\ NoPanic /\ NoDoubleRecycle /\ NothingLost /\ StatsExact
  BY DEF PoolInv
<1>. QED
  BY <1>1, PoolCorrect, PTL

----------------------------------------------------------------------------
(* The queue: the ring implements Fifo, through every wrap and growth      *)

USE QueueAssumption

\* The remainder of what is less than two rounds, without a division.
Wrap(i, c) == IF i < c THEN i ELSE i - c

LEMMA Remainder ==
  ASSUME NEW i \in Nat, NEW c \in Nat, i < 2 * c PROVE i % c = Wrap(i, c)
<1>1. CASE i < c
  <2>1. i % c = i
    BY <1>1, SMTT(20)
  <2>. QED
    BY <1>1, <2>1 DEF Wrap
<1>2. CASE c <= i
  <2>1. i % c = i - c
    BY <1>2, SMTT(20)
  <2>. QED
    BY <1>2, <2>1 DEF Wrap
<1>. QED
  BY <1>1, <1>2

\* Around a ring of c places from p on, every place is reached once.
LEMMA Around ==
  ASSUME NEW c \in Nat, NEW p \in 0 .. c - 1
  PROVE  /\ \A k \in 0 .. c : Wrap(p + k, c) \in 0 .. c - 1
         /\ \A k, l \in 0 .. c - 1 : Wrap(p + k, c) = Wrap(p + l, c) => k = l
         /\ \A i \in 0 .. c - 1 : \E k \in 0 .. c - 1 : i = Wrap(p + k, c)
<1>1. \A k \in 0 .. c : Wrap(p + k, c) \in 0 .. c - 1
  BY DEF Wrap
<1>2. \A k, l \in 0 .. c - 1 : Wrap(p + k, c) = Wrap(p + l, c) => k = l
  BY DEF Wrap
<1>3. ASSUME NEW i \in 0 .. c - 1 PROVE \E k \in 0 .. c - 1 : i = Wrap(p + k, c)
  <2>1. CASE i >= p
    <3>1. i - p \in 0 .. c - 1 /\ i = Wrap(p + (i - p), c)
      BY <2>1 DEF Wrap
    <3>. QED
      BY <3>1
  <2>2. CASE i < p
    <3>1. i - p + c \in 0 .. c - 1 /\ i = Wrap(p + (i - p + c), c)
      BY <2>2 DEF Wrap
    <3>. QED
      BY <3>1
  <2>. QED
    BY <2>1, <2>2
<1>. QED
  BY <1>1, <1>2, <1>3

----------------------------------------------------------------------------
(* The inductive invariant                                                 *)

\* A ring whose n elements are the places from p on, with `next' behind them.
Holds(ring, p, n, next) ==
  LET c == Len(ring) IN
  /\ ring \in Seq(Elements \cup {Nothing})
  /\ n \in 0 .. c
  /\ c = 0 => p = 0 /\ next = 0
  /\ c > 0 => p \in 0 .. c - 1 /\ next = Wrap(p + n, c)
  /\ \A i \in 1 .. c :
       ring[i] = Nothing <=> \A k \in 0 .. n - 1 : i # Wrap(p + k, c) + 1

\* What a ring holds, in order.
Items(ring, p, n) == [i \in 1 .. n |-> ring[Wrap(p + i - 1, Len(ring)) + 1]]

RingInv == Holds(elems, popi, nelems, pushi)

LEMMA ItemsAre ==
  ASSUME NEW ring, NEW p, NEW n, NEW next, Holds(ring, p, n, next)
  PROVE  [i \in 1 .. n |-> ring[((p + i - 1) % Len(ring)) + 1]] = Items(ring, p, n)
<1>1. Len(ring) \in Nat /\ n \in 0 .. Len(ring)
  BY DEF Holds
<1>2. ASSUME NEW i \in 1 .. n
      PROVE  (p + i - 1) % Len(ring) = Wrap(p + i - 1, Len(ring))
  <2>1. p \in 0 .. Len(ring) - 1
    BY <1>1 DEF Holds
  <2>2. p + i - 1 \in Nat /\ p + i - 1 < 2 * Len(ring)
    BY <1>1, <2>1
  <2>. QED
    BY <1>1, <2>2, Remainder
<1>. QED
  BY <1>2 DEF Items

LEMMA ContentIs == ASSUME RingInv PROVE Content = Items(elems, popi, nelems)
  BY ItemsAre DEF RingInv, Content, Cap

\* RingInv is QueueInv, with its remainders worked out.
LEMMA InvIs == RingInv => QueueInv
<1> SUFFICES ASSUME RingInv PROVE QueueInv
  OBVIOUS
<1>1. Cap \in Nat /\ nelems \in 0 .. Cap
  BY DEF RingInv, Holds, Cap
<1>2. CASE Cap = 0
  BY <1>1, <1>2 DEF QueueInv
<1>3. CASE Cap > 0
  <2>1. popi \in 0 .. Cap - 1 /\ pushi = Wrap(popi + nelems, Cap)
    BY <1>3 DEF RingInv, Holds, Cap
  <2>2. ASSUME NEW k \in 0 .. nelems PROVE (popi + k) % Cap = Wrap(popi + k, Cap)
    <3>1. popi + k \in Nat /\ popi + k < 2 * Cap
      BY <1>1, <2>1
    <3>. QED
      BY <1>1, <3>1, Remainder
  <2>3. pushi \in 0 .. Cap - 1 /\ pushi = (popi + nelems) % Cap
    <3>1. nelems \in 0 .. nelems /\ nelems \in 0 .. Cap
      BY <1>1
    <3>2. (popi + nelems) % Cap = Wrap(popi + nelems, Cap)
      BY <2>2, <3>1
    <3>. QED
      BY <1>1, <2>1, <3>1, <3>2, Around
  <2>4. \A k \in 0 .. nelems - 1 : (popi + k) % Cap = Wrap(popi + k, Cap)
    BY <1>1, <2>2
  <2>5. \A i \in 1 .. Cap :
          elems[i] = Nothing <=> \A k \in 0 .. nelems - 1 : i # Wrap(popi + k, Cap) + 1
    BY DEF RingInv, Holds, Cap
  <2>6. \A i \in 1 .. Cap :
          elems[i] = Nothing <=> \A k \in 0 .. nelems - 1 : i # ((popi + k) % Cap) + 1
    BY <2>4, <2>5
  <2>7. nelems <= Cap
    BY <1>1
  <2>. QED
    BY <2>1, <2>3, <2>6, <2>7 DEF QueueInv
<1>. QED
  BY <1>1, <1>2, <1>3

----------------------------------------------------------------------------
(* Growing                                                                 *)

LEMMA NewCapGrows == ASSUME Cap \in Nat PROVE NewCap \in Nat /\ NewCap > Cap
<1>1. CASE Cap >= SlowCap /\ Cap # 0
  <2>1. Cap \div 4 \in Nat /\ Cap \div 4 > 0
    BY <1>1, SMTT(20)
  <2>. QED
    BY <1>1, <2>1 DEF NewCap
<1>. QED
  BY <1>1 DEF NewCap

\* A full ring is unrolled into one that holds the same, with room behind.
LEMMA Expands ==
  ASSUME RingInv, nelems = Cap
  PROVE  /\ Holds(ExpandElems, ExpandPopi, nelems, ExpandPushi)
         /\ Len(ExpandElems) = NewCap
         /\ Items(ExpandElems, ExpandPopi, nelems) = Items(elems, popi, nelems)
<1> DEFINE moved == IF popi = 0 THEN Cap ELSE popi
           gap == NewCap - Cap
<1>1. /\ Cap \in Nat /\ NewCap \in Nat /\ NewCap > Cap
      /\ gap \in Nat \ {0} /\ NewCap = Cap + gap
  <2>1. Cap \in Nat
    BY DEF RingInv, Holds, Cap
  <2>. QED
    BY <2>1, NewCapGrows
<1>2. /\ Cap = 0 => popi = 0 /\ pushi = 0
      /\ Cap > 0 => popi \in 0 .. Cap - 1 /\ pushi = popi
      /\ moved \in 0 .. Cap
  BY <1>1 DEF RingInv, Holds, Cap, Wrap
<1>3. /\ ExpandElems \in Seq(Elements \cup {Nothing})
      /\ Len(ExpandElems) = NewCap
      /\ \A i \in 1 .. NewCap : ExpandElems[i] =
           IF i <= moved THEN elems[i]
           ELSE IF i <= moved + gap THEN Nothing ELSE elems[i - gap]
  <2>1. \A i \in 1 .. Cap : elems[i] \in Elements \cup {Nothing}
    BY DEF RingInv, Holds, Cap
  <2>2. ASSUME NEW i \in 1 .. NewCap
        PROVE  (IF i <= moved THEN elems[i]
                ELSE IF i <= moved + gap THEN Nothing ELSE elems[i - gap])
                 \in Elements \cup {Nothing}
    <3> HIDE DEF moved, gap
    <3>1. i <= moved => i \in 1 .. Cap
      BY <1>1, <1>2
    <3>2. i > moved + gap => i - gap \in 1 .. Cap
      BY <1>1, <1>2
    <3>3. i \in Nat /\ moved \in Nat /\ gap \in Nat
      BY <1>1, <1>2
    <3>. QED
      BY <2>1, <3>1, <3>2, <3>3
  <2>3. ExpandElems = [i \in 1 .. NewCap |->
          IF i <= moved THEN elems[i]
          ELSE IF i <= moved + gap THEN Nothing ELSE elems[i - gap]]
    BY DEF ExpandElems
  <2> HIDE DEF moved, gap
  <2>4. ExpandElems \in [1 .. NewCap -> Elements \cup {Nothing}]
    BY <2>2, <2>3
  <2>5. ExpandElems \in Seq(Elements \cup {Nothing}) /\ Len(ExpandElems) = NewCap
    BY <1>1, <2>4
  <2>. QED
    BY <2>3, <2>5
<1>4. /\ ExpandPopi \in 0 .. NewCap - 1
      /\ ExpandPushi = Wrap(ExpandPopi + nelems, NewCap)
  BY <1>1, <1>2 DEF ExpandPopi, ExpandPushi, Wrap
<1>5. ASSUME NEW k \in 0 .. nelems - 1
      PROVE  /\ Wrap(ExpandPopi + k, NewCap) + 1 \in 1 .. NewCap
             /\ Wrap(popi + k, Cap) + 1 \in 1 .. Cap
             /\ Wrap(ExpandPopi + k, NewCap) =
                  IF Wrap(popi + k, Cap) < moved THEN Wrap(popi + k, Cap)
                                                 ELSE Wrap(popi + k, Cap) + gap
  BY <1>1, <1>2 DEF ExpandPopi, Wrap
<1>6. ASSUME NEW k \in 0 .. nelems - 1
      PROVE  ExpandElems[Wrap(ExpandPopi + k, NewCap) + 1] = elems[Wrap(popi + k, Cap) + 1]
  <2>1. PICK w \in 0 .. Cap - 1 : w = Wrap(popi + k, Cap)
    BY <1>1, <1>2 DEF Wrap
  <2>2. PICK x \in 1 .. NewCap : x = Wrap(ExpandPopi + k, NewCap) + 1
    BY <1>5
  <2>3. x = IF w < moved THEN w + 1 ELSE w + 1 + gap
    BY <1>1, <1>2, <1>5, <2>1, <2>2
  <2>4. ExpandElems[x] = IF x <= moved THEN elems[x]
                         ELSE IF x <= moved + gap THEN Nothing ELSE elems[x - gap]
    BY <1>3
  <2> HIDE DEF moved, gap
  <2>5. ExpandElems[x] = elems[w + 1]
    <3>1. w < moved => x = w + 1 /\ x <= moved
      BY <1>2, <2>3
    <3>2. ~(w < moved) => ~(x <= moved) /\ ~(x <= moved + gap) /\ x - gap = w + 1
      BY <1>1, <1>2, <2>3
    <3>. QED
      BY <2>4, <3>1, <3>2
  <2>. QED
    BY <2>1, <2>2, <2>5
<1>7. Items(ExpandElems, ExpandPopi, nelems) = Items(elems, popi, nelems)
  <2>1. ASSUME NEW i \in 1 .. nelems
        PROVE  ExpandElems[Wrap(ExpandPopi + i - 1, NewCap) + 1]
                 = elems[Wrap(popi + i - 1, Cap) + 1]
    <3>1. i - 1 \in 0 .. nelems - 1
      BY <1>1
    <3>2. ExpandPopi + (i - 1) = ExpandPopi + i - 1 /\ popi + (i - 1) = popi + i - 1
      BY <1>1, <1>2, <1>4
    <3>. QED
      BY <1>6, <3>1, <3>2
  <2>. QED
    BY <1>3, <2>1 DEF Items, Cap
<1>8. ASSUME NEW i \in 1 .. NewCap
      PROVE  ExpandElems[i] = Nothing <=>
               \A k \in 0 .. nelems - 1 : i # Wrap(ExpandPopi + k, NewCap) + 1
  <2>1. ASSUME NEW k \in 0 .. nelems - 1
        PROVE  ExpandElems[Wrap(ExpandPopi + k, NewCap) + 1] # Nothing
    BY <1>5, <1>6 DEF RingInv, Holds, Cap
  <2>2. ASSUME NEW j \in 0 .. Cap - 1
        PROVE  \E k \in 0 .. nelems - 1 :
                 Wrap(ExpandPopi + k, NewCap) = IF j < moved THEN j ELSE j + gap
    <3>0. popi \in 0 .. Cap - 1
      BY <1>1, <1>2
    <3>1. PICK k \in 0 .. Cap - 1 : j = Wrap(popi + k, Cap)
      BY <1>1, <3>0, Around
    <3>. QED
      BY <1>5, <3>1
  <2> HIDE DEF moved, gap
  <2>3. CASE i <= moved
    <3>1. i - 1 \in 0 .. Cap - 1 /\ i - 1 < moved
      BY <1>1, <1>2, <2>3
    <3>2. PICK k \in 0 .. nelems - 1 : Wrap(ExpandPopi + k, NewCap) = i - 1
      BY <2>2, <3>1
    <3>. QED
      BY <2>1, <3>2
  <2>4. CASE i > moved + gap
    <3>1. i - 1 - gap \in 0 .. Cap - 1 /\ ~(i - 1 - gap < moved)
      BY <1>1, <1>2, <2>4
    <3>2. PICK k \in 0 .. nelems - 1 : Wrap(ExpandPopi + k, NewCap) = i - 1 - gap + gap
      BY <2>2, <3>1
    <3>3. Wrap(ExpandPopi + k, NewCap) + 1 = i
      BY <1>1, <3>2
    <3>. QED
      BY <2>1, <3>3
  <2>5. CASE i > moved /\ i <= moved + gap
    <3>1. ExpandElems[i] = Nothing
      BY <1>1, <1>2, <1>3, <2>5
    <3>. QED
      BY <2>1, <3>1
  <2>. QED
    BY <1>1, <1>2, <2>3, <2>4, <2>5
<1>9. nelems \in 0 .. NewCap
  BY <1>1
<1>. QED
  BY <1>1, <1>3, <1>4, <1>7, <1>8, <1>9 DEF Holds

----------------------------------------------------------------------------
(* Push and Pop                                                            *)

Put(ring, next, e) == [ring EXCEPT ![next + 1] = e]

\* Append puts one value behind a sequence.
LEMMA AppendTo ==
  ASSUME NEW n \in Nat, NEW f, NEW e, NEW s, s = [i \in 1 .. n |-> f[i]]
  PROVE  Append(s, e) = [i \in 1 .. n + 1 |-> IF i = n + 1 THEN e ELSE f[i]]
<1>1. s \in Seq({f[i] : i \in 1 .. n}) /\ Len(s) = n
  OBVIOUS
<1>. QED
  BY <1>1

\* An element put behind what a ring with room holds.
LEMMA Puts ==
  ASSUME NEW ring, NEW p, NEW n, NEW next, NEW e \in Elements,
         Holds(ring, p, n, next), n < Len(ring)
  PROVE  /\ Holds(Put(ring, next, e), p, n + 1, (next + 1) % Len(ring))
         /\ Items(Put(ring, next, e), p, n + 1) = Append(Items(ring, p, n), e)
<1> DEFINE c == Len(ring)
           more == Put(ring, next, e)
           after == (next + 1) % c
<1>1. /\ c \in Nat /\ c > 0 /\ n \in 0 .. c - 1 /\ p \in 0 .. c - 1
      /\ next = Wrap(p + n, c) /\ next \in 0 .. c - 1
      /\ ring \in Seq(Elements \cup {Nothing})
  <2>1. c \in Nat /\ c > 0 /\ n \in 0 .. c - 1
    BY DEF Holds
  <2>2. p \in 0 .. c - 1 /\ next = Wrap(p + n, c) /\ ring \in Seq(Elements \cup {Nothing})
    BY <2>1 DEF Holds
  <2>. QED
    BY <2>1, <2>2 DEF Wrap
<1>2. /\ more \in Seq(Elements \cup {Nothing}) /\ Len(more) = c
      /\ more[next + 1] = e
      /\ \A i \in 1 .. c : i # next + 1 => more[i] = ring[i]
  BY <1>1 DEF Put
<1>3. after = Wrap(p + (n + 1), c)
  <2>1. after = Wrap(next + 1, c)
    <3>1. next + 1 \in Nat /\ next + 1 < 2 * c
      BY <1>1
    <3>. QED
      BY <1>1, <3>1, Remainder
  <2>2. c \in Nat /\ p \in Nat /\ n \in Nat /\ p < c /\ n < c /\ next = Wrap(p + n, c)
    BY <1>1
  <2> HIDE DEF c, after
  <2>. QED
    BY <2>1, <2>2 DEF Wrap
<1>4. ASSUME NEW k \in 0 .. n - 1
      PROVE  Wrap(p + k, c) + 1 \in 1 .. c /\ Wrap(p + k, c) # next
  BY <1>1 DEF Wrap
<1>5. ASSUME NEW i \in 1 .. c
      PROVE  more[i] = Nothing <=> \A k \in 0 .. n : i # Wrap(p + k, c) + 1
  <2>1. ring[i] = Nothing <=> \A k \in 0 .. n - 1 : i # Wrap(p + k, c) + 1
    BY DEF Holds
  <2>2. CASE i = next + 1
    <3>1. more[i] # Nothing
      BY <1>2, <2>2
    <3>2. n \in 0 .. n /\ i = Wrap(p + n, c) + 1
      BY <1>1, <2>2
    <3>. QED
      BY <3>1, <3>2
  <2>3. CASE i # next + 1
    <3>1. i # Wrap(p + n, c) + 1
      BY <1>1, <2>3
    <3>2. (\A k \in 0 .. n : i # Wrap(p + k, c) + 1)
            <=> (\A k \in 0 .. n - 1 : i # Wrap(p + k, c) + 1)
      <4>1. \A k \in 0 .. n : k = n \/ k \in 0 .. n - 1
        BY <1>1
      <4>2. \A k \in 0 .. n - 1 : k \in 0 .. n
        BY <1>1
      <4>. QED
        BY <3>1, <4>1, <4>2
    <3>. QED
      BY <1>2, <2>1, <2>3, <3>2
  <2>. QED
    BY <2>2, <2>3
<1>6. Holds(more, p, n + 1, after)
  <2>1. n + 1 \in 0 .. c /\ 0 .. (n + 1) - 1 = 0 .. n
    BY <1>1
  <2>2. \A i \in 1 .. Len(more) :
          more[i] = Nothing <=> \A k \in 0 .. (n + 1) - 1 : i # Wrap(p + k, c) + 1
    BY <1>2, <1>5, <2>1
  <2>3. Len(more) # 0 /\ Len(more) = c
    BY <1>1, <1>2
  <2> HIDE DEF more, after, c
  <2>. QED
    BY <1>1, <1>2, <1>3, <2>1, <2>2, <2>3 DEF Holds
<1>7. Items(more, p, n + 1) = Append(Items(ring, p, n), e)
  <2>1. ASSUME NEW i \in 1 .. n + 1
        PROVE  more[Wrap(p + i - 1, c) + 1] =
                 IF i = n + 1 THEN e ELSE ring[Wrap(p + i - 1, c) + 1]
    <3>1. CASE i = n + 1
      <4>1. p + i - 1 = p + n
        BY <1>1, <3>1
      <4>. QED
        BY <1>1, <1>2, <3>1, <4>1
    <3>2. CASE i # n + 1
      <4>1. i - 1 \in 0 .. n - 1 /\ p + (i - 1) = p + i - 1
        BY <1>1, <3>2
      <4>2. Wrap(p + i - 1, c) + 1 \in 1 .. c /\ Wrap(p + i - 1, c) + 1 # next + 1
        <5>1. Wrap(p + (i - 1), c) + 1 \in 1 .. c /\ Wrap(p + (i - 1), c) # next
          BY <1>4, <4>1
        <5>2. Wrap(p + (i - 1), c) \in Int
          BY <1>1, <4>1 DEF Wrap
        <5>. QED
          BY <1>1, <4>1, <5>1, <5>2
      <4>. QED
        BY <1>2, <3>2, <4>2
    <3>. QED
      BY <3>1, <3>2
  <2>2. Items(more, p, n + 1) = [i \in 1 .. n + 1 |->
          IF i = n + 1 THEN e ELSE ring[Wrap(p + i - 1, c) + 1]]
    BY <1>2, <2>1 DEF Items
  <2>3. n \in Nat
    BY <1>1
  <2>. QED
    <3> DEFINE f == [i \in 1 .. n + 1 |-> ring[Wrap(p + i - 1, c) + 1]]
    <3>1. /\ Items(ring, p, n) = [i \in 1 .. n |-> f[i]]
          /\ Items(more, p, n + 1) = [i \in 1 .. n + 1 |-> IF i = n + 1 THEN e ELSE f[i]]
      BY <2>2, <2>3 DEF Items
    <3> HIDE DEF f
    <3>. QED
      BY <2>3, <3>1, AppendTo
<1>. QED
  BY <1>6, <1>7

LEMMA PushHolds ==
  ASSUME RingInv, NEW e \in Elements, Push(e)
  PROVE  RingInv' /\ Content' = Append(Content, e)
<1>1. Cap \in Nat /\ nelems \in 0 .. Cap
  BY DEF RingInv, Holds, Cap
<1>2. RingInv' /\ Items(elems', popi', nelems') = Append(Items(elems, popi, nelems), e)
  <2>1. CASE nelems = Cap
    <3>1. nelems < Len(ExpandElems)
      BY <1>1, <2>1, Expands, NewCapGrows
    <3>2. /\ elems' = Put(ExpandElems, ExpandPushi, e)
          /\ nelems' = nelems + 1
          /\ pushi' = (ExpandPushi + 1) % Len(ExpandElems)
          /\ popi' = ExpandPopi
      BY <2>1 DEF Push, Put
    <3>3. Holds(ExpandElems, ExpandPopi, nelems, ExpandPushi)
      BY <2>1, Expands
    <3>4. /\ Holds(Put(ExpandElems, ExpandPushi, e), ExpandPopi, nelems + 1,
                   (ExpandPushi + 1) % Len(ExpandElems))
          /\ Items(Put(ExpandElems, ExpandPushi, e), ExpandPopi, nelems + 1)
               = Append(Items(ExpandElems, ExpandPopi, nelems), e)
      BY <3>1, <3>3, Puts
    <3>. QED
      BY <2>1, <3>2, <3>4, Expands DEF RingInv
  <2>2. CASE nelems # Cap
    <3>1. nelems < Len(elems)
      BY <1>1, <2>2 DEF Cap
    <3>2. /\ elems' = Put(elems, pushi, e)
          /\ nelems' = nelems + 1
          /\ pushi' = (pushi + 1) % Len(elems)
          /\ popi' = popi
      BY <2>2 DEF Push, Put
    <3>3. Holds(elems, popi, nelems, pushi)
      BY DEF RingInv
    <3>4. /\ Holds(Put(elems, pushi, e), popi, nelems + 1, (pushi + 1) % Len(elems))
          /\ Items(Put(elems, pushi, e), popi, nelems + 1)
               = Append(Items(elems, popi, nelems), e)
      BY <3>1, <3>3, Puts
    <3>. QED
      BY <3>2, <3>4 DEF RingInv
  <2>. QED
    BY <2>1, <2>2
<1>3. Content' = Items(elems', popi', nelems')
  BY <1>2, ItemsAre DEF RingInv, Content, Cap
<1>. QED
  BY <1>2, <1>3, ContentIs

\* The first element taken out of what a ring holds.
LEMMA Takes ==
  ASSUME NEW ring, NEW p, NEW n, NEW next, Holds(ring, p, n, next), n > 0
  PROVE  /\ Holds([ring EXCEPT ![p + 1] = Nothing], (p + 1) % Len(ring), n - 1, next)
         /\ Items(ring, p, n) # <<>>
         /\ ring[p + 1] = Head(Items(ring, p, n))
         /\ Items([ring EXCEPT ![p + 1] = Nothing], (p + 1) % Len(ring), n - 1)
              = Tail(Items(ring, p, n))
<1> DEFINE c == Len(ring)
           less == [ring EXCEPT ![p + 1] = Nothing]
           first == (p + 1) % c
<1>1. /\ c \in Nat /\ c > 0 /\ n \in 1 .. c /\ p \in 0 .. c - 1
      /\ next = Wrap(p + n, c)
      /\ ring \in Seq(Elements \cup {Nothing})
  <2>1. c \in Nat /\ c > 0 /\ n \in 1 .. c
    BY DEF Holds
  <2>. QED
    BY <2>1 DEF Holds
<1>2. /\ less \in Seq(Elements \cup {Nothing}) /\ Len(less) = c
      /\ less[p + 1] = Nothing
      /\ \A i \in 1 .. c : i # p + 1 => less[i] = ring[i]
  BY <1>1
<1>3. first = Wrap(p + 1, c) /\ first \in 0 .. c - 1
  <2>1. p + 1 \in Nat /\ p + 1 < 2 * c
    BY <1>1
  <2>2. first = Wrap(p + 1, c)
    BY <1>1, <2>1, Remainder
  <2>. QED
    BY <1>1, <2>2 DEF Wrap
<1> HIDE DEF first, less
<1>4. ASSUME NEW k \in 0 .. n - 1
      PROVE  /\ Wrap(first + k, c) = Wrap(p + (k + 1), c)
             /\ k > 0 => Wrap(p + k, c) # p
             /\ Wrap(p + k, c) \in 0 .. c - 1
  BY <1>1, <1>3 DEF Wrap
<1>5. Wrap(p + 0, c) = p
  BY <1>1 DEF Wrap
<1>6. next = Wrap(first + (n - 1), c)
  BY <1>1, <1>4
<1>7. ASSUME NEW i \in 1 .. c
      PROVE  less[i] = Nothing <=> \A k \in 0 .. (n - 1) - 1 : i # Wrap(first + k, c) + 1
  <2>1. ring[i] = Nothing <=> \A k \in 0 .. n - 1 : i # Wrap(p + k, c) + 1
    BY DEF Holds
  <2>2. ASSUME NEW k \in 0 .. (n - 1) - 1
        PROVE  k + 1 \in 0 .. n - 1 /\ Wrap(first + k, c) = Wrap(p + (k + 1), c)
    BY <1>1, <1>4
  <2>3. CASE i = p + 1
    <3>1. ASSUME NEW k \in 0 .. (n - 1) - 1 PROVE i # Wrap(first + k, c) + 1
      <4>1. Wrap(p + (k + 1), c) # p /\ Wrap(p + (k + 1), c) \in 0 .. c - 1
        <5>1. k + 1 > 0 /\ k + 1 \in 0 .. n - 1
          BY <1>1, <2>2
        <5>. QED
          BY <1>4, <5>1
      <4>. QED
        BY <1>1, <2>2, <2>3, <4>1
    <3>. QED
      BY <1>2, <2>3, <3>1
  <2>4. CASE i # p + 1
    <3>1. ASSUME \A k \in 0 .. (n - 1) - 1 : i # Wrap(first + k, c) + 1,
                 NEW k \in 0 .. n - 1
          PROVE  i # Wrap(p + k, c) + 1
      <4>1. CASE k = 0
        BY <1>1, <1>5, <2>4, <4>1
      <4>2. CASE k # 0
        <5>1. k - 1 \in 0 .. (n - 1) - 1 /\ (k - 1) + 1 = k
          BY <1>1, <4>2
        <5>2. Wrap(first + (k - 1), c) = Wrap(p + k, c)
          BY <2>2, <5>1
        <5>. QED
          BY <3>1, <5>1, <5>2
      <4>. QED
        BY <4>1, <4>2
    <3>. QED
      BY <1>2, <2>1, <2>2, <2>4, <3>1
  <2>. QED
    BY <2>3, <2>4
<1>8. Holds(less, first, n - 1, next)
  <2>1. n - 1 \in 0 .. c /\ Len(less) = c /\ c # 0
    BY <1>1, <1>2
  <2>2. \A i \in 1 .. Len(less) :
          less[i] = Nothing <=> \A k \in 0 .. (n - 1) - 1 : i # Wrap(first + k, c) + 1
    BY <1>2, <1>7
  <2> HIDE DEF c
  <2>. QED
    BY <1>2, <1>3, <1>6, <2>1, <2>2 DEF Holds
<1>9. Items(ring, p, n) # <<>> /\ ring[p + 1] = Head(Items(ring, p, n))
  <2>1. Wrap(p + 1 - 1, c) = p
    BY <1>1 DEF Wrap
  <2>. QED
    BY <1>1, <2>1 DEF Items
<1>10. Items(less, first, n - 1) = Tail(Items(ring, p, n))
  <2>1. ASSUME NEW i \in 1 .. n - 1
        PROVE  less[Wrap(first + i - 1, c) + 1] = ring[Wrap(p + (i + 1) - 1, c) + 1]
    <3>1. i - 1 \in 0 .. n - 1 /\ (i - 1) + 1 = i /\ i \in 0 .. n - 1 /\ i > 0
      BY <1>1
    <3>2. first + (i - 1) = first + i - 1 /\ p + (i + 1) - 1 = p + i
      BY <1>1, <1>3
    <3>3. Wrap(first + i - 1, c) = Wrap(p + i, c)
      BY <1>4, <3>1, <3>2
    <3>4. Wrap(p + i, c) + 1 \in 1 .. c /\ Wrap(p + i, c) + 1 # p + 1
      <4>1. Wrap(p + i, c) # p /\ Wrap(p + i, c) \in 0 .. c - 1
        BY <1>4, <3>1
      <4>. QED
        BY <1>1, <4>1
    <3>. QED
      BY <1>2, <3>2, <3>3, <3>4
  <2>2. Items(less, first, n - 1)
          = [i \in 1 .. n - 1 |-> ring[Wrap(p + (i + 1) - 1, c) + 1]]
    BY <1>2, <2>1 DEF Items
  <2>3. Tail(Items(ring, p, n)) = [i \in 1 .. n - 1 |-> Items(ring, p, n)[i + 1]]
    BY <1>1 DEF Items
  <2>4. \A i \in 1 .. n - 1 :
          Items(ring, p, n)[i + 1] = ring[Wrap(p + (i + 1) - 1, c) + 1]
    BY <1>1 DEF Items
  <2>. QED
    BY <2>2, <2>3, <2>4
<1>. QED
  BY <1>8, <1>9, <1>10 DEF less, first

LEMMA PopHolds ==
  ASSUME RingInv, Pop PROVE RingInv' /\ Queue!Pop
<1>1. CASE nelems = 0
  <2>1. UNCHANGED <<elems, nelems, popi, pushi>> /\ popped' = Nothing
    BY <1>1 DEF Pop
  <2>2. RingInv' /\ Content' = Content
    BY <2>1 DEF RingInv, Content, Cap
  <2>3. Content = <<>>
    BY <1>1 DEF Content
  <2>. QED
    BY <2>1, <2>2, <2>3 DEF Queue!Pop
<1>2. CASE nelems # 0
  <2>1. /\ nelems > 0
        /\ popped' = elems[popi + 1]
        /\ elems' = [elems EXCEPT ![popi + 1] = Nothing]
        /\ nelems' = nelems - 1
        /\ popi' = (popi + 1) % Len(elems)
        /\ pushi' = pushi
    BY <1>2 DEF Pop, Cap
  <2>2. Holds(elems, popi, nelems, pushi)
    BY DEF RingInv
  <2>3. /\ Holds([elems EXCEPT ![popi + 1] = Nothing], (popi + 1) % Len(elems),
                 nelems - 1, pushi)
        /\ Items(elems, popi, nelems) # <<>>
        /\ elems[popi + 1] = Head(Items(elems, popi, nelems))
        /\ Items([elems EXCEPT ![popi + 1] = Nothing], (popi + 1) % Len(elems), nelems - 1)
             = Tail(Items(elems, popi, nelems))
    BY <2>1, <2>2, Takes
  <2>4. RingInv' /\ Items(elems', popi', nelems') = Tail(Items(elems, popi, nelems))
    BY <2>1, <2>3 DEF RingInv
  <2>5. Content' = Items(elems', popi', nelems')
    BY <2>4, ItemsAre DEF RingInv, Content, Cap
  <2>. QED
    BY <2>1, <2>3, <2>4, <2>5, ContentIs DEF Queue!Pop
<1>. QED
  BY <1>1, <1>2

----------------------------------------------------------------------------
(* Theorems                                                                *)

LEMMA RingInit == QueueInit => RingInv /\ Queue!Init
<1> SUFFICES ASSUME QueueInit PROVE RingInv /\ Queue!Init
  OBVIOUS
<1>1. elems = <<>> /\ Len(elems) = 0 /\ nelems = 0 /\ popi = 0 /\ pushi = 0
  BY DEF QueueInit
<1>2. RingInv
  BY <1>1 DEF RingInv, Holds
<1>3. Content = <<>>
  BY <1>1 DEF Content
<1>. QED
  BY <1>2, <1>3 DEF Queue!Init, QueueInit

LEMMA RingStep ==
  ASSUME RingInv, [QueueNext]_queueVars
  PROVE  RingInv' /\ [Queue!Next]_<<Content, popped>>
<1>1. ASSUME NEW e \in Elements, Push(e) PROVE RingInv' /\ Queue!Next
  BY <1>1, PushHolds DEF Queue!Next, Queue!Push, Push
<1>2. CASE Pop
  BY <1>2, PopHolds DEF Queue!Next
<1>3. CASE UNCHANGED queueVars
  <2>1. RingInv' /\ Content' = Content /\ popped' = popped
    BY <1>3 DEF queueVars, RingInv, Content, Cap
  <2>. QED
    BY <2>1
<1>. QED
  BY <1>1, <1>2, <1>3 DEF QueueNext

\* The ring implements the first-in first-out queue: whatever is pushed comes
\* out once, in its order, through every wrap of the ring and every growth
\* (queue.go:38-91), for any capacities it starts and slows from.
THEOREM RingImplementsFifo == QueueSpec => QueueIsFifo
<1>1. QueueSpec => []RingInv
  BY RingInit, RingStep, PTL DEF QueueSpec
<1>. QED
  BY <1>1, RingInit, RingStep, PTL DEF QueueSpec, QueueIsFifo, Queue!Spec

\* Every place of the ring outside what it holds is cleared, so that no
\* document that was taken is kept from the collector (queue.go:58), and the
\* counters agree.
THEOREM RingCorrect == QueueSpec => []QueueInv
<1>1. QueueSpec => []RingInv
  BY RingInit, RingStep, PTL DEF QueueSpec
<1>. QED
  BY <1>1, InvIs, PTL
=============================================================================
