-------------------------- MODULE MgoSessionProofs --------------------------
(***************************************************************************)
(* Proofs about sessions and the sockets they reserve, for any number of   *)
(* sessions, sockets, goroutines and credentials; and about an iterator of *)
(* a session's query, for any number of documents, size of batches, limit  *)
(* and prefetch.                                                           *)
(***************************************************************************)
EXTENDS MgoSession, MgoIter, DataInduction, SequenceTheorems, FiniteSetTheorems, TLAPS

SessionType == [open : BOOLEAN, consistency : Modes, slaveOk : BOOLEAN,
                masterSocket : Connections \cup {None}, slaveSocket : Connections \cup {None},
                creds : SUBSET Creds, lock : Callers \cup {None}, wrote : BOOLEAN]
CallerType == [call : {"idle", "read", "write", "login", "dial"},
               at : {"idle", "missed", "asking", "using", "noting"},
               s : Sessions \cup {None}, slaveOk : BOOLEAN,
               sock : Connections \cup {None}, cred : Creds \cup {None}]
SocketType == [refs : Nat, master : BOOLEAN, logins : SUBSET Creds]

----------------------------------------------------------------------------
(* The inductive invariant                                                 *)

\* A session never holds one socket in both slots; the one of the master is of
\* a master, and there is one once a Monotonic session has written.
SlotsFit(x, sockets, down) ==
    /\ x.masterSocket # None => /\ x.masterSocket # x.slaveSocket
                               /\ sockets[x.masterSocket].master
    /\ x.consistency = "monotonic" /\ x.wrote /\ x.open
         => down \/ x.masterSocket # None
SessionOk(x) == SlotsFit(x, socket, steppedDown)

\* A goroutine has a socket while it uses one and only then.
CallerOk(y) ==
    /\ y.sock # None <=> y.at \in {"using", "noting"}
    /\ y.at = "idle" <=> y.call = "idle"
    /\ y.at = "idle" <=> y.s = None
    /\ y.at = "noting" => y.call = "login"
    /\ y.call = "write" => ~y.slaveOk
    /\ y.call = "login" => y.slaveOk /\ y.cred \in Creds

\* A read or a write that has its socket, during which its session may close.
InUse(y) == y.at = "using" /\ y.call \in {"read", "write"}

\* What the call y of goroutine c may rely on in its session x: who asks the
\* cluster has the lock and found nothing reserved, a Dial has a session that
\* holds nothing, and only reads and writes outlive a session.
Sound(c, y, x) ==
    /\ y.at = "asking" => x.lock = c /\ Found(x, y.slaveOk) = None
    /\ y.call = "dial" => /\ x.consistency = "eventual"
                          /\ x.masterSocket = None /\ x.slaveSocket = None
    /\ x.open \/ InUse(y)

\* Nobody but an earlier read or write is on a session that is being dialled.
Apart(y, z) == y.call = "dial" /\ y.s = z.s => InUse(z)

SessionIInv ==
    /\ SessionTypeOK
    /\ SharesCounted
    /\ SlotsFree
    /\ \A s \in Sessions : SessionOk(session[s])
    /\ \A c \in Callers :
         /\ CallerOk(caller[c])
         /\ caller[c].at # "idle" => Sound(c, caller[c], session[caller[c].s])
         /\ \A d \in Callers \ {c} : Apart(caller[c], caller[d])

----------------------------------------------------------------------------
(* The references after a step                                             *)

One(b) == IF b THEN 1 ELSE 0

\* A set to which at most x was added, or from which at most x was taken.
LEMMA Recount ==
  ASSUME NEW T, IsFiniteSet(T), NEW A, A \subseteq T, NEW B, B \subseteq T, NEW x,
         \A y : y # x => (y \in A <=> y \in B)
  PROVE  /\ Cardinality(A) \in Nat /\ Cardinality(B) \in Nat
         /\ Cardinality(B) + One(x \in A) = Cardinality(A) + One(x \in B)
<1>1. IsFiniteSet(A) /\ IsFiniteSet(B)
  BY FS_Subset
<1>2. Cardinality(A) \in Nat /\ Cardinality(B) \in Nat
  BY <1>1, FS_CardinalityType
<1>3. CASE x \in A /\ x \notin B
  <2>1. B = A \ {x}
    BY <1>3
  <2>2. Cardinality(A \ {x}) = Cardinality(A) - 1
    BY <1>1, <1>3, FS_RemoveElement
  <2>. QED
    BY <1>2, <1>3, <2>1, <2>2 DEF One
<1>4. CASE x \notin A /\ x \in B
  <2>1. B = A \cup {x}
    BY <1>4
  <2>2. Cardinality(A \cup {x}) = Cardinality(A) + 1
    BY <1>1, <1>4, FS_AddElement
  <2>. QED
    BY <1>2, <1>4, <2>1, <2>2 DEF One
<1>5. CASE x \in A <=> x \in B
  <2>1. A = B
    BY <1>5
  <2>. QED
    BY <1>2, <2>1
<1>. QED
  BY <1>2, <1>3, <1>4, <1>5

Masters(k) == {s \in Sessions : session[s].masterSocket = k}
Slaves(k) == {s \in Sessions : session[s].slaveSocket = k}
Callings(k) == {c \in Callers : caller[c].sock = k}

\* Who holds a socket has a reference to it.
LEMMA Referred ==
  ASSUME SessionAssumption, SessionTypeOK, SharesCounted, NEW k \in Connections
  PROVE  /\ socket[k].refs \in Nat
         /\ \A s \in Sessions : session[s].masterSocket = k => socket[k].refs > 0
         /\ \A s \in Sessions : session[s].slaveSocket = k => socket[k].refs > 0
         /\ \A c \in Callers : caller[c].sock = k => socket[k].refs > 0
<1>1. /\ IsFiniteSet(Masters(k)) /\ IsFiniteSet(Slaves(k)) /\ IsFiniteSet(Callings(k))
  <2>1. /\ Masters(k) \subseteq Sessions /\ Slaves(k) \subseteq Sessions
        /\ Callings(k) \subseteq Callers
    BY DEF Masters, Slaves, Callings
  <2>. QED
    BY <2>1, FS_Subset DEF SessionAssumption
<1>2. /\ Cardinality(Masters(k)) \in Nat /\ Cardinality(Slaves(k)) \in Nat
      /\ Cardinality(Callings(k)) \in Nat
  BY <1>1, FS_CardinalityType
<1>3. /\ Cardinality(Masters(k)) = 0 <=> Masters(k) = {}
      /\ Cardinality(Slaves(k)) = 0 <=> Slaves(k) = {}
      /\ Cardinality(Callings(k)) = 0 <=> Callings(k) = {}
  BY <1>1, FS_EmptySet
<1>4. socket[k].refs = Cardinality(Masters(k)) + Cardinality(Slaves(k))
                       + Cardinality(Callings(k))
  BY DEF SharesCounted, Masters, Slaves, Callings
<1>5. \/ Masters(k) # {} \/ Slaves(k) # {} \/ Callings(k) # {}
      => socket[k].refs > 0
  <2>1. \A l, m, n \in Nat : l # 0 \/ m # 0 \/ n # 0 => l + m + n > 0
    OBVIOUS
  <2>. QED
    BY <1>2, <1>3, <1>4, <2>1
<1>6. /\ \A s \in Sessions : session[s].masterSocket = k => Masters(k) # {}
      /\ \A s \in Sessions : session[s].slaveSocket = k => Slaves(k) # {}
      /\ \A c \in Callers : caller[c].sock = k => Callings(k) # {}
  BY DEF Masters, Slaves, Callings
<1>. QED
  BY <1>2, <1>4, <1>5, <1>6

\* The same of the next state.
LEMMA ReferredNext ==
  ASSUME SessionAssumption, SessionTypeOK', SharesCounted'
  PROVE  \A k \in Connections, s \in Sessions :
           session'[s].masterSocket = k \/ session'[s].slaveSocket = k => socket'[k].refs > 0
<1> SUFFICES ASSUME NEW k \in Connections, NEW s \in Sessions,
                    session'[s].masterSocket = k \/ session'[s].slaveSocket = k
             PROVE  socket'[k].refs > 0
  OBVIOUS
<1>1. IsFiniteSet(Masters(k)') /\ IsFiniteSet(Slaves(k)') /\ IsFiniteSet(Callings(k)')
  <2>1. /\ Masters(k)' \subseteq Sessions /\ Slaves(k)' \subseteq Sessions
        /\ Callings(k)' \subseteq Callers
    BY DEF Masters, Slaves, Callings
  <2>. QED
    BY <2>1, FS_Subset DEF SessionAssumption
<1>2. /\ Cardinality(Masters(k)') \in Nat /\ Cardinality(Slaves(k)') \in Nat
      /\ Cardinality(Callings(k)') \in Nat
  BY <1>1, FS_CardinalityType
<1>3. Masters(k)' # {} \/ Slaves(k)' # {}
  BY DEF Masters, Slaves
<1>4. Cardinality(Masters(k)') # 0 \/ Cardinality(Slaves(k)') # 0
  BY <1>1, <1>3, FS_EmptySet
<1>5. socket'[k].refs = Cardinality(Masters(k)') + Cardinality(Slaves(k)')
                        + Cardinality(Callings(k)')
  BY DEF SharesCounted, Masters, Slaves, Callings
<1>6. \A l, m, n \in Nat : l # 0 \/ m # 0 => l + m + n > 0
  OBVIOUS
<1>. QED
  BY <1>2, <1>4, <1>5, <1>6

\* The references that a call and its session stand for.
Held(k, x, y) == One(x.masterSocket = k) + One(x.slaveSocket = k) + One(y.sock = k)

LEMMA SumsMoved ==
  ASSUME NEW l \in Nat, NEW m \in Nat, NEW n \in Nat,
         NEW l1 \in Nat, NEW m1 \in Nat, NEW n1 \in Nat,
         NEW i \in Nat, NEW j \in Nat, NEW h \in Nat,
         NEW i1 \in Nat, NEW j1 \in Nat, NEW h1 \in Nat,
         NEW r1 \in Nat, NEW r,
         l1 + i = l + i1, m1 + j = m + j1, n1 + h = n + h1,
         r = l + m + n, r1 + (i + j + h) = r + (i1 + j1 + h1)
  PROVE  r1 = l1 + m1 + n1
OBVIOUS

LEMMA SharesMoved ==
  ASSUME SessionAssumption, SessionTypeOK, SharesCounted,
         NEW s \in Sessions, \A t \in Sessions \ {s} : session'[t] = session[t],
         NEW c \in Callers, \A d \in Callers \ {c} : caller'[d] = caller[d],
         socket' \in [Connections -> SocketType],
         \A k \in Connections : socket'[k].refs + Held(k, session[s], caller[c])
                            = socket[k].refs + Held(k, session'[s], caller'[c])
  PROVE  SharesCounted'
<1> DEFINE x == session'[s]
           y == caller'[c]
<1> SUFFICES ASSUME NEW k \in Connections
             PROVE  socket'[k].refs = Cardinality(Masters(k)') + Cardinality(Slaves(k)')
                                      + Cardinality(Callings(k)')
  BY DEF SharesCounted, Masters, Slaves, Callings
<1>1. /\ \A t \in Sessions : session'[t] = IF t = s THEN x ELSE session[t]
      /\ \A d \in Callers : caller'[d] = IF d = c THEN y ELSE caller[d]
  OBVIOUS
<1>2. /\ Cardinality(Masters(k)) \in Nat /\ Cardinality(Masters(k)') \in Nat
      /\ Cardinality(Masters(k)') + One(session[s].masterSocket = k)
         = Cardinality(Masters(k)) + One(x.masterSocket = k)
  <2>1. Masters(k) \subseteq Sessions /\ Masters(k)' \subseteq Sessions
    BY DEF Masters
  <2>2. \A t : t # s => (t \in Masters(k) <=> t \in Masters(k)')
    BY <1>1 DEF Masters
  <2>3. /\ s \in Masters(k) <=> session[s].masterSocket = k
        /\ s \in Masters(k)' <=> x.masterSocket = k
    BY <1>1 DEF Masters
  <2>4. IsFiniteSet(Sessions)
    BY DEF SessionAssumption
  <2>. QED
    BY <2>1, <2>2, <2>3, <2>4, Recount
<1>3. /\ Cardinality(Slaves(k)) \in Nat /\ Cardinality(Slaves(k)') \in Nat
      /\ Cardinality(Slaves(k)') + One(session[s].slaveSocket = k)
         = Cardinality(Slaves(k)) + One(x.slaveSocket = k)
  <2>1. Slaves(k) \subseteq Sessions /\ Slaves(k)' \subseteq Sessions
    BY DEF Slaves
  <2>2. \A t : t # s => (t \in Slaves(k) <=> t \in Slaves(k)')
    BY <1>1 DEF Slaves
  <2>3. /\ s \in Slaves(k) <=> session[s].slaveSocket = k
        /\ s \in Slaves(k)' <=> x.slaveSocket = k
    BY <1>1 DEF Slaves
  <2>4. IsFiniteSet(Sessions)
    BY DEF SessionAssumption
  <2>. QED
    BY <2>1, <2>2, <2>3, <2>4, Recount
<1>4. /\ Cardinality(Callings(k)) \in Nat /\ Cardinality(Callings(k)') \in Nat
      /\ Cardinality(Callings(k)') + One(caller[c].sock = k)
         = Cardinality(Callings(k)) + One(y.sock = k)
  <2>1. Callings(k) \subseteq Callers /\ Callings(k)' \subseteq Callers
    BY DEF Callings
  <2>2. \A d : d # c => (d \in Callings(k) <=> d \in Callings(k)')
    BY <1>1 DEF Callings
  <2>3. /\ c \in Callings(k) <=> caller[c].sock = k
        /\ c \in Callings(k)' <=> y.sock = k
    BY <1>1 DEF Callings
  <2>4. IsFiniteSet(Callers)
    BY DEF SessionAssumption
  <2>. QED
    BY <2>1, <2>2, <2>3, <2>4, Recount
<1>5. socket[k].refs = Cardinality(Masters(k)) + Cardinality(Slaves(k))
                       + Cardinality(Callings(k))
  BY DEF SharesCounted, Masters, Slaves, Callings
<1>6. socket'[k].refs \in Nat
  BY DEF SocketType
<1>7. /\ Held(k, session[s], caller[c]) = One(session[s].masterSocket = k)
             + One(session[s].slaveSocket = k) + One(caller[c].sock = k)
      /\ Held(k, x, y) = One(x.masterSocket = k) + One(x.slaveSocket = k)
                         + One(y.sock = k)
  BY DEF Held
<1>8. /\ One(session[s].masterSocket = k) \in Nat /\ One(x.masterSocket = k) \in Nat
      /\ One(session[s].slaveSocket = k) \in Nat /\ One(x.slaveSocket = k) \in Nat
      /\ One(caller[c].sock = k) \in Nat /\ One(y.sock = k) \in Nat
  BY DEF One
<1>. QED
  BY <1>2, <1>3, <1>4, <1>5, <1>6, <1>7, <1>8, SumsMoved

LEMMA Referring ==
  ASSUME SessionTypeOK, NEW K, socket' = Refer(K)
  PROVE  /\ socket' \in [Connections -> SocketType]
         /\ \A k \in Connections : /\ socket'[k].refs = socket[k].refs + One(k \in K)
                                   /\ socket'[k].master = socket[k].master
                                   /\ socket'[k].logins = socket[k].logins
<1>1. socket \in [Connections -> SocketType]
  BY DEF SessionTypeOK, SocketType
<1>2. ASSUME NEW k \in Connections
      PROVE  /\ socket'[k] \in SocketType
             /\ socket'[k].refs = socket[k].refs + One(k \in K)
             /\ socket'[k].master = socket[k].master
             /\ socket'[k].logins = socket[k].logins
  <2>1. socket'[k] = IF k \in K THEN [socket[k] EXCEPT !.refs = @ + 1] ELSE socket[k]
    BY DEF Refer
  <2>2. socket[k] \in SocketType
    BY <1>1
  <2>. QED
    BY <2>1, <2>2 DEF SocketType, One
<1>3. socket' \in [Connections -> SocketType]
  <2>1. socket' = [k \in Connections |-> socket'[k]]
    BY DEF Refer
  <2>. QED
    BY <1>2, <2>1
<1>. QED
  BY <1>2, <1>3

LEMMA Releasing ==
  ASSUME SessionTypeOK, NEW K, \A k \in Connections : k \in K => socket[k].refs > 0,
         socket' = ReleaseSockets(K)
  PROVE  /\ socket' \in [Connections -> SocketType]
         /\ \A k \in Connections :
              /\ socket'[k].refs + One(k \in K) = socket[k].refs
              /\ socket'[k].refs > 0 => /\ socket'[k].master = socket[k].master
                                       /\ socket'[k].logins = socket[k].logins
<1>1. socket \in [Connections -> SocketType]
  BY DEF SessionTypeOK, SocketType
<1>2. ASSUME NEW k \in Connections
      PROVE  /\ socket'[k] \in SocketType
             /\ socket'[k].refs + One(k \in K) = socket[k].refs
             /\ socket'[k].refs > 0 => /\ socket'[k].master = socket[k].master
                                      /\ socket'[k].logins = socket[k].logins
  <2>1. socket'[k] = IF k \notin K THEN socket[k]
                     ELSE IF socket[k].refs = 1 THEN Pooled
                     ELSE [socket[k] EXCEPT !.refs = @ - 1]
    BY DEF ReleaseSockets
  <2>2. socket[k] \in SocketType
    BY <1>1
  <2>3. CASE k \notin K
    BY <2>1, <2>2, <2>3 DEF SocketType, One
  <2>4. CASE k \in K /\ socket[k].refs = 1
    BY <2>1, <2>2, <2>4 DEF SocketType, One, Pooled
  <2>5. CASE k \in K /\ socket[k].refs # 1
    <3>1. socket[k].refs > 0 /\ socket[k].refs - 1 \in Nat
      BY <2>2, <2>5 DEF SocketType
    <3>. QED
      BY <2>1, <2>2, <2>5, <3>1 DEF SocketType, One
  <2>. QED
    BY <2>3, <2>4, <2>5
<1>3. socket' \in [Connections -> SocketType]
  <2>1. socket' = [k \in Connections |-> socket'[k]]
    BY DEF ReleaseSockets
  <2>. QED
    BY <1>2, <2>1
<1>. QED
  BY <1>2, <1>3

----------------------------------------------------------------------------
(* A step changes at most one session and one call.                        *)

LEMMA Step ==
  ASSUME SessionAssumption, SessionIInv,
         NEW s \in Sessions, session' \in [Sessions -> SessionType],
         \A t \in Sessions \ {s} : session'[t] = session[t],
         NEW c \in Callers, caller' \in [Callers -> CallerType],
         \A d \in Callers \ {c} : caller'[d] = caller[d],
         socket' \in [Connections -> SocketType],
         \A k \in Connections :
            /\ socket'[k].refs + Held(k, session[s], caller[c])
               = socket[k].refs + Held(k, session'[s], caller'[c])
            /\ socket[k].refs > 0 /\ socket'[k].refs > 0
               => socket'[k].master = socket[k].master,
         play' = play, changes' \in 0..MaxChanges,
         steppedDown' \in BOOLEAN, steppedDown => steppedDown', SlotsFree',
         SlotsFit(session'[s], socket', steppedDown'),
         CallerOk(caller'[c]),
         caller'[c].at # "idle" => Sound(c, caller'[c], session'[caller'[c].s]),
         \A d \in Callers \ {c} :
            /\ caller[d].s = s => Sound(d, caller[d], session'[s])
            /\ Apart(caller'[c], caller[d]) /\ Apart(caller[d], caller'[c])
  PROVE  SessionIInv'
<1> DEFINE x == session'[s]
           y == caller'[c]
<1>1. /\ session \in [Sessions -> SessionType] /\ caller \in [Callers -> CallerType]
      /\ socket \in [Connections -> SocketType]
  BY DEF SessionIInv, SessionTypeOK, SessionType, CallerType, SocketType
<1>2. /\ \A t \in Sessions : session'[t] = IF t = s THEN x ELSE session[t]
      /\ \A d \in Callers : caller'[d] = IF d = c THEN y ELSE caller[d]
  OBVIOUS
<1>3. SessionTypeOK'
  <2>1. /\ session' \in [Sessions -> SessionType] /\ caller' \in [Callers -> CallerType]
    OBVIOUS
  <2>2. play' \in Plays
    BY DEF SessionIInv, SessionTypeOK
  <2>. QED
    BY <2>1, <2>2 DEF SessionTypeOK, SessionType, CallerType, SocketType
<1>4. SharesCounted'
  <2>1. SessionTypeOK /\ SharesCounted
    BY DEF SessionIInv
  <2>2. \A k \in Connections : socket'[k].refs + Held(k, session[s], caller[c])
                           = socket[k].refs + Held(k, session'[s], caller'[c])
    BY <1>2
  <2>3. /\ \A t \in Sessions \ {s} : session'[t] = session[t]
        /\ \A d \in Callers \ {c} : caller'[d] = caller[d]
    BY <1>2
  <2>. QED
    BY <2>1, <2>2, <2>3, SharesMoved
<1>5. ASSUME NEW t \in Sessions PROVE SessionOk(session[t])'
  <2>1. CASE t = s
    BY <1>2, <2>1 DEF SessionOk, SlotsFit
  <2>2. CASE t # s
    <3>1. session'[t] = session[t] /\ session[t] \in SessionType
      BY <1>1, <1>2, <2>2
    <3>2. SessionOk(session[t])
      BY DEF SessionIInv
    <3>3. ASSUME session[t].masterSocket # None
          PROVE  socket'[session[t].masterSocket].master
      <4>1. session[t].masterSocket \in Connections
        BY <3>1, <3>3 DEF SessionType
      <4>2. socket[session[t].masterSocket].refs > 0
        BY <4>1, Referred DEF SessionIInv
      <4>3. socket'[session[t].masterSocket].refs > 0
        <5>1. \A k \in Connections : session'[t].masterSocket = k => socket'[k].refs > 0
          BY <1>3, <1>4, ReferredNext
        <5>. QED
          BY <3>1, <4>1, <5>1
      <4>4. socket[session[t].masterSocket].master
        BY <3>2, <3>3 DEF SessionOk, SlotsFit
      <4>. QED
        BY <4>1, <4>2, <4>3, <4>4
    <3>. QED
      BY <3>1, <3>2, <3>3 DEF SessionOk, SlotsFit
  <2>. QED
    BY <2>1, <2>2
<1>6. ASSUME NEW d \in Callers
      PROVE  /\ CallerOk(caller'[d])
             /\ caller'[d].at # "idle" => Sound(d, caller'[d], session'[caller'[d].s])
             /\ \A e \in Callers \ {d} : Apart(caller'[d], caller'[e])
  <2>1. CASE d = c
    BY <1>2, <2>1
  <2>2. CASE d # c
    <3>1. caller'[d] = caller[d] /\ caller[d] \in CallerType
      BY <1>1, <1>2, <2>2
    <3>2. /\ CallerOk(caller[d])
          /\ caller[d].at # "idle" => Sound(d, caller[d], session[caller[d].s])
          /\ \A e \in Callers \ {d} : Apart(caller[d], caller[e])
      BY DEF SessionIInv
    <3>3. caller[d].at # "idle" => Sound(d, caller[d], session'[caller[d].s])
      <4>1. CASE caller[d].s = s
        BY <1>2, <2>2, <4>1
      <4>2. CASE caller[d].at # "idle" /\ caller[d].s # s
        <5>1. caller[d].s \in Sessions
          BY <3>1, <3>2, <4>2 DEF CallerOk, CallerType
        <5>. QED
          BY <1>2, <3>2, <4>2, <5>1
      <4>. QED
        BY <4>1, <4>2
    <3>4. ASSUME NEW e \in Callers \ {d} PROVE Apart(caller[d], caller'[e])
      BY <1>2, <2>2, <3>2
    <3>. QED
      BY <3>1, <3>2, <3>3, <3>4
  <2>. QED
    BY <2>1, <2>2
<1>7. \A d \in Callers :
        /\ CallerOk(caller[d])'
        /\ (caller[d].at # "idle" => Sound(d, caller[d], session[caller[d].s]))'
        /\ (\A e \in Callers \ {d} : Apart(caller[d], caller[e]))'
  BY <1>6 DEF CallerOk, Sound, Apart, InUse, Found
<1>. QED
  BY <1>3, <1>4, <1>5, <1>7 DEF SessionIInv

LEMMA SessionInitial ==
  ASSUME SessionAssumption, SessionInit
  PROVE  SessionIInv
<1>1. SessionTypeOK
  <2>1. session \in [Sessions -> SessionType]
    BY DEF SessionInit, SessionType, Unborn, Modes
  <2>2. caller \in [Callers -> CallerType]
    BY DEF SessionInit, CallerType, Idle
  <2>3. socket \in [Connections -> SocketType]
    BY DEF SessionInit, SocketType, Pooled
  <2>4. play \in Plays /\ changes \in 0..MaxChanges /\ steppedDown \in BOOLEAN
    <3>1. play \in Plays /\ changes = 0 /\ steppedDown = FALSE
      BY DEF SessionInit
    <3>2. MaxChanges \in Nat
      BY DEF SessionAssumption
    <3>3. changes \in 0..MaxChanges
      BY <3>1, <3>2
    <3>4. steppedDown \in BOOLEAN
      BY <3>1
    <3>. QED
      BY <3>1, <3>3, <3>4
  <2>. QED
    BY <2>1, <2>2, <2>3, <2>4 DEF SessionTypeOK, SessionType, CallerType, SocketType
<1>2. SharesCounted
  <2> SUFFICES ASSUME NEW k \in Connections
               PROVE  socket[k].refs = Cardinality(Masters(k)) + Cardinality(Slaves(k))
                                       + Cardinality(Callings(k))
    BY DEF SharesCounted, Masters, Slaves, Callings
  <2>1. Masters(k) = {} /\ Slaves(k) = {} /\ Callings(k) = {}
    BY DEF SessionInit, SessionAssumption, Unborn, Idle, Masters, Slaves, Callings
  <2>2. socket[k].refs = 0
    BY DEF SessionInit, Pooled
  <2>. QED
    BY <2>1, <2>2, FS_EmptySet
<1>3. SlotsFree
  BY DEF SessionInit, SlotsFree
<1>4. \A s \in Sessions : SessionOk(session[s])
  BY DEF SessionInit, Unborn, SessionOk, SlotsFit
<1>5. \A c \in Callers : /\ CallerOk(caller[c]) /\ caller[c].at = "idle"
                         /\ \A d \in Callers : Apart(caller[c], caller[d])
  BY DEF SessionInit, Idle, CallerOk, Apart
<1>. QED
  BY <1>1, <1>2, <1>3, <1>4, <1>5 DEF SessionIInv

\* What every step starts from.
LEMMA Known ==
  ASSUME SessionAssumption, SessionIInv
  PROVE  /\ session \in [Sessions -> SessionType] /\ caller \in [Callers -> CallerType]
         /\ socket \in [Connections -> SocketType]
         /\ play \in Plays /\ changes \in 0..MaxChanges /\ steppedDown \in BOOLEAN
         /\ SlotsFree
         /\ \A c \in Callers : /\ CallerOk(caller[c])
                               /\ caller[c].at # "idle" => /\ caller[c].s \in Sessions
                                       /\ Sound(c, caller[c], session[caller[c].s])
         /\ \A c, d \in Callers : c # d => Apart(caller[c], caller[d])
         /\ \A s \in Sessions : SessionOk(session[s])
<1>1. SessionTypeOK
  BY DEF SessionIInv
<1>2. /\ session \in [Sessions -> SessionType] /\ caller \in [Callers -> CallerType]
      /\ socket \in [Connections -> SocketType]
      /\ play \in Plays /\ changes \in 0..MaxChanges /\ steppedDown \in BOOLEAN
  BY <1>1 DEF SessionTypeOK, SessionType, CallerType, SocketType
<1>3. /\ SlotsFree /\ \A s \in Sessions : SessionOk(session[s])
  BY DEF SessionIInv
<1>4. ASSUME NEW c \in Callers
      PROVE  /\ CallerOk(caller[c])
             /\ caller[c].at # "idle" => /\ caller[c].s \in Sessions
                                         /\ Sound(c, caller[c], session[caller[c].s])
             /\ \A d \in Callers : c # d => Apart(caller[c], caller[d])
  <2>1. /\ CallerOk(caller[c])
        /\ caller[c].at # "idle" => Sound(c, caller[c], session[caller[c].s])
        /\ \A d \in Callers \ {c} : Apart(caller[c], caller[d])
    BY DEF SessionIInv
  <2>2. caller[c].s \in Sessions \cup {None}
    BY <1>2 DEF CallerType
  <2>. QED
    BY <2>1, <2>2 DEF CallerOk
<1>. QED
  BY <1>2, <1>3, <1>4

\* The others keep what they rely on, when a session that none of them has
\* locked or dials is changed, and closed only under reads and writes.
LEMMA OthersSound ==
  ASSUME SessionAssumption, SessionIInv, NEW s \in Sessions, NEW x, NEW c \in Callers,
         session[s].lock \in {None, c},
         \A d \in Callers \ {c} : caller[d].s = s =>
            /\ caller[d].call # "dial"
            /\ x.open \/ ~session[s].open \/ InUse(caller[d])
  PROVE  \A d \in Callers \ {c} : caller[d].s = s => Sound(d, caller[d], x)
<1> SUFFICES ASSUME NEW d \in Callers \ {c}, caller[d].s = s
             PROVE  Sound(d, caller[d], x)
  OBVIOUS
<1>1. CallerOk(caller[d]) /\ caller[d].at # "idle" /\ Sound(d, caller[d], session[s])
  BY Known DEF CallerOk, SessionAssumption
<1>2. caller[d].at # "asking"
  BY <1>1 DEF Sound, SessionAssumption
<1>. QED
  BY <1>1, <1>2 DEF Sound

\* A session in the hands of the program is locked and dialled by nobody.
LEMMA UsableIs ==
  ASSUME SessionAssumption, SessionIInv, NEW s \in Sessions, Usable(s)
  PROVE  /\ session[s].open /\ session[s].lock = None
         /\ \A d \in Callers : caller[d].s = s => caller[d].call # "dial"
BY DEF Usable, Unlocked

\* Who starts a call has had none.
LEMMA MayIs ==
  ASSUME NEW c \in Callers, NEW call, May(c, call)
  PROVE  /\ caller[c] = Idle /\ sessionPanic = "none"
         /\ caller[c].sock = None /\ caller[c].at = "idle" /\ caller[c].call = "idle"
         /\ caller[c].s = None
BY DEF May, Idle

LEMMA FoundIs ==
  ASSUME NEW x \in SessionType, NEW slaveOk \in BOOLEAN
  PROVE  /\ Found(x, slaveOk) \in Connections \cup {None}
         /\ x.masterSocket # None => Found(x, slaveOk) = x.masterSocket
         /\ ~slaveOk => Found(x, slaveOk) = x.masterSocket
BY DEF Found, SessionType

\* Calls that are not dials are apart from one another.
LEMMA NoDial ==
  ASSUME SessionAssumption, SessionIInv, NEW s \in Sessions, NEW c \in Callers, NEW y,
         y.s = s, y.call # "dial",
         \A d \in Callers : caller[d].s = s => caller[d].call # "dial"
  PROVE  \A d \in Callers \ {c} : Apart(y, caller[d]) /\ Apart(caller[d], y)
BY DEF Apart

\* No goroutine is apart from one that is idle.
LEMMA IdleApart ==
  ASSUME SessionAssumption, SessionIInv, NEW y, y.call = "idle", y.s = None
  PROVE  \A d \in Callers : Apart(y, caller[d]) /\ Apart(caller[d], y)
BY Known DEF Apart, CallerOk

----------------------------------------------------------------------------
(* acquireSocket                                                           *)

LEMMA AcquireInv ==
  ASSUME SessionAssumption, SessionIInv, NEW c \in Callers, NEW s \in Sessions,
         NEW call \in {"read", "write", "login"}, NEW cred \in Creds \cup {None},
         call = "login" => cred \in Creds,
         AcquireReserved(c, s, call, cred), changes' \in 0..MaxChanges
  PROVE  SessionIInv'
<1> DEFINE slaveOk == call # "write"
           k == Found(session[s], slaveOk)
           x == [session[s] EXCEPT !.wrote = @ \/ (call = "write" /\ k # None)]
           y == [call |-> call, at |-> IF k = None THEN "missed" ELSE "using", s |-> s,
                 slaveOk |-> slaveOk, sock |-> k, cred |-> cred]
<1>1. /\ session[s] \in SessionType /\ caller[c].sock = None /\ sessionPanic = "none"
      /\ session[s].open /\ session[s].lock = None
      /\ \A d \in Callers : caller[d].s = s => caller[d].call # "dial"
  BY Known, UsableIs, MayIs DEF AcquireReserved
<1>2. /\ k \in Connections \cup {None} /\ slaveOk \in BOOLEAN
      /\ call = "write" => k = session[s].masterSocket
  BY <1>1, FoundIs
<1>3. /\ session' = [session EXCEPT ![s] = x] /\ caller' = [caller EXCEPT ![c] = y]
      /\ socket' = Refer({k}) /\ play' = play /\ steppedDown' = steppedDown
      /\ sessionPanic' = sessionPanic
  BY DEF AcquireReserved
<1>4. /\ x \in SessionType /\ x.open /\ x.lock = None
      /\ x.masterSocket = session[s].masterSocket
      /\ x.slaveSocket = session[s].slaveSocket
      /\ x.consistency = session[s].consistency
      /\ x.wrote <=> session[s].wrote \/ (call = "write" /\ k # None)
  BY <1>1 DEF SessionType
<1>5. /\ y \in CallerType /\ y.s = s /\ y.sock = k /\ y.call = call
      /\ y.at = (IF k = None THEN "missed" ELSE "using")
      /\ y.call = "write" => ~y.slaveOk
      /\ y.call = "login" => y.slaveOk /\ y.cred \in Creds
  BY <1>2 DEF CallerType
<1> HIDE DEF x, y, k, slaveOk
<1>6. /\ session' \in [Sessions -> SessionType] /\ session'[s] = x
      /\ \A t \in Sessions \ {s} : session'[t] = session[t]
      /\ caller' \in [Callers -> CallerType] /\ caller'[c] = y
      /\ \A d \in Callers \ {c} : caller'[d] = caller[d]
  BY <1>3, <1>4, <1>5, Known
<1>7. /\ socket' \in [Connections -> SocketType]
      /\ \A n \in Connections : /\ socket'[n].refs = socket[n].refs + One(n = k)
                                /\ socket'[n].master = socket[n].master
  <2>1. SessionTypeOK
    BY DEF SessionIInv
  <2>2. /\ socket' \in [Connections -> SocketType]
        /\ \A n \in Connections : /\ socket'[n].refs = socket[n].refs + One(n \in {k})
                                  /\ socket'[n].master = socket[n].master
    BY <1>3, <2>1, Referring
  <2>3. \A n \in Connections : One(n \in {k}) = One(n = k)
    BY DEF One
  <2>. QED
    BY <2>2, <2>3
<1>8. \A n \in Connections : socket'[n].refs + Held(n, session[s], caller[c])
                         = socket[n].refs + Held(n, x, y)
  <2> SUFFICES ASSUME NEW n \in Connections
               PROVE  socket'[n].refs + Held(n, session[s], caller[c])
                      = socket[n].refs + Held(n, x, y)
    OBVIOUS
  <2>1. socket[n].refs \in Nat
    BY Known DEF SocketType
  <2>. QED
    BY <1>1, <1>4, <1>5, <1>7, <2>1 DEF Held, One, SessionAssumption
<1>9. SlotsFit(x, socket', steppedDown')
  <2>1. SlotsFit(session[s], socket, steppedDown)
    BY Known DEF SessionOk
  <2>2. x.masterSocket # None => /\ x.masterSocket # x.slaveSocket
                                 /\ socket'[x.masterSocket].master
    <3>1. x.masterSocket # None => x.masterSocket \in Connections
      BY <1>4 DEF SessionType
    <3>. QED
      BY <1>4, <1>7, <2>1, <3>1 DEF SlotsFit
  <2>3. x.consistency = "monotonic" /\ x.wrote /\ x.open
        => steppedDown' \/ x.masterSocket # None
    BY <1>1, <1>2, <1>3, <1>4, <2>1 DEF SlotsFit
  <2>. QED
    BY <2>2, <2>3 DEF SlotsFit
<1>10. CallerOk(y) /\ Sound(c, y, x)
  BY <1>2, <1>4, <1>5 DEF CallerOk, Sound, SessionAssumption
<1>11. \A d \in Callers \ {c} : /\ caller[d].s = s => Sound(d, caller[d], x)
                                /\ Apart(y, caller[d]) /\ Apart(caller[d], y)
  <2>1. \A d \in Callers \ {c} : caller[d].s = s => Sound(d, caller[d], x)
    BY <1>1, <1>4, OthersSound
  <2>2. y.call # "dial"
    BY <1>5
  <2>. QED
    BY <1>1, <1>5, <2>1, <2>2, NoDial
<1>12. SlotsFree'
  BY <1>1, <1>3 DEF SlotsFree
<1>13. /\ steppedDown' \in BOOLEAN /\ (steppedDown => steppedDown')
       /\ play' = play
  BY <1>3, Known
<1>14. caller'[c].at # "idle" => Sound(c, caller'[c], session'[caller'[c].s])
  BY <1>5, <1>6, <1>10
<1>. QED
  BY <1>6, <1>7, <1>8, <1>9, <1>10, <1>11, <1>12, <1>13, <1>14, Step

\* What a goroutine that waits for its socket starts from.
LEMMA Waiting ==
  ASSUME SessionAssumption, SessionIInv, NEW c \in Callers,
         caller[c].at \in {"missed", "asking"}
  PROVE  /\ caller[c] \in CallerType /\ caller[c].s \in Sessions /\ caller[c].sock = None
         /\ caller[c].call # "idle" /\ (caller[c].call = "write" => ~caller[c].slaveOk)
         /\ caller[c].call = "login" => caller[c].slaveOk /\ caller[c].cred \in Creds
         /\ session[caller[c].s] \in SessionType /\ session[caller[c].s].open
         /\ Sound(c, caller[c], session[caller[c].s])
         /\ SlotsFit(session[caller[c].s], socket, steppedDown)
         /\ \A d \in Callers \ {c} : caller[d].s = caller[c].s => caller[d].call # "dial"
<1>1. /\ caller[c] \in CallerType /\ caller[c].s \in Sessions
      /\ CallerOk(caller[c]) /\ Sound(c, caller[c], session[caller[c].s])
  BY Known
<1>2. session[caller[c].s] \in SessionType /\ SlotsFit(session[caller[c].s], socket, steppedDown)
  BY <1>1, Known DEF SessionOk
<1>3. /\ caller[c].sock = None /\ caller[c].call # "idle"
      /\ caller[c].call = "write" => ~caller[c].slaveOk
      /\ caller[c].call = "login" => caller[c].slaveOk /\ caller[c].cred \in Creds
  BY <1>1 DEF CallerOk
<1>4. ~InUse(caller[c])
  BY DEF InUse
<1>5. \A d \in Callers \ {c} : caller[d].s = caller[c].s => caller[d].call # "dial"
  BY <1>4, Known DEF Apart
<1>6. session[caller[c].s].open
  BY <1>1, <1>4 DEF Sound
<1>. QED
  BY <1>1, <1>2, <1>3, <1>5, <1>6

\* The call goes on, in its session, as what it was.
LEMMA GoesOn ==
  ASSUME SessionAssumption, SessionIInv, NEW c \in Callers, ~InUse(caller[c]),
         NEW y, y.call = caller[c].call, y.s = caller[c].s
  PROVE  \A d \in Callers \ {c} : Apart(y, caller[d]) /\ Apart(caller[d], y)
BY Known DEF Apart

LEMMA LookFound ==
  ASSUME SessionAssumption, SessionIInv, NEW c \in Callers, Look(c),
         Found(session[caller[c].s], caller[c].slaveOk) # None
  PROVE  SessionIInv'
<1> DEFINE s == caller[c].s
           k == Found(session[s], caller[c].slaveOk)
           x == [session[s] EXCEPT !.wrote = @ \/ caller[c].call = "write"]
           y == [caller[c] EXCEPT !.at = "using", !.sock = k]
<1>1. /\ caller[c] \in CallerType /\ s \in Sessions /\ caller[c].sock = None
      /\ caller[c].call # "idle" /\ (caller[c].call = "write" => ~caller[c].slaveOk)
      /\ caller[c].call = "login" => caller[c].slaveOk /\ caller[c].cred \in Creds
      /\ session[s] \in SessionType /\ session[s].open /\ session[s].lock = None
      /\ Sound(c, caller[c], session[s]) /\ SlotsFit(session[s], socket, steppedDown)
      /\ \A d \in Callers \ {c} : caller[d].s = s => caller[d].call # "dial"
      /\ ~InUse(caller[c]) /\ sessionPanic = "none"
  BY Waiting DEF Look, Unlocked, InUse
<1>2. /\ k \in Connections /\ (caller[c].call = "write" => k = session[s].masterSocket)
  <2>1. caller[c].slaveOk \in BOOLEAN
    BY <1>1 DEF CallerType
  <2>. QED
    BY <1>1, <2>1, FoundIs
<1>3. /\ session' = [session EXCEPT ![s] = x] /\ caller' = [caller EXCEPT ![c] = y]
      /\ socket' = Refer({k})
  BY <1>1, Known DEF Look, Use
<1>4. /\ play' = play /\ steppedDown' = steppedDown /\ changes' = changes
      /\ sessionPanic' = sessionPanic
  BY DEF Look
<1>5. /\ x \in SessionType /\ x.open /\ x.lock = None
      /\ x.masterSocket = session[s].masterSocket
      /\ x.slaveSocket = session[s].slaveSocket
      /\ x.consistency = session[s].consistency
      /\ x.wrote <=> session[s].wrote \/ caller[c].call = "write"
  BY <1>1 DEF SessionType
<1>6. /\ y \in CallerType /\ y.s = s /\ y.sock = k /\ y.call = caller[c].call
      /\ y.at = "using" /\ y.slaveOk = caller[c].slaveOk /\ y.cred = caller[c].cred
  BY <1>1, <1>2 DEF CallerType
<1> HIDE DEF x, y, k, s
<1>7. /\ session' \in [Sessions -> SessionType] /\ session'[s] = x
      /\ \A t \in Sessions \ {s} : session'[t] = session[t]
      /\ caller' \in [Callers -> CallerType] /\ caller'[c] = y
      /\ \A d \in Callers \ {c} : caller'[d] = caller[d]
  BY <1>1, <1>3, <1>5, <1>6, Known
<1>8. /\ socket' \in [Connections -> SocketType]
      /\ \A n \in Connections : /\ socket'[n].refs = socket[n].refs + One(n = k)
                                /\ socket'[n].master = socket[n].master
  <2>1. SessionTypeOK
    BY DEF SessionIInv
  <2>2. /\ socket' \in [Connections -> SocketType]
        /\ \A n \in Connections : /\ socket'[n].refs = socket[n].refs + One(n \in {k})
                                  /\ socket'[n].master = socket[n].master
    BY <1>3, <2>1, Referring
  <2>3. \A n \in Connections : One(n \in {k}) = One(n = k)
    BY DEF One
  <2>. QED
    BY <2>2, <2>3
<1>9. \A n \in Connections : socket'[n].refs + Held(n, session[s], caller[c])
                         = socket[n].refs + Held(n, x, y)
  <2> SUFFICES ASSUME NEW n \in Connections
               PROVE  socket'[n].refs + Held(n, session[s], caller[c])
                      = socket[n].refs + Held(n, x, y)
    OBVIOUS
  <2>1. socket[n].refs \in Nat
    BY Known DEF SocketType
  <2>. QED
    BY <1>1, <1>5, <1>6, <1>8, <2>1 DEF Held, One, SessionAssumption
<1>10. SlotsFit(x, socket', steppedDown')
  <2>1. x.masterSocket # None => /\ x.masterSocket # x.slaveSocket
                                 /\ socket'[x.masterSocket].master
    <3>1. x.masterSocket # None => x.masterSocket \in Connections
      BY <1>5 DEF SessionType
    <3>. QED
      BY <1>1, <1>5, <1>8, <3>1 DEF SlotsFit
  <2>2. x.consistency = "monotonic" /\ x.wrote /\ x.open
        => steppedDown' \/ x.masterSocket # None
    <3>1. k # None
      BY <1>2 DEF SessionAssumption
    <3>. QED
      BY <1>1, <1>2, <1>4, <1>5, <3>1 DEF SlotsFit
  <2>. QED
    BY <2>1, <2>2 DEF SlotsFit
<1>11. CallerOk(y) /\ Sound(c, y, x)
  <2>1. CallerOk(y)
    BY <1>1, <1>2, <1>6 DEF CallerOk, SessionAssumption
  <2>2. Sound(c, y, x)
    BY <1>1, <1>5, <1>6 DEF Sound
  <2>. QED
    BY <2>1, <2>2
<1>12. \A d \in Callers \ {c} : /\ caller[d].s = s => Sound(d, caller[d], x)
                                /\ Apart(y, caller[d]) /\ Apart(caller[d], y)
  <2>1. \A d \in Callers \ {c} : caller[d].s = s => Sound(d, caller[d], x)
    BY <1>1, <1>5, OthersSound
  <2>2. y.s = caller[c].s
    BY <1>6 DEF s
  <2>. QED
    BY <1>1, <1>6, <2>1, <2>2, GoesOn
<1>13. SlotsFree'
  BY <1>1, <1>4 DEF SlotsFree
<1>14. /\ steppedDown' \in BOOLEAN /\ (steppedDown => steppedDown')
       /\ play' = play /\ changes' \in 0..MaxChanges
  BY <1>4, Known
<1>15. caller'[c].at # "idle" => Sound(c, caller'[c], session'[caller'[c].s])
  BY <1>6, <1>7, <1>11
<1>. QED
  BY <1>1, <1>7, <1>8, <1>9, <1>10, <1>11, <1>12, <1>13, <1>14, <1>15, Step

LEMMA LookMissed ==
  ASSUME SessionAssumption, SessionIInv, NEW c \in Callers, Look(c),
         Found(session[caller[c].s], caller[c].slaveOk) = None
  PROVE  SessionIInv'
<1> DEFINE s == caller[c].s
           x == [session[s] EXCEPT !.lock = c]
           y == [caller[c] EXCEPT !.at = "asking"]
<1>1. /\ caller[c] \in CallerType /\ s \in Sessions /\ caller[c].sock = None
      /\ caller[c].call # "idle" /\ (caller[c].call = "write" => ~caller[c].slaveOk)
      /\ caller[c].call = "login" => caller[c].slaveOk /\ caller[c].cred \in Creds
      /\ session[s] \in SessionType /\ session[s].open /\ session[s].lock = None
      /\ Sound(c, caller[c], session[s]) /\ SlotsFit(session[s], socket, steppedDown)
      /\ \A d \in Callers \ {c} : caller[d].s = s => caller[d].call # "dial"
      /\ ~InUse(caller[c]) /\ sessionPanic = "none"
  BY Waiting DEF Look, Unlocked, InUse
<1>2. Found(session[s], caller[c].slaveOk) = None
  OBVIOUS
<1>3. /\ session' = [session EXCEPT ![s] = x] /\ caller' = [caller EXCEPT ![c] = y]
      /\ socket' = socket
  BY <1>1, Known DEF Look, Use
<1>4. /\ play' = play /\ steppedDown' = steppedDown /\ changes' = changes
      /\ sessionPanic' = sessionPanic
  BY DEF Look
<1>5. /\ x \in SessionType /\ x.open /\ x.lock = c
      /\ x.masterSocket = session[s].masterSocket
      /\ x.slaveSocket = session[s].slaveSocket
      /\ x.consistency = session[s].consistency
      /\ x.wrote = session[s].wrote /\ x.slaveOk = session[s].slaveOk
  BY <1>1 DEF SessionType
<1>6. /\ y \in CallerType /\ y.s = s /\ y.sock = None /\ y.call = caller[c].call
      /\ y.at = "asking" /\ y.slaveOk = caller[c].slaveOk /\ y.cred = caller[c].cred
  BY <1>1 DEF CallerType
<1> HIDE DEF x, y, s
<1>7. /\ session' \in [Sessions -> SessionType] /\ session'[s] = x
      /\ \A t \in Sessions \ {s} : session'[t] = session[t]
      /\ caller' \in [Callers -> CallerType] /\ caller'[c] = y
      /\ \A d \in Callers \ {c} : caller'[d] = caller[d]
  BY <1>1, <1>3, <1>5, <1>6, Known
<1>8. /\ socket' \in [Connections -> SocketType]
      /\ \A n \in Connections : socket'[n].master = socket[n].master
  BY <1>3, Known
<1>9. \A n \in Connections : socket'[n].refs + Held(n, session[s], caller[c])
                         = socket[n].refs + Held(n, x, y)
  BY <1>1, <1>3, <1>5, <1>6 DEF Held
<1>10. SlotsFit(x, socket', steppedDown')
  BY <1>1, <1>3, <1>4, <1>5 DEF SlotsFit
<1>11. CallerOk(y) /\ Sound(c, y, x)
  <2>1. CallerOk(y)
    BY <1>1, <1>6 DEF CallerOk, SessionAssumption
  <2>2. Found(x, y.slaveOk) = None
    BY <1>2, <1>5, <1>6 DEF Found
  <2>3. Sound(c, y, x)
    BY <1>1, <1>5, <1>6, <2>2 DEF Sound
  <2>. QED
    BY <2>1, <2>3
<1>12. \A d \in Callers \ {c} : /\ caller[d].s = s => Sound(d, caller[d], x)
                                /\ Apart(y, caller[d]) /\ Apart(caller[d], y)
  <2>1. \A d \in Callers \ {c} : caller[d].s = s => Sound(d, caller[d], x)
    BY <1>1, <1>5, OthersSound
  <2>2. y.s = caller[c].s
    BY <1>6 DEF s
  <2>. QED
    BY <1>1, <1>6, <2>1, <2>2, GoesOn
<1>13. SlotsFree'
  BY <1>1, <1>4 DEF SlotsFree
<1>14. /\ steppedDown' \in BOOLEAN /\ (steppedDown => steppedDown')
       /\ play' = play /\ changes' \in 0..MaxChanges
  BY <1>4, Known
<1>15. caller'[c].at # "idle" => Sound(c, caller'[c], session'[caller'[c].s])
  BY <1>6, <1>7, <1>11
<1>. QED
  BY <1>1, <1>7, <1>8, <1>9, <1>10, <1>11, <1>12, <1>13, <1>14, <1>15, Step

LEMMA RefusedInv ==
  ASSUME SessionAssumption, SessionIInv, NEW c \in Callers, Refused(c)
  PROVE  SessionIInv'
<1> DEFINE s == caller[c].s
           x == Failed(c, session[s])
<1>1. /\ caller[c] \in CallerType /\ s \in Sessions /\ caller[c].sock = None
      /\ session[s] \in SessionType /\ session[s].open
      /\ Sound(c, caller[c], session[s]) /\ SlotsFit(session[s], socket, steppedDown)
      /\ \A d \in Callers \ {c} : caller[d].s = s => caller[d].call # "dial"
      /\ ~InUse(caller[c]) /\ caller[c].at = "asking" /\ sessionPanic = "none"
  BY Waiting DEF Refused, InUse
<1>2. session[s].lock = c
  BY <1>1 DEF Sound
<1>3. /\ session' = [session EXCEPT ![s] = x] /\ caller' = [caller EXCEPT ![c] = Idle]
      /\ socket' = socket
  BY <1>1, Known DEF Refused
<1>4. /\ play' = play /\ steppedDown' = steppedDown /\ changes' = changes
      /\ sessionPanic' = sessionPanic
  BY DEF Refused
<1>5. /\ x \in SessionType
      /\ x.masterSocket = session[s].masterSocket
      /\ x.slaveSocket = session[s].slaveSocket
      /\ x.consistency = session[s].consistency /\ x.wrote = session[s].wrote
      /\ IF caller[c].call = "dial" THEN ~x.open ELSE x.open
  <2>1. CASE caller[c].call = "dial"
    <3>1. session[s].masterSocket = None /\ session[s].slaveSocket = None
      BY <1>1, <2>1 DEF Sound
    <3>. QED
      BY <1>1, <2>1, <3>1 DEF SessionType, Failed, unsetSocket
  <2>2. CASE caller[c].call # "dial"
    BY <1>1, <2>2 DEF SessionType, Failed
  <2>. QED
    BY <2>1, <2>2
<1>6. /\ Idle \in CallerType /\ Idle.s = None /\ Idle.sock = None /\ Idle.call = "idle"
      /\ Idle.at = "idle"
  BY DEF Idle, CallerType
<1> HIDE DEF x, s
<1>7. /\ session' \in [Sessions -> SessionType] /\ session'[s] = x
      /\ \A t \in Sessions \ {s} : session'[t] = session[t]
      /\ caller' \in [Callers -> CallerType] /\ caller'[c] = Idle
      /\ \A d \in Callers \ {c} : caller'[d] = caller[d]
  BY <1>1, <1>3, <1>5, <1>6, Known
<1>8. /\ socket' \in [Connections -> SocketType]
      /\ \A n \in Connections : socket'[n].master = socket[n].master
  BY <1>3, Known
<1>9. \A n \in Connections : socket'[n].refs + Held(n, session[s], caller[c])
                         = socket[n].refs + Held(n, x, Idle)
  BY <1>1, <1>3, <1>5, <1>6 DEF Held
<1>10. SlotsFit(x, socket', steppedDown')
  BY <1>1, <1>3, <1>4, <1>5 DEF SlotsFit
<1>11. CallerOk(Idle)
  BY <1>6 DEF CallerOk
<1>12. \A d \in Callers \ {c} : caller[d].s = s => Sound(d, caller[d], x)
  <2>1. \A d \in Callers \ {c} : caller[d].s = s => x.open \/ InUse(caller[d])
    <3>1. \A d \in Callers \ {c} : caller[c].call = "dial" /\ caller[d].s = s
                                   => InUse(caller[d])
      BY Known DEF Apart, s
    <3>. QED
      BY <1>5, <3>1
  <2>. QED
    BY <1>1, <1>2, <2>1, OthersSound
<1>13. \A d \in Callers \ {c} : Apart(Idle, caller[d]) /\ Apart(caller[d], Idle)
  BY <1>6, IdleApart
<1>14. SlotsFree'
  BY <1>1, <1>4 DEF SlotsFree
<1>15. /\ steppedDown' \in BOOLEAN /\ (steppedDown => steppedDown')
       /\ play' = play /\ changes' \in 0..MaxChanges
  BY <1>4, Known
<1>. QED
  BY <1>1, <1>6, <1>7, <1>8, <1>9, <1>10, <1>11, <1>12, <1>13, <1>14, <1>15, Step

\* The socket the cluster returns fits in the session, or a server stepped down.
LEMMA GivenInv ==
  ASSUME SessionAssumption, SessionIInv, NEW c \in Callers, NEW k \in Connections,
         NEW master \in BOOLEAN, Given(c, k, master)
  PROVE  SessionIInv'
<1> DEFINE s == caller[c].s
           slaveOk == caller[c].slaveOk
           down == ~master /\ ~(slaveOk /\ session[s].slaveOk)
           crash == Keeps(session[s]) /\ Taken(session[s], master)
           kept == Keeps(session[s]) /\ ~crash
           used == [session[s] EXCEPT !.lock = None, !.wrote = @ \/ caller[c].call = "write"]
           filled == IF kept THEN setSocket(used, k, master) ELSE used
           x == Switch(filled, slaveOk)
           y == [caller[c] EXCEPT !.at = "using", !.sock = k]
           z == [refs |-> IF kept THEN 2 ELSE 1, master |-> master,
                 logins |-> session[s].creds]
<1>1. /\ caller[c] \in CallerType /\ s \in Sessions /\ caller[c].sock = None
      /\ caller[c].call # "idle" /\ (caller[c].call = "write" => ~slaveOk)
      /\ caller[c].call = "login" => slaveOk /\ caller[c].cred \in Creds
      /\ session[s] \in SessionType /\ session[s].open
      /\ Sound(c, caller[c], session[s]) /\ SlotsFit(session[s], socket, steppedDown)
      /\ \A d \in Callers \ {c} : caller[d].s = s => caller[d].call # "dial"
      /\ ~InUse(caller[c]) /\ caller[c].at = "asking" /\ sessionPanic = "none"
  BY Waiting DEF Given, InUse
<1>2. session[s].lock = c /\ Found(session[s], slaveOk) = None
  BY <1>1 DEF Sound
<1>3. /\ session[s].masterSocket = None
      /\ session[s].slaveOk /\ slaveOk => session[s].slaveSocket = None
  BY <1>2 DEF Found
<1>4. socket[k].refs = 0
  <2>1. k \in Spare
    BY DEF Given
  <2>. QED
    BY <2>1 DEF Spare
<1>5. session[s].slaveSocket # k
  <2>1. \A t \in Sessions : session[t].slaveSocket = k => socket[k].refs > 0
    BY Referred DEF SessionIInv
  <2>. QED
    BY <1>1, <1>4, <2>1
<1>6. /\ session' = [session EXCEPT ![s] = x] /\ caller' = [caller EXCEPT ![c] = y]
      /\ socket' = [socket EXCEPT ![k] = z]
      /\ steppedDown' = (steppedDown \/ down)
      /\ sessionPanic' = IF crash THEN "setSocket with existing socket reserved" ELSE "none"
      /\ play' = play /\ changes' = changes
  BY <1>1, Known DEF Given
<1>7. /\ used \in SessionType /\ used.open /\ used.lock = None
      /\ used.masterSocket = session[s].masterSocket
      /\ used.slaveSocket = session[s].slaveSocket
      /\ used.consistency = session[s].consistency
      /\ used.wrote <=> session[s].wrote \/ caller[c].call = "write"
  BY <1>1 DEF SessionType
<1>8. /\ filled \in SessionType /\ filled.open /\ filled.lock = None
      /\ filled.masterSocket = (IF kept /\ master THEN k ELSE session[s].masterSocket)
      /\ filled.slaveSocket = (IF kept /\ ~master THEN k ELSE session[s].slaveSocket)
      /\ filled.consistency = session[s].consistency
      /\ filled.wrote <=> session[s].wrote \/ caller[c].call = "write"
  <2> HIDE DEF used, kept
  <2>1. CASE kept /\ master
    BY <1>7, <2>1 DEF SessionType, setSocket
  <2>2. CASE kept /\ ~master
    BY <1>7, <2>2 DEF SessionType, setSocket
  <2>3. CASE ~kept
    BY <1>7, <2>3
  <2>. QED
    BY <2>1, <2>2, <2>3
<1>9. /\ x \in SessionType /\ x.open /\ x.lock = None
      /\ x.masterSocket = filled.masterSocket /\ x.slaveSocket = filled.slaveSocket
      /\ x.consistency = filled.consistency /\ x.wrote = filled.wrote
  <2> HIDE DEF filled
  <2>. QED
    BY <1>8 DEF SessionType, Switch
<1>10. /\ y \in CallerType /\ y.s = s /\ y.sock = k /\ y.call = caller[c].call
       /\ y.at = "using" /\ y.slaveOk = slaveOk /\ y.cred = caller[c].cred
  BY <1>1 DEF CallerType
<1>11. z \in SocketType /\ z.refs = (IF kept THEN 2 ELSE 1) /\ z.master = master
  BY <1>1 DEF SocketType, SessionType
<1>12. /\ crash => steppedDown'
       /\ kept /\ ~master => session[s].slaveSocket = None
  <2>1. crash => ~master /\ session[s].slaveSocket # None
    BY <1>3 DEF Taken
  <2>2. kept /\ ~master => session[s].slaveSocket = None
    BY DEF Taken
  <2>3. crash => down
    BY <1>3, <2>1
  <2>. QED
    BY <1>6, <2>2, <2>3
<1>13. session[s].consistency = "monotonic" => kept \/ crash
  BY DEF Keeps
<1>14. steppedDown' \in BOOLEAN /\ (steppedDown => steppedDown') /\ (down => steppedDown')
       /\ (sessionPanic' # "none" => crash)
  BY <1>6, Known
<1>15. ~slaveOk /\ ~master => down
  OBVIOUS
<1> HIDE DEF x, y, z, used, filled, kept, crash, down, slaveOk, s
<1>16. /\ session' \in [Sessions -> SessionType] /\ session'[s] = x
       /\ \A t \in Sessions \ {s} : session'[t] = session[t]
       /\ caller' \in [Callers -> CallerType] /\ caller'[c] = y
       /\ \A d \in Callers \ {c} : caller'[d] = caller[d]
  BY <1>1, <1>6, <1>9, <1>10, Known
<1>17. /\ socket' \in [Connections -> SocketType] /\ socket'[k] = z
       /\ \A n \in Connections \ {k} : socket'[n] = socket[n]
  BY <1>6, <1>11, Known
<1>18. \A n \in Connections : /\ socket'[n].refs + Held(n, session[s], caller[c])
                                 = socket[n].refs + Held(n, x, y)
                              /\ socket[n].refs > 0 /\ socket'[n].refs > 0
                                 => socket'[n].master = socket[n].master
  <2> SUFFICES ASSUME NEW n \in Connections
               PROVE  /\ socket'[n].refs + Held(n, session[s], caller[c])
                         = socket[n].refs + Held(n, x, y)
                      /\ socket[n].refs > 0 => socket'[n].master = socket[n].master
    OBVIOUS
  <2>1. socket[n].refs \in Nat
    BY Known DEF SocketType
  <2>2. CASE n = k
    <3>1. Held(n, session[s], caller[c]) = 0
      BY <1>1, <1>3, <1>5, <2>2 DEF Held, One, SessionAssumption
    <3>2. Held(n, x, y) = IF kept THEN 2 ELSE 1
      BY <1>3, <1>5, <1>8, <1>9, <1>10, <1>12, <2>2 DEF Held, One, SessionAssumption
    <3>. QED
      BY <1>4, <1>11, <1>17, <2>2, <3>1, <3>2
  <2>3. CASE n # k
    <3>1. Held(n, session[s], caller[c]) = Held(n, x, y)
      BY <1>1, <1>3, <1>8, <1>9, <1>10, <1>12, <2>3 DEF Held, One, SessionAssumption
    <3>2. Held(n, x, y) \in Nat
      BY DEF Held, One
    <3>. QED
      BY <1>17, <2>1, <2>3, <3>1, <3>2
  <2>. QED
    BY <2>2, <2>3
<1>19. SlotsFit(x, socket', steppedDown')
  <2>1. x.masterSocket # None => x.masterSocket = k /\ kept /\ master
    BY <1>3, <1>8, <1>9
  <2>2. x.masterSocket # None => /\ x.masterSocket # x.slaveSocket
                                 /\ socket'[x.masterSocket].master
    <3>1. x.masterSocket # None => x.slaveSocket = session[s].slaveSocket
      BY <1>8, <1>9, <2>1
    <3>. QED
      BY <1>5, <1>11, <1>17, <2>1, <3>1
  <2>3. ASSUME x.consistency = "monotonic", x.wrote, x.open
        PROVE  steppedDown' \/ x.masterSocket # None
    <3>1. kept \/ crash
      BY <1>8, <1>9, <1>13, <2>3
    <3>2. CASE crash
      BY <1>12, <3>2
    <3>3. CASE kept /\ master
      BY <1>8, <1>9, <3>3 DEF SessionAssumption
    <3>4. CASE ~master /\ caller[c].call = "write"
      BY <1>1, <1>14, <1>15, <3>4
    <3>5. CASE session[s].wrote
      BY <1>1, <1>3, <1>8, <1>9, <1>14, <2>3, <3>5 DEF SlotsFit
    <3>. QED
      BY <1>8, <1>9, <2>3, <3>1, <3>2, <3>3, <3>4, <3>5
  <2>. QED
    BY <2>2, <2>3 DEF SlotsFit
<1>20. CallerOk(y) /\ Sound(c, y, x)
  <2>1. CallerOk(y)
    BY <1>1, <1>10 DEF CallerOk, SessionAssumption
  <2>2. y.call = "dial" => /\ x.consistency = "eventual"
                           /\ x.masterSocket = None /\ x.slaveSocket = None
    <3>1. y.call = "dial" => session[s].consistency = "eventual" /\ session[s].slaveSocket = None
      BY <1>1, <1>10 DEF Sound
    <3>2. y.call = "dial" => ~kept
      BY <3>1 DEF kept, Keeps
    <3>. QED
      BY <1>3, <1>8, <1>9, <3>1, <3>2
  <2>3. Sound(c, y, x)
    BY <1>9, <1>10, <2>2 DEF Sound
  <2>. QED
    BY <2>1, <2>3
<1>21. \A d \in Callers \ {c} : /\ caller[d].s = s => Sound(d, caller[d], x)
                                /\ Apart(y, caller[d]) /\ Apart(caller[d], y)
  <2>1. \A d \in Callers \ {c} : caller[d].s = s => Sound(d, caller[d], x)
    BY <1>1, <1>2, <1>9, OthersSound
  <2>2. y.s = caller[c].s
    BY <1>10 DEF s
  <2>. QED
    BY <1>1, <1>10, <2>1, <2>2, GoesOn
<1>22. SlotsFree'
  BY <1>12, <1>14 DEF SlotsFree
<1>23. play' = play /\ changes' \in 0..MaxChanges
  BY <1>6, Known
<1>24. caller'[c].at # "idle" => Sound(c, caller'[c], session'[caller'[c].s])
  BY <1>10, <1>16, <1>20
<1>. QED
  BY <1>1, <1>14, <1>16, <1>17, <1>18, <1>19, <1>20, <1>21, <1>22, <1>23, <1>24, Step

\* A call that has its socket gives it back, and may leave its session otherwise,
\* but for what it reserves.
LEMMA CallEnds ==
  ASSUME SessionAssumption, SessionIInv, NEW c \in Callers, NEW s \in Sessions,
         caller[c].s = s, caller[c].sock \in Connections, sessionPanic = "none",
         session' \in [Sessions -> SessionType],
         \A t \in Sessions \ {s} : session'[t] = session[t],
         session'[s].masterSocket = session[s].masterSocket,
         session'[s].slaveSocket = session[s].slaveSocket,
         session'[s].consistency = "monotonic"
           => /\ session[s].consistency = "monotonic"
              /\ session'[s].wrote = session[s].wrote
              /\ session'[s].open = session[s].open,
         caller' = [caller EXCEPT ![c] = Idle], socket' = ReleaseSockets({caller[c].sock}),
         play' = play, changes' = changes, steppedDown' = steppedDown,
         sessionPanic' = sessionPanic,
         \A d \in Callers \ {c} : caller[d].s = s => Sound(d, caller[d], session'[s])
  PROVE  SessionIInv'
<1> DEFINE k == caller[c].sock
<1>1. SessionTypeOK /\ SharesCounted
  BY DEF SessionIInv
<1>2. /\ Idle \in CallerType /\ Idle.s = None /\ Idle.sock = None /\ Idle.call = "idle"
      /\ Idle.at = "idle"
  BY DEF Idle, CallerType
<1>3. /\ caller' \in [Callers -> CallerType] /\ caller'[c] = Idle
      /\ \A d \in Callers \ {c} : caller'[d] = caller[d]
  BY <1>2, Known
<1>4. socket[k].refs > 0
  BY <1>1, Referred
<1>5. /\ socket' \in [Connections -> SocketType]
      /\ \A n \in Connections :
           /\ socket'[n].refs + One(n = k) = socket[n].refs
           /\ socket'[n].refs > 0 => socket'[n].master = socket[n].master
  <2>1. \A n \in Connections : n \in {k} => socket[n].refs > 0
    BY <1>4
  <2>2. socket' = ReleaseSockets({k})
    OBVIOUS
  <2> HIDE DEF k
  <2>3. /\ socket' \in [Connections -> SocketType]
        /\ \A n \in Connections :
             /\ socket'[n].refs + One(n \in {k}) = socket[n].refs
             /\ socket'[n].refs > 0 => socket'[n].master = socket[n].master
    BY <1>1, <2>1, <2>2, Releasing
  <2>4. \A n \in Connections : One(n \in {k}) = One(n = k)
    BY DEF One
  <2>. QED
    BY <2>3, <2>4
<1>6. \A n \in Connections : socket'[n].refs + Held(n, session[s], caller[c])
                         = socket[n].refs + Held(n, session'[s], caller'[c])
  <2> SUFFICES ASSUME NEW n \in Connections
               PROVE  socket'[n].refs + Held(n, session[s], caller[c])
                      = socket[n].refs + Held(n, session'[s], Idle)
    BY <1>3
  <2>1. socket[n].refs \in Nat /\ socket'[n].refs \in Nat
    BY <1>5, Known DEF SocketType
  <2>2. socket'[n].refs + One(n = k) = socket[n].refs
    BY <1>5
  <2>3. /\ One(session[s].masterSocket = n) \in Nat /\ One(session[s].slaveSocket = n) \in Nat
        /\ One(n = k) \in Nat
    BY DEF One
  <2>4. /\ Held(n, session[s], caller[c]) = One(session[s].masterSocket = n)
             + One(session[s].slaveSocket = n) + One(n = k)
        /\ Held(n, session'[s], Idle) = One(session[s].masterSocket = n)
             + One(session[s].slaveSocket = n) + 0
    BY <1>2 DEF Held, One, SessionAssumption
  <2>. QED
    BY <2>1, <2>2, <2>3, <2>4
<1>7. SharesCounted'
  BY <1>1, <1>3, <1>5, <1>6, SharesMoved
<1>8. SessionTypeOK'
  <2>1. play' \in Plays /\ changes' \in 0..MaxChanges /\ steppedDown' \in BOOLEAN
    BY Known
  <2>. QED
    BY <1>3, <1>5, <2>1 DEF SessionTypeOK, SessionType, CallerType, SocketType
<1>9. SlotsFit(session'[s], socket', steppedDown')
  <2>1. SlotsFit(session[s], socket, steppedDown)
    BY Known DEF SessionOk
  <2>2. ASSUME session'[s].masterSocket # None
        PROVE  socket'[session'[s].masterSocket].master
    <3>1. session'[s].masterSocket \in Connections
      BY <2>2 DEF SessionType
    <3>2. socket'[session'[s].masterSocket].refs > 0
      BY <1>7, <1>8, <3>1, ReferredNext
    <3>. QED
      BY <1>5, <2>1, <2>2, <3>1, <3>2, ZenonT(60) DEF SlotsFit
  <2>3. session'[s].consistency = "monotonic" /\ session'[s].wrote /\ session'[s].open
        => steppedDown' \/ session'[s].masterSocket # None
    BY <2>1 DEF SlotsFit
  <2>. QED
    BY <2>1, <2>2, <2>3 DEF SlotsFit
<1>10. CallerOk(caller'[c]) /\ caller'[c].at = "idle"
  BY <1>2, <1>3 DEF CallerOk
<1>11. \A d \in Callers \ {c} : Apart(caller'[c], caller[d]) /\ Apart(caller[d], caller'[c])
  BY <1>2, <1>3, IdleApart
<1>12. SlotsFree'
  BY DEF SlotsFree
<1>13. /\ steppedDown' \in BOOLEAN /\ (steppedDown => steppedDown')
       /\ changes' \in 0..MaxChanges
  BY Known
<1>14. \A n \in Connections :
         /\ socket'[n].refs + Held(n, session[s], caller[c])
            = socket[n].refs + Held(n, session'[s], caller'[c])
         /\ socket[n].refs > 0 /\ socket'[n].refs > 0
            => socket'[n].master = socket[n].master
  BY <1>5, <1>6
<1>15. \A d \in Callers \ {c} :
         /\ caller[d].s = s => Sound(d, caller[d], session'[s])
         /\ Apart(caller'[c], caller[d]) /\ Apart(caller[d], caller'[c])
  BY <1>11
<1>16. caller'[c].at # "idle" => Sound(c, caller'[c], session'[caller'[c].s])
  BY <1>10
<1> HIDE DEF k
<1>. QED
  BY <1>3, <1>5, <1>9, <1>10, <1>12, <1>13, <1>14, <1>15, <1>16, Step

\* What a goroutine that uses its socket starts from.
LEMMA Using ==
  ASSUME SessionAssumption, SessionIInv, NEW c \in Callers,
         caller[c].at \in {"using", "noting"}
  PROVE  /\ caller[c] \in CallerType /\ caller[c].s \in Sessions /\ caller[c].sock \in Connections
         /\ CallerOk(caller[c])
         /\ session[caller[c].s] \in SessionType
         /\ Sound(c, caller[c], session[caller[c].s])
         /\ \A d \in Callers \ {c} : caller[d].s = caller[c].s
              => Sound(d, caller[d], session[caller[c].s])
<1>1. /\ caller[c] \in CallerType /\ caller[c].s \in Sessions
      /\ CallerOk(caller[c]) /\ Sound(c, caller[c], session[caller[c].s])
  BY Known
<1>2. session[caller[c].s] \in SessionType
  BY <1>1, Known
<1>3. caller[c].sock \in Connections
  BY <1>1 DEF CallerOk, CallerType
<1>4. \A d \in Callers \ {c} : caller[d].s = caller[c].s
              => Sound(d, caller[d], session[caller[c].s])
  <2>1. \A d \in Callers : caller[d].s \in Sessions => caller[d].at # "idle"
    BY Known DEF CallerOk, SessionAssumption
  <2>. QED
    BY <1>1, <2>1, Known
<1>. QED
  BY <1>1, <1>2, <1>3, <1>4

LEMMA DoneInv ==
  ASSUME SessionAssumption, SessionIInv, NEW c \in Callers, Done(c)
  PROVE  SessionIInv'
<1> DEFINE s == caller[c].s
<1>1. /\ caller[c].at = "using" /\ s \in Sessions /\ caller[c].sock \in Connections
      /\ session[s] \in SessionType /\ Sound(c, caller[c], session[s])
      /\ \A d \in Callers \ {c} : caller[d].s = s => Sound(d, caller[d], session[s])
  BY Using DEF Done
<1>2. /\ sessionPanic = "none" /\ caller' = [caller EXCEPT ![c] = Idle]
      /\ socket' = ReleaseSockets({caller[c].sock}) /\ play' = play /\ changes' = changes
      /\ steppedDown' = steppedDown /\ sessionPanic' = sessionPanic
  BY DEF Done
<1>3. CASE caller[c].call # "dial"
  <2>1. session' = session
    BY <1>3 DEF Done
  <2>. QED
    BY <1>1, <1>2, <2>1, Known, CallEnds
<1>4. CASE caller[c].call = "dial"
  <2>1. PICK x \in {Dialled(session[s]), Failed(c, session[s])} :
               session' = [session EXCEPT ![s] = x]
    BY <1>4 DEF Done
  <2>2. /\ session[s].consistency = "eventual"
        /\ session[s].masterSocket = None /\ session[s].slaveSocket = None
    BY <1>1, <1>4 DEF Sound
  <2>3. /\ x \in SessionType /\ x.consistency # "monotonic"
        /\ x.masterSocket = None /\ x.slaveSocket = None
    <3>1. CASE x = Dialled(session[s])
      BY <1>1, <3>1 DEF SessionType, Dialled, unsetSocket, Modes
    <3>2. CASE x = Failed(c, session[s])
      BY <1>1, <1>4, <2>2, <3>2 DEF SessionType, Failed, unsetSocket
    <3>. QED
      BY <3>1, <3>2
  <2>4. /\ session' \in [Sessions -> SessionType] /\ session'[s] = x
        /\ \A t \in Sessions \ {s} : session'[t] = session[t]
    BY <1>1, <2>1, <2>3, Known
  <2>5. \A d \in Callers \ {c} : caller[d].s = s => InUse(caller[d])
    BY <1>4, Known DEF Apart
  <2>6. \A d \in Callers \ {c} : caller[d].s = s => Sound(d, caller[d], session'[s])
    BY <2>5 DEF Sound, InUse
  <2>. QED
    BY <1>1, <1>2, <2>2, <2>3, <2>4, <2>6, CallEnds, ZenonT(60)
<1>. QED
  BY <1>3, <1>4

LEMMA NotedInv ==
  ASSUME SessionAssumption, SessionIInv, NEW c \in Callers, Noted(c)
  PROVE  SessionIInv'
<1> DEFINE s == caller[c].s
           x == [session[s] EXCEPT !.creds = @ \cup {caller[c].cred}]
<1>1. /\ caller[c].at = "noting" /\ s \in Sessions /\ caller[c].sock \in Connections
      /\ session[s] \in SessionType /\ Sound(c, caller[c], session[s])
      /\ \A d \in Callers \ {c} : caller[d].s = s => Sound(d, caller[d], session[s])
      /\ caller[c] \in CallerType /\ CallerOk(caller[c])
  BY Using DEF Noted
<1>2. /\ sessionPanic = "none" /\ caller' = [caller EXCEPT ![c] = Idle]
      /\ socket' = ReleaseSockets({caller[c].sock}) /\ play' = play /\ changes' = changes
      /\ steppedDown' = steppedDown /\ sessionPanic' = sessionPanic
  BY DEF Noted
<1>3. session' = [session EXCEPT ![s] = x]
  BY <1>1, Known DEF Noted
<1>4. caller[c].cred \in Creds
  BY <1>1 DEF CallerOk
<1>5. /\ x \in SessionType /\ x.open = session[s].open /\ x.lock = session[s].lock
      /\ x.masterSocket = session[s].masterSocket
      /\ x.slaveSocket = session[s].slaveSocket
      /\ x.consistency = session[s].consistency
      /\ x.wrote = session[s].wrote /\ x.slaveOk = session[s].slaveOk
  BY <1>1, <1>4 DEF SessionType
<1> HIDE DEF x
<1>6. /\ session' \in [Sessions -> SessionType] /\ session'[s] = x
      /\ \A t \in Sessions \ {s} : session'[t] = session[t]
  BY <1>1, <1>3, <1>5, Known
<1>7. \A d \in Callers \ {c} : caller[d].s = s => Sound(d, caller[d], session'[s])
  BY <1>1, <1>5, <1>6 DEF Sound, Found
<1>8. /\ session'[s].masterSocket = session[s].masterSocket
      /\ session'[s].slaveSocket = session[s].slaveSocket
      /\ session'[s].consistency = "monotonic"
         => /\ session[s].consistency = "monotonic"
            /\ session'[s].wrote = session[s].wrote
            /\ session'[s].open = session[s].open
  BY <1>5, <1>6
<1>9. \A t \in Sessions \ {s} : session'[t] = session[t]
  BY <1>6
<1>10. /\ session' \in [Sessions -> SessionType]
       /\ s \in Sessions /\ caller[c].s = s /\ caller[c].sock \in Connections
  BY <1>1, <1>6
<1> HIDE DEF s
<1>. QED
  BY <1>2, <1>7, <1>8, <1>9, <1>10, CallEnds

LEMMA LoggedInInv ==
  ASSUME SessionAssumption, SessionIInv, NEW c \in Callers, LoggedIn(c)
  PROVE  SessionIInv'
<1> DEFINE s == caller[c].s
           k == caller[c].sock
           y == [caller[c] EXCEPT !.at = "noting"]
           z == [socket[k] EXCEPT !.logins = @ \cup {caller[c].cred}]
<1>1. /\ caller[c].at = "using" /\ caller[c].call = "login" /\ s \in Sessions /\ k \in Connections
      /\ session[s] \in SessionType /\ Sound(c, caller[c], session[s])
      /\ \A d \in Callers \ {c} : caller[d].s = s => Sound(d, caller[d], session[s])
      /\ caller[c] \in CallerType /\ CallerOk(caller[c]) /\ socket[k] \in SocketType
  BY Using, Known DEF LoggedIn
<1>2. /\ caller' = [caller EXCEPT ![c] = y] /\ socket' = [socket EXCEPT ![k] = z]
  BY <1>1, Known DEF LoggedIn
<1>3. /\ session' = session /\ sessionPanic = "none" /\ play' = play /\ changes' = changes
      /\ steppedDown' = steppedDown /\ sessionPanic' = sessionPanic
  BY DEF LoggedIn
<1>4. caller[c].cred \in Creds /\ caller[c].sock # None
  BY <1>1 DEF CallerOk
<1>5. /\ y \in CallerType /\ y.s = s /\ y.sock = k /\ y.call = "login" /\ y.at = "noting"
      /\ y.slaveOk = caller[c].slaveOk /\ y.cred = caller[c].cred
  BY <1>1 DEF CallerType
<1>6. z \in SocketType /\ z.refs = socket[k].refs /\ z.master = socket[k].master
  BY <1>1, <1>4 DEF SocketType
<1>7. ~InUse(caller[c])
  BY <1>1 DEF InUse
<1> HIDE DEF y, z
<1>8. /\ caller' \in [Callers -> CallerType] /\ caller'[c] = y
      /\ \A d \in Callers \ {c} : caller'[d] = caller[d]
  BY <1>2, <1>5, Known
<1>9. /\ socket' \in [Connections -> SocketType]
      /\ \A n \in Connections : /\ socket'[n].refs = socket[n].refs
                                /\ socket'[n].master = socket[n].master
  <2>1. socket' \in [Connections -> SocketType]
    BY <1>2, <1>6, Known
  <2>2. \A n \in Connections : socket'[n] = IF n = k THEN z ELSE socket[n]
    BY <1>1, <1>2, Known
  <2>. QED
    BY <1>6, <2>1, <2>2
<1>10. /\ session' \in [Sessions -> SessionType] /\ session'[s] = session[s]
       /\ \A t \in Sessions \ {s} : session'[t] = session[t]
  BY <1>3, Known
<1>11. \A n \in Connections : socket'[n].refs + Held(n, session[s], caller[c])
                          = socket[n].refs + Held(n, session'[s], caller'[c])
  BY <1>5, <1>8, <1>9, <1>10 DEF Held
<1>12. SlotsFit(session'[s], socket', steppedDown')
  <2>1. SlotsFit(session[s], socket, steppedDown)
    BY <1>1, Known DEF SessionOk
  <2>2. session[s].masterSocket # None => session[s].masterSocket \in Connections
    BY <1>1 DEF SessionType
  <2>. QED
    BY <1>3, <1>9, <1>10, <2>1, <2>2 DEF SlotsFit
<1>13. CallerOk(y) /\ Sound(c, y, session[s])
  <2>1. CallerOk(y)
    BY <1>1, <1>4, <1>5 DEF CallerOk
  <2>2. session[s].open
    BY <1>1, <1>7 DEF Sound
  <2>3. Sound(c, y, session[s])
    BY <1>5, <2>2 DEF Sound
  <2>. QED
    BY <2>1, <2>3
<1>14. \A d \in Callers \ {c} : /\ caller[d].s = s => Sound(d, caller[d], session'[s])
                                /\ Apart(y, caller[d]) /\ Apart(caller[d], y)
  BY <1>1, <1>5, <1>7, <1>10, GoesOn
<1>15. SlotsFree'
  BY <1>3 DEF SlotsFree
<1>16. /\ steppedDown' \in BOOLEAN /\ (steppedDown => steppedDown')
       /\ play' = play /\ changes' \in 0..MaxChanges
  BY <1>3, Known
<1>17. caller'[c].at # "idle" => Sound(c, caller'[c], session'[caller'[c].s])
  BY <1>5, <1>8, <1>10, <1>13
<1> HIDE DEF s, k
<1>. QED
  BY <1>1, <1>8, <1>9, <1>10, <1>11, <1>12, <1>13, <1>14, <1>15, <1>16, <1>17, Step

----------------------------------------------------------------------------
(* The methods that run under the lock from beginning to end               *)

\* The references that a session stands for.
Reserves(k, x) == One(x.masterSocket = k) + One(x.slaveSocket = k)

LEMMA ReservedIs ==
  ASSUME SessionAssumption, NEW x, x.masterSocket # None => x.masterSocket # x.slaveSocket
  PROVE  \A k \in Connections : Reserves(k, x) = One(k \in Reserved(x))
<1> SUFFICES ASSUME NEW k \in Connections PROVE Reserves(k, x) = One(k \in Reserved(x))
  OBVIOUS
<1>1. k # None
  BY DEF SessionAssumption
<1>2. k \in Reserved(x) <=> x.masterSocket = k \/ x.slaveSocket = k
  BY <1>1 DEF Reserved
<1>3. ~(x.masterSocket = k /\ x.slaveSocket = k)
  BY <1>1
<1>. QED
  BY <1>2, <1>3 DEF Reserves, One

\* One session changes, no call does.
LEMMA AtRest ==
  ASSUME SessionAssumption, SessionIInv, NEW c \in Callers, NEW call, May(c, call),
         NEW s \in Sessions, session[s].lock = None,
         \A d \in Callers : caller[d].s = s =>
            /\ caller[d].call # "dial"
            /\ session'[s].open \/ ~session[s].open \/ InUse(caller[d]),
         session' \in [Sessions -> SessionType],
         \A t \in Sessions \ {s} : session'[t] = session[t],
         caller' = caller, socket' \in [Connections -> SocketType],
         \A k \in Connections :
            /\ socket'[k].refs + Reserves(k, session[s])
               = socket[k].refs + Reserves(k, session'[s])
            /\ socket[k].refs > 0 /\ socket'[k].refs > 0
               => socket'[k].master = socket[k].master,
         play' = play, changes' \in 0..MaxChanges, steppedDown' = steppedDown,
         sessionPanic' = sessionPanic,
         SlotsFit(session'[s], socket', steppedDown')
  PROVE  SessionIInv'
<1>1. /\ caller[c].sock = None /\ caller[c].at = "idle" /\ caller[c].call = "idle"
      /\ caller[c].s = None /\ sessionPanic = "none"
  BY MayIs
<1>2. /\ caller' \in [Callers -> CallerType] /\ caller'[c] = caller[c]
      /\ \A d \in Callers \ {c} : caller'[d] = caller[d]
  BY Known
<1>3. \A k \in Connections : socket'[k].refs + Held(k, session[s], caller[c])
                         = socket[k].refs + Held(k, session'[s], caller'[c])
  <2> SUFFICES ASSUME NEW k \in Connections
               PROVE  socket'[k].refs + Held(k, session[s], caller[c])
                      = socket[k].refs + Held(k, session'[s], caller[c])
    BY <1>2
  <2>1. /\ Held(k, session[s], caller[c]) = Reserves(k, session[s]) + 0
        /\ Held(k, session'[s], caller[c]) = Reserves(k, session'[s]) + 0
    BY <1>1 DEF Held, Reserves, One, SessionAssumption
  <2>2. Reserves(k, session[s]) \in Nat /\ Reserves(k, session'[s]) \in Nat
    BY DEF Reserves, One
  <2>3. socket'[k].refs + Reserves(k, session[s]) = socket[k].refs + Reserves(k, session'[s])
    OBVIOUS
  <2>. QED
    BY <2>1, <2>2, <2>3
<1>4. CallerOk(caller'[c]) /\ caller'[c].at = "idle"
  BY <1>1, <1>2, Known
<1>5. \A d \in Callers \ {c} : caller[d].s = s => Sound(d, caller[d], session'[s])
  BY OthersSound
<1>6. \A d \in Callers \ {c} : Apart(caller'[c], caller[d]) /\ Apart(caller[d], caller'[c])
  BY <1>1, <1>2, IdleApart
<1>7. SlotsFree'
  BY <1>1 DEF SlotsFree
<1>8. steppedDown' \in BOOLEAN /\ (steppedDown => steppedDown')
  BY Known
<1>9. \A k \in Connections : socket[k].refs > 0 /\ socket'[k].refs > 0
                         => socket'[k].master = socket[k].master
  OBVIOUS
<1>. QED
  BY <1>2, <1>3, <1>4, <1>5, <1>6, <1>7, <1>8, <1>9, Step

\* The session gives back what it has reserved.
LEMMA LetsGo ==
  ASSUME SessionAssumption, SessionIInv, NEW c \in Callers, NEW call, May(c, call),
         NEW s \in Sessions, session[s].lock = None,
         \A d \in Callers : caller[d].s = s =>
            /\ caller[d].call # "dial"
            /\ session'[s].open \/ InUse(caller[d]),
         session' \in [Sessions -> SessionType],
         \A t \in Sessions \ {s} : session'[t] = session[t],
         session'[s].masterSocket = None, session'[s].slaveSocket = None,
         ~session'[s].wrote \/ ~session'[s].open,
         caller' = caller, socket' = ReleaseSockets(Reserved(session[s])),
         play' = play, changes' \in 0..MaxChanges, steppedDown' = steppedDown,
         sessionPanic' = sessionPanic
  PROVE  SessionIInv'
<1>1. SessionTypeOK /\ SharesCounted /\ SlotsFit(session[s], socket, steppedDown)
  BY DEF SessionIInv, SessionOk
<1>2. \A k \in Connections : k \in Reserved(session[s]) => socket[k].refs > 0
  BY <1>1, Referred DEF Reserved
<1>3. /\ socket' \in [Connections -> SocketType]
      /\ \A k \in Connections :
           /\ socket'[k].refs + One(k \in Reserved(session[s])) = socket[k].refs
           /\ socket'[k].refs > 0 => socket'[k].master = socket[k].master
  BY <1>1, <1>2, Releasing
<1>4. \A k \in Connections : /\ Reserves(k, session[s]) = One(k \in Reserved(session[s]))
                             /\ Reserves(k, session'[s]) = 0
  <2>1. \A k \in Connections : Reserves(k, session[s]) = One(k \in Reserved(session[s]))
    BY <1>1, ReservedIs DEF SlotsFit
  <2>2. \A k \in Connections : Reserves(k, session'[s]) = 0
    BY DEF Reserves, One, SessionAssumption
  <2>. QED
    BY <2>1, <2>2
<1>5. \A k \in Connections :
        /\ socket'[k].refs + Reserves(k, session[s]) = socket[k].refs + Reserves(k, session'[s])
        /\ socket[k].refs > 0 /\ socket'[k].refs > 0 => socket'[k].master = socket[k].master
  <2> SUFFICES ASSUME NEW k \in Connections
               PROVE  socket'[k].refs + One(k \in Reserved(session[s])) = socket[k].refs + 0
    BY <1>3, <1>4
  <2>1. socket[k].refs \in Nat
    BY Known DEF SocketType
  <2>. QED
    BY <1>3, <2>1
<1>6. SlotsFit(session'[s], socket', steppedDown')
  BY DEF SlotsFit
<1>. QED
  BY <1>3, <1>5, <1>6, AtRest

LEMMA ReadyIs ==
  ASSUME NEW x \in SessionType
  PROVE  /\ Ready(x) \in SessionType /\ Ready(x).open = x.open /\ Ready(x).lock = x.lock
         /\ Ready(x).masterSocket = None /\ Ready(x).slaveSocket = None
         /\ ~Ready(x).wrote /\ Ready(x).consistency = x.consistency
BY DEF SessionType, Ready, unsetSocket

LEMMA RefreshInv ==
  ASSUME SessionAssumption, SessionIInv, NEW c \in Callers, NEW s \in Sessions, Refresh(c, s)
  PROVE  SessionIInv'
<1> DEFINE x == Ready(session[s])
<1>1. /\ May(c, "refresh") /\ session[s] \in SessionType /\ session[s].open
      /\ session[s].lock = None /\ \A d \in Callers : caller[d].s = s => caller[d].call # "dial"
  BY Known, UsableIs DEF Refresh
<1>2. session' = [session EXCEPT ![s] = x]
  BY <1>1, Known DEF Refresh
<1>3. /\ caller' = caller /\ socket' = ReleaseSockets(Reserved(session[s])) /\ play' = play
      /\ changes' = changes /\ steppedDown' = steppedDown /\ sessionPanic' = sessionPanic
  BY DEF Refresh
<1>4. /\ x \in SessionType /\ x.open /\ x.masterSocket = None /\ x.slaveSocket = None
      /\ ~x.wrote
  BY <1>1, ReadyIs
<1> HIDE DEF x
<1>5. /\ session' \in [Sessions -> SessionType] /\ session'[s] = x
      /\ \A t \in Sessions \ {s} : session'[t] = session[t]
  BY <1>2, <1>4, Known
<1>6. changes' \in 0..MaxChanges
  BY <1>3, Known
<1>. QED
  BY <1>1, <1>3, <1>4, <1>5, <1>6, LetsGo

LEMMA CloseInv ==
  ASSUME SessionAssumption, SessionIInv, NEW c \in Callers, NEW s \in Sessions, CloseSession(c, s)
  PROVE  SessionIInv'
<1> DEFINE x == [unsetSocket(session[s]) EXCEPT !.open = FALSE]
<1>1. /\ May(c, "close") /\ session[s] \in SessionType
      /\ session[s].lock = None /\ \A d \in Callers : caller[d].s = s => caller[d].call # "dial"
  BY Known, UsableIs DEF CloseSession
<1>2. session' = [session EXCEPT ![s] = x]
  BY <1>1, Known DEF CloseSession
<1>3. /\ caller' = caller /\ socket' = ReleaseSockets(Reserved(session[s])) /\ play' = play
      /\ changes' = changes /\ steppedDown' = steppedDown /\ sessionPanic' = sessionPanic
  BY DEF CloseSession
<1>4. /\ x \in SessionType /\ ~x.open /\ x.masterSocket = None /\ x.slaveSocket = None
  BY <1>1 DEF SessionType, unsetSocket
<1>5. \A d \in Callers : caller[d].s = s => InUse(caller[d])
  BY DEF CloseSession, InUse
<1> HIDE DEF x
<1>6. /\ session' \in [Sessions -> SessionType] /\ session'[s] = x
      /\ \A t \in Sessions \ {s} : session'[t] = session[t]
  BY <1>2, <1>4, Known
<1>7. changes' \in 0..MaxChanges
  BY <1>3, Known
<1>. QED
  BY <1>1, <1>3, <1>4, <1>5, <1>6, <1>7, LetsGo

LEMMA Counted ==
  ASSUME SessionAssumption, SessionIInv, changes < MaxChanges, changes' = changes + 1
  PROVE  changes' \in 0..MaxChanges
<1>1. changes \in 0..MaxChanges /\ MaxChanges \in Nat
  BY Known DEF SessionAssumption
<1>. QED
  BY <1>1

LEMMA SetModeInv ==
  ASSUME SessionAssumption, SessionIInv, NEW c \in Callers, NEW s \in Sessions,
         NEW mode \in Modes, NEW refresh \in BOOLEAN, SetMode(c, s, mode, refresh)
  PROVE  SessionIInv'
<1> DEFINE w == [session[s] EXCEPT !.consistency = mode,
                                   !.wrote = @ /\ mode = session[s].consistency]
           slaveOk == IF mode = "strong" THEN FALSE
                      ELSE IF w.masterSocket = None THEN TRUE ELSE w.slaveOk
           x == IF refresh THEN Ready(w) ELSE [w EXCEPT !.slaveOk = slaveOk]
<1>1. /\ May(c, "mode") /\ session[s] \in SessionType /\ session[s].open
      /\ session[s].lock = None /\ \A d \in Callers : caller[d].s = s => caller[d].call # "dial"
  BY Known, UsableIs DEF SetMode
<1>2. session' = [session EXCEPT ![s] = x]
  BY <1>1, Known DEF SetMode
<1>3. /\ caller' = caller /\ play' = play
      /\ steppedDown' = steppedDown /\ sessionPanic' = sessionPanic
      /\ socket' = IF refresh THEN ReleaseSockets(Reserved(session[s])) ELSE socket
  BY DEF SetMode
<1>4. changes' \in 0..MaxChanges
  BY Counted DEF SetMode
<1>5. /\ w \in SessionType /\ w.open /\ w.consistency = mode
      /\ w.masterSocket = session[s].masterSocket /\ w.slaveSocket = session[s].slaveSocket
      /\ w.wrote => session[s].wrote /\ mode = session[s].consistency
  BY <1>1 DEF SessionType
<1>6. slaveOk \in BOOLEAN
  BY <1>5 DEF SessionType
<1> HIDE DEF w, slaveOk
<1>7. CASE refresh
  <2>1. /\ x \in SessionType /\ x.open /\ x.masterSocket = None /\ x.slaveSocket = None
        /\ ~x.wrote
    BY <1>5, <1>7, ReadyIs
  <2> HIDE DEF x
  <2>2. /\ session' \in [Sessions -> SessionType] /\ session'[s] = x
        /\ \A t \in Sessions \ {s} : session'[t] = session[t]
    BY <1>2, <2>1, Known
  <2>3. socket' = ReleaseSockets(Reserved(session[s]))
    BY <1>3, <1>7
  <2>. QED
    BY <1>1, <1>3, <1>4, <2>1, <2>2, <2>3, LetsGo
<1>8. CASE ~refresh
  <2>1. /\ x \in SessionType /\ x.open /\ x.consistency = mode
        /\ x.masterSocket = session[s].masterSocket /\ x.slaveSocket = session[s].slaveSocket
        /\ x.wrote => session[s].wrote /\ mode = session[s].consistency
    BY <1>5, <1>6, <1>8 DEF SessionType
  <2> HIDE DEF x
  <2>2. /\ session' \in [Sessions -> SessionType] /\ session'[s] = x
        /\ \A t \in Sessions \ {s} : session'[t] = session[t]
    BY <1>2, <2>1, Known
  <2>3. socket' = socket /\ socket' \in [Connections -> SocketType]
    BY <1>3, <1>8, Known
  <2>4. \A k \in Connections :
          /\ socket'[k].refs + Reserves(k, session[s]) = socket[k].refs + Reserves(k, session'[s])
          /\ socket'[k].master = socket[k].master
    BY <2>1, <2>2, <2>3 DEF Reserves
  <2>5. SlotsFit(x, socket', steppedDown')
    <3>1. SlotsFit(session[s], socket, steppedDown)
      BY Known DEF SessionOk
    <3>. QED
      BY <1>1, <1>3, <2>1, <2>3, <3>1 DEF SlotsFit
  <2>. QED
    BY <1>1, <1>3, <1>4, <2>1, <2>2, <2>3, <2>4, <2>5, AtRest
<1>. QED
  BY <1>7, <1>8

\* A session that is not in use yet, or no more, is only one of reads and writes.
LEMMA UnbornIs ==
  ASSUME SessionAssumption, SessionIInv, NEW t \in Sessions, session[t] = Unborn
  PROVE  /\ session[t].lock = None /\ ~session[t].open
         /\ session[t].masterSocket = None /\ session[t].slaveSocket = None
         /\ \A d \in Callers : caller[d].s = t => caller[d].call # "dial" /\ InUse(caller[d])
<1>1. /\ session[t].lock = None /\ ~session[t].open
      /\ session[t].masterSocket = None /\ session[t].slaveSocket = None
  BY DEF Unborn
<1>2. ASSUME NEW d \in Callers, caller[d].s = t
      PROVE  caller[d].call # "dial" /\ InUse(caller[d])
  <2>1. Sound(d, caller[d], session[t])
    BY <1>2, Known DEF CallerOk, SessionAssumption
  <2>. QED
    BY <1>1, <2>1 DEF Sound, InUse
<1>. QED
  BY <1>1, <1>2

LEMMA CopyInv ==
  ASSUME SessionAssumption, SessionIInv, NEW c \in Callers, NEW s \in Sessions,
         NEW t \in Sessions, Copy(c, s, t)
  PROVE  SessionIInv'
<1> DEFINE x == Ready(session[s])
<1>1. /\ May(c, "copy") /\ session[s] \in SessionType /\ session[s].open
      /\ session[t] = Unborn
  BY Known, UsableIs DEF Copy
<1>2. /\ session[t].lock = None /\ session[t].masterSocket = None
      /\ session[t].slaveSocket = None
      /\ \A d \in Callers : caller[d].s = t => caller[d].call # "dial" /\ InUse(caller[d])
  BY <1>1, UnbornIs
<1>3. /\ session' = [session EXCEPT ![t] = x]
      /\ caller' = caller /\ play' = play /\ socket' = socket
      /\ steppedDown' = steppedDown /\ sessionPanic' = sessionPanic
  BY DEF Copy
<1>4. changes' \in 0..MaxChanges
  BY Counted DEF Copy
<1>5. /\ x \in SessionType /\ x.masterSocket = None /\ x.slaveSocket = None /\ ~x.wrote
  BY <1>1, ReadyIs
<1> HIDE DEF x
<1>6. /\ session' \in [Sessions -> SessionType] /\ session'[t] = x
      /\ \A r \in Sessions \ {t} : session'[r] = session[r]
  BY <1>3, <1>5, Known
<1>7. /\ socket' \in [Connections -> SocketType]
      /\ \A k \in Connections :
          /\ socket'[k].refs + Reserves(k, session[t]) = socket[k].refs + Reserves(k, session'[t])
          /\ socket'[k].master = socket[k].master
  BY <1>2, <1>3, <1>5, <1>6, Known DEF Reserves
<1>8. SlotsFit(x, socket', steppedDown')
  BY <1>5 DEF SlotsFit
<1>. QED
  BY <1>1, <1>2, <1>3, <1>4, <1>6, <1>7, <1>8, AtRest

LEMMA CloneInv ==
  ASSUME SessionAssumption, SessionIInv, NEW c \in Callers, NEW s \in Sessions,
         NEW t \in Sessions, Clone(c, s, t)
  PROVE  SessionIInv'
<1> DEFINE x == session[s]
<1>1. /\ May(c, "clone") /\ x \in SessionType /\ x.open /\ session[t] = Unborn
  BY Known, UsableIs DEF Clone
<1>2. /\ session[t].lock = None /\ session[t].masterSocket = None
      /\ session[t].slaveSocket = None
      /\ \A d \in Callers : caller[d].s = t => caller[d].call # "dial" /\ InUse(caller[d])
  BY <1>1, UnbornIs
<1>3. /\ session' = [session EXCEPT ![t] = x] /\ socket' = Refer(Reserved(x))
      /\ caller' = caller /\ play' = play
      /\ steppedDown' = steppedDown /\ sessionPanic' = sessionPanic
  BY DEF Clone
<1>4. changes' \in 0..MaxChanges
  BY Counted DEF Clone
<1>5. /\ session' \in [Sessions -> SessionType] /\ session'[t] = x
      /\ \A r \in Sessions \ {t} : session'[r] = session[r]
  BY <1>1, <1>3, Known
<1>6. SlotsFit(x, socket, steppedDown)
  BY Known DEF SessionOk
<1>7. /\ socket' \in [Connections -> SocketType]
      /\ \A k \in Connections : /\ socket'[k].refs = socket[k].refs + One(k \in Reserved(x))
                                /\ socket'[k].master = socket[k].master
  <2>1. SessionTypeOK
    BY DEF SessionIInv
  <2>. QED
    BY <1>3, <2>1, Referring
<1>8. \A k \in Connections :
        socket'[k].refs + Reserves(k, session[t]) = socket[k].refs + Reserves(k, session'[t])
  <2> SUFFICES ASSUME NEW k \in Connections
               PROVE  socket'[k].refs + Reserves(k, session[t])
                      = socket[k].refs + Reserves(k, session'[t])
    OBVIOUS
  <2>1. Reserves(k, session'[t]) = One(k \in Reserved(x))
    BY <1>5, <1>6, ReservedIs DEF SlotsFit
  <2>2. Reserves(k, session[t]) = 0
    BY <1>2 DEF Reserves, One, SessionAssumption
  <2>3. socket'[k].refs = socket[k].refs + One(k \in Reserved(x)) /\ socket'[k].refs \in Nat
    BY <1>7 DEF SocketType
  <2>. QED
    BY <2>1, <2>2, <2>3
<1>9. SlotsFit(x, socket', steppedDown')
  <2>1. x.masterSocket # None => x.masterSocket \in Connections
    BY <1>1 DEF SessionType
  <2>. QED
    BY <1>3, <1>6, <1>7, <2>1 DEF SlotsFit
<1> HIDE DEF x
<1>. QED
  BY <1>1, <1>2, <1>3, <1>4, <1>5, <1>7, <1>8, <1>9, AtRest

LEMMA LogoutInv ==
  ASSUME SessionAssumption, SessionIInv, NEW c \in Callers, NEW s \in Sessions,
         NEW cred \in Creds, Logout(c, s, cred)
  PROVE  SessionIInv'
<1> DEFINE x == [session[s] EXCEPT !.creds = @ \ {cred}]
           K == Reserved(session[s])
<1>1. /\ May(c, "logout") /\ session[s] \in SessionType /\ session[s].open
      /\ session[s].lock = None /\ \A d \in Callers : caller[d].s = s => caller[d].call # "dial"
  BY Known, UsableIs DEF Logout
<1>2. session' = [session EXCEPT ![s] = x]
  BY <1>1, Known DEF Logout
<1>3. /\ socket' = [k \in Connections |-> IF k \in K THEN [socket[k] EXCEPT !.logins = @ \ {cred}]
                                     ELSE socket[k]]
      /\ caller' = caller /\ play' = play /\ changes' = changes
      /\ steppedDown' = steppedDown /\ sessionPanic' = sessionPanic
  BY DEF Logout
<1>4. /\ x \in SessionType /\ x.open
      /\ x.masterSocket = session[s].masterSocket /\ x.slaveSocket = session[s].slaveSocket
      /\ x.consistency = session[s].consistency /\ x.wrote = session[s].wrote
  BY <1>1 DEF SessionType
<1> HIDE DEF x, K
<1>5. /\ session' \in [Sessions -> SessionType] /\ session'[s] = x
      /\ \A t \in Sessions \ {s} : session'[t] = session[t]
  BY <1>2, <1>4, Known
<1>6. ASSUME NEW k \in Connections
      PROVE  /\ socket'[k] \in SocketType
             /\ socket'[k].refs = socket[k].refs /\ socket'[k].master = socket[k].master
  <2>1. socket[k] \in SocketType
    BY Known
  <2>2. socket'[k] = IF k \in K THEN [socket[k] EXCEPT !.logins = @ \ {cred}] ELSE socket[k]
    BY <1>3
  <2>. QED
    BY <2>1, <2>2 DEF SocketType
<1>7. socket' \in [Connections -> SocketType]
  <2>1. socket' = [k \in Connections |-> socket'[k]]
    BY <1>3
  <2>. QED
    BY <1>6, <2>1
<1>8. \A k \in Connections :
        /\ socket'[k].refs + Reserves(k, session[s]) = socket[k].refs + Reserves(k, session'[s])
        /\ socket'[k].master = socket[k].master
  BY <1>4, <1>5, <1>6 DEF Reserves
<1>9. SlotsFit(x, socket', steppedDown')
  <2>1. SlotsFit(session[s], socket, steppedDown)
    BY Known DEF SessionOk
  <2>2. session[s].masterSocket # None => session[s].masterSocket \in Connections
    BY <1>1 DEF SessionType
  <2>. QED
    BY <1>1, <1>3, <1>4, <1>6, <2>1, <2>2 DEF SlotsFit
<1>10. changes' \in 0..MaxChanges
  BY <1>3, Known
<1>. QED
  BY <1>1, <1>3, <1>4, <1>5, <1>7, <1>8, <1>9, <1>10, AtRest

LEMMA DialInv ==
  ASSUME SessionAssumption, SessionIInv, NEW c \in Callers, NEW s \in Sessions, DialSession(c, s)
  PROVE  SessionIInv'
<1> DEFINE x == [Unborn EXCEPT !.open = TRUE, !.slaveOk = TRUE]
           y == [Idle EXCEPT !.call = "dial", !.at = "missed", !.s = s, !.slaveOk = TRUE]
<1>1. /\ caller[c].sock = None /\ sessionPanic = "none" /\ session[s] = Unborn
  BY MayIs DEF DialSession
<1>2. /\ session[s].lock = None /\ session[s].masterSocket = None
      /\ session[s].slaveSocket = None
      /\ \A d \in Callers : caller[d].s = s => caller[d].call # "dial" /\ InUse(caller[d])
  BY <1>1, UnbornIs
<1>3. /\ session' = [session EXCEPT ![s] = x] /\ caller' = [caller EXCEPT ![c] = y]
      /\ socket' = socket /\ play' = play /\ changes' = changes
      /\ steppedDown' = steppedDown /\ sessionPanic' = sessionPanic
  BY DEF DialSession
<1>4. /\ x \in SessionType /\ x.open /\ x.lock = None /\ x.consistency = "eventual"
      /\ x.masterSocket = None /\ x.slaveSocket = None /\ ~x.wrote
  BY DEF SessionType, Unborn, Modes
<1>5. /\ y \in CallerType /\ y.s = s /\ y.sock = None /\ y.call = "dial" /\ y.at = "missed"
  BY DEF CallerType, Idle
<1> HIDE DEF x, y
<1>6. /\ session' \in [Sessions -> SessionType] /\ session'[s] = x
      /\ \A t \in Sessions \ {s} : session'[t] = session[t]
      /\ caller' \in [Callers -> CallerType] /\ caller'[c] = y
      /\ \A d \in Callers \ {c} : caller'[d] = caller[d]
  BY <1>3, <1>4, <1>5, Known
<1>7. /\ socket' \in [Connections -> SocketType]
      /\ \A k \in Connections : /\ socket'[k].refs + Held(k, session[s], caller[c])
                                   = socket[k].refs + Held(k, x, y)
                                /\ socket'[k].master = socket[k].master
  BY <1>1, <1>2, <1>3, <1>4, <1>5, Known DEF Held
<1>8. SlotsFit(x, socket', steppedDown')
  BY <1>4 DEF SlotsFit
<1>9. CallerOk(y) /\ Sound(c, y, x)
  BY <1>4, <1>5 DEF CallerOk, Sound, SessionAssumption
<1>10. \A d \in Callers \ {c} : /\ caller[d].s = s => Sound(d, caller[d], x)
                                /\ Apart(y, caller[d]) /\ Apart(caller[d], y)
  <2>1. \A d \in Callers \ {c} : caller[d].s = s => Sound(d, caller[d], x)
    BY <1>2, <1>4, OthersSound
  <2>2. \A d \in Callers \ {c} : Apart(y, caller[d]) /\ Apart(caller[d], y)
    BY <1>2, <1>5 DEF Apart
  <2>. QED
    BY <2>1, <2>2
<1>11. SlotsFree'
  BY <1>1, <1>3 DEF SlotsFree
<1>12. /\ steppedDown' \in BOOLEAN /\ (steppedDown => steppedDown')
       /\ play' = play /\ changes' \in 0..MaxChanges
  BY <1>3, Known
<1>13. caller'[c].at # "idle" => Sound(c, caller'[c], session'[caller'[c].s])
  BY <1>5, <1>6, <1>9
<1>. QED
  BY <1>1, <1>6, <1>7, <1>8, <1>9, <1>10, <1>11, <1>12, <1>13, Step

LEMMA Unmoved ==
  ASSUME SessionIInv, UNCHANGED sessionVars
  PROVE  SessionIInv'
BY DEF SessionIInv, sessionVars, SessionTypeOK, SharesCounted, SlotsFree, SessionOk, SlotsFit,
       CallerOk, Sound, Found, Apart, InUse

LEMMA SessionStep ==
  ASSUME SessionAssumption, SessionIInv, [SessionNext]_sessionVars
  PROVE  SessionIInv'
<1>1. CASE UNCHANGED sessionVars
  BY <1>1, Unmoved
<1>2. ASSUME NEW c \in Callers, Look(c) PROVE SessionIInv'
  BY <1>2, LookFound, LookMissed
<1>3. ASSUME NEW c \in Callers, Refused(c) \/ Done(c) \/ LoggedIn(c) \/ Noted(c)
      PROVE  SessionIInv'
  BY <1>3, RefusedInv, DoneInv, LoggedInInv, NotedInv
<1>4. ASSUME NEW c \in Callers, NEW k \in Connections, NEW master \in BOOLEAN, Given(c, k, master)
      PROVE  SessionIInv'
  BY <1>4, GivenInv
<1>5. ASSUME NEW c \in Callers, NEW s \in Sessions, Read(c, s) \/ Write(c, s)
      PROVE  SessionIInv'
  <2>1. changes' \in 0..MaxChanges
    BY <1>5, Known DEF Read, Write
  <2>2. CASE Read(c, s)
    BY <2>1, <2>2, AcquireInv DEF Read
  <2>3. CASE Write(c, s)
    BY <2>1, <2>3, AcquireInv DEF Write
  <2>. QED
    BY <1>5, <2>2, <2>3
<1>6. ASSUME NEW c \in Callers, NEW s \in Sessions, NEW cred \in Creds, LoginBegins(c, s, cred)
      PROVE  SessionIInv'
  <2>1. changes' \in 0..MaxChanges
    BY <1>6, Counted DEF LoginBegins
  <2>. QED
    BY <1>6, <2>1, AcquireInv DEF LoginBegins
<1>7. ASSUME NEW c \in Callers, NEW s \in Sessions, DialSession(c, s) \/ Refresh(c, s) \/ CloseSession(c, s)
      PROVE  SessionIInv'
  BY <1>7, DialInv, RefreshInv, CloseInv
<1>8. ASSUME NEW c \in Callers, NEW s \in Sessions, NEW mode \in Modes,
             NEW refresh \in BOOLEAN, SetMode(c, s, mode, refresh)
      PROVE  SessionIInv'
  BY <1>8, SetModeInv
<1>9. ASSUME NEW c \in Callers, NEW s \in Sessions, NEW t \in Sessions,
             Copy(c, s, t) \/ Clone(c, s, t)
      PROVE  SessionIInv'
  BY <1>9, CopyInv, CloneInv
<1>10. ASSUME NEW c \in Callers, NEW s \in Sessions, NEW cred \in Creds, Logout(c, s, cred)
       PROVE  SessionIInv'
  BY <1>10, LogoutInv
<1>. QED
  BY <1>1, <1>2, <1>3, <1>4, <1>5, <1>6, <1>7, <1>8, <1>9, <1>10 DEF SessionNext

----------------------------------------------------------------------------

\* The accounts of the sockets are exact whatever the goroutines do with the
\* sessions they share, and setSocket finds its slot free unless a server
\* stepped down on the way (acquireSocket, Refresh, Clone, Close, SetMode).
THEOREM SessionCorrect == SessionSpec => []SessionInv
<1>1. SessionInit => SessionIInv
  BY SessionInitial, SessionAssumption
<1>2. SessionIInv /\ [SessionNext]_sessionVars => SessionIInv'
  BY SessionStep, SessionAssumption
<1>3. SessionIInv => SessionInv
  BY DEF SessionIInv, SessionInv
<1>. QED
  BY <1>1, <1>2, <1>3, PTL DEF SessionSpec

----------------------------------------------------------------------------
(* The credentials of a session that one goroutine uses                    *)

OnItsOwn == Cardinality(play.callers) = 1 /\ "clone" \notin play.calls

\* The socket the next call will find, whatever it asks for, if it finds one.
Main(x) == IF x.masterSocket # None THEN x.masterSocket ELSE x.slaveSocket

\* A Login that has its socket has the one its session reserves, if any, and is
\* logged in on it when it notes the credential.
LoginOk(y, x, sockets) ==
    y.call = "login" /\ y.at \in {"using", "noting"} =>
        /\ Main(x) \in {None, y.sock}
        /\ y.at = "noting" => y.cred \in sockets[y.sock].logins

CredsIInv ==
    OnItsOwn =>
        /\ \A d \in Callers : d \notin play.callers => caller[d] = Idle
        /\ \A s, t \in Sessions : s # t => Reserved(session[s]) \cap Reserved(session[t]) = {}
        /\ \A s \in Sessions : Main(session[s]) # None
             => session[s].creds \subseteq socket[Main(session[s])].logins
        /\ sessionPanic = "none" =>
             \A c \in Callers : LoginOk(caller[c], session[caller[c].s], socket)

LEMMA Sole ==
  ASSUME SessionAssumption, SessionIInv, OnItsOwn, CredsIInv,
         NEW c \in Callers, c \in play.callers
  PROVE  \A d \in Callers : d # c => caller[d] = Idle
<1>1. IsFiniteSet(play.callers)
  BY Known, FS_Subset DEF SessionAssumption
<1>2. PICK d : play.callers = {d}
  BY <1>1, FS_Singleton DEF OnItsOwn
<1>. QED
  BY <1>2 DEF CredsIInv

LEMMA MainIs ==
  ASSUME NEW x
  PROVE  /\ Main(x) # None => Main(x) \in Reserved(x)
         /\ Main(x) = None <=> x.masterSocket = None /\ x.slaveSocket = None
         /\ Found(x, TRUE) # None => Found(x, TRUE) = Main(x)
         /\ \A slaveOk : Found(x, slaveOk) # None => Found(x, slaveOk) = Main(x)
BY DEF Main, Reserved, Found

\* Who reserves a socket has a reference to it, before and after a step.
LEMMA ReservedRefs ==
  ASSUME SessionAssumption, SessionIInv, NEW s \in Sessions, NEW k \in Reserved(session[s])
  PROVE  k \in Connections /\ socket[k].refs > 0
<1>1. session[s] \in SessionType
  BY Known
<1>2. k \in Connections
  BY <1>1 DEF Reserved, SessionType
<1>. QED
  BY <1>2, Referred DEF Reserved, SessionIInv

\* A step changes one session and one call, takes only sockets nobody reserves,
\* and logs nobody out of what other sessions reserve.
LEMMA CredsMoved ==
  ASSUME SessionAssumption, SessionIInv, SessionIInv', CredsIInv, OnItsOwn, play' = play,
         NEW c \in Callers, c \in play.callers,
         \A d \in Callers \ {c} : caller'[d] = caller[d],
         NEW s \in Sessions, \A t \in Sessions \ {s} : session'[t] = session[t],
         \A k \in Reserved(session'[s]) :
            k \in Reserved(session[s]) \/ (k \in Connections /\ socket[k].refs = 0),
         \A k \in Connections : k \notin Reserved(session[s]) /\ socket[k].refs > 0
                            => socket[k].logins \subseteq socket'[k].logins
                               \/ ~(socket'[k].refs > 0),
         Main(session'[s]) # None
           => session'[s].creds \subseteq socket'[Main(session'[s])].logins,
         sessionPanic' = "none" => LoginOk(caller'[c], session'[caller'[c].s], socket')
  PROVE  CredsIInv'
<1>1. \A d \in Callers : d # c => caller[d] = Idle /\ caller'[d] = Idle
  BY Sole
<1>2. \A d \in Callers : d \notin play'.callers => caller'[d] = Idle
  BY <1>1
<1>3. ASSUME NEW t \in Sessions, t # s
      PROVE  /\ session'[t] = session[t]
             /\ Reserved(session'[s]) \cap Reserved(session[t]) = {}
  <2>1. session'[t] = session[t]
    BY <1>3
  <2>2. Reserved(session[s]) \cap Reserved(session[t]) = {}
    BY <1>3 DEF CredsIInv
  <2>3. \A k \in Reserved(session[t]) : k \in Connections /\ socket[k].refs > 0
    BY ReservedRefs
  <2>4. \A k \in Connections : socket[k].refs = 0 => ~(socket[k].refs > 0)
    OBVIOUS
  <2>. QED
    BY <2>1, <2>2, <2>3, <2>4
<1>4. \A r, t \in Sessions : r # t => Reserved(session'[r]) \cap Reserved(session'[t]) = {}
  <2> SUFFICES ASSUME NEW r \in Sessions, NEW t \in Sessions, r # t
               PROVE  Reserved(session'[r]) \cap Reserved(session'[t]) = {}
    OBVIOUS
  <2>1. CASE r = s
    BY <1>3, <2>1
  <2>2. CASE t = s
    BY <1>3, <2>2
  <2>3. CASE r # s /\ t # s
    BY <1>3, <2>3 DEF CredsIInv
  <2>. QED
    BY <2>1, <2>2, <2>3
<1>5. ASSUME NEW t \in Sessions, Main(session'[t]) # None
      PROVE  session'[t].creds \subseteq socket'[Main(session'[t])].logins
  <2>1. CASE t = s
    BY <1>5, <2>1
  <2>2. CASE t # s
    <3> DEFINE k == Main(session[t])
    <3>1. session'[t] = session[t] /\ k # None /\ k \in Reserved(session[t])
      BY <1>3, <1>5, <2>2, MainIs
    <3>2. k \in Connections /\ socket[k].refs > 0
      BY <3>1, ReservedRefs
    <3>3. socket'[k].refs > 0
      <4>1. k \in Reserved(session[t])'
        BY <3>1 DEF Reserved
      <4>2. k = session'[t].masterSocket \/ k = session'[t].slaveSocket
        BY <4>1 DEF Reserved
      <4>3. SessionTypeOK' /\ SharesCounted'
        BY DEF SessionIInv
      <4>. QED
        BY <3>2, <4>2, <4>3, ReferredNext
    <3>4. k \notin Reserved(session[s])
      BY <2>2, <3>1 DEF CredsIInv
    <3>5. session[t].creds \subseteq socket[k].logins
      BY <3>1 DEF CredsIInv
    <3>. QED
      BY <3>1, <3>2, <3>3, <3>4, <3>5
  <2>. QED
    BY <2>1, <2>2
<1>6. ASSUME sessionPanic' = "none", NEW d \in Callers
      PROVE  LoginOk(caller'[d], session'[caller'[d].s], socket')
  <2>1. CASE d = c
    BY <1>6, <2>1
  <2>2. CASE d # c
    BY <1>1, <2>2 DEF LoginOk, Idle
  <2>. QED
    BY <2>1, <2>2
<1>. QED
  BY <1>2, <1>4, <1>5, <1>6 DEF CredsIInv, LoginOk, Main, Reserved

\* The goroutine that has a call in progress is the one of the scenario.
LEMMA Playing ==
  ASSUME CredsIInv, OnItsOwn, NEW c \in Callers,
         caller[c].at # "idle" \/ \E call : May(c, call)
  PROVE  c \in play.callers
BY DEF CredsIInv, Idle, May

\* A step that leaves the session its sockets and credentials.
LEMMA CredsKept ==
  ASSUME SessionAssumption, SessionIInv, SessionIInv', CredsIInv, OnItsOwn, play' = play,
         NEW c \in Callers, c \in play.callers,
         \A d \in Callers \ {c} : caller'[d] = caller[d],
         NEW s \in Sessions, \A t \in Sessions \ {s} : session'[t] = session[t],
         session'[s].masterSocket = session[s].masterSocket,
         session'[s].slaveSocket = session[s].slaveSocket,
         session'[s].creds = session[s].creds,
         \A k \in Connections : socket'[k].refs > 0 => socket'[k].logins = socket[k].logins,
         sessionPanic' = "none" => LoginOk(caller'[c], session'[caller'[c].s], socket')
  PROVE  CredsIInv'
<1>1. /\ Main(session'[s]) = Main(session[s])
      /\ Reserved(session'[s]) = Reserved(session[s])
  BY DEF Main, Reserved
<1>2. ASSUME Main(session[s]) # None
      PROVE  session[s].creds \subseteq socket'[Main(session[s])].logins
  <2> DEFINE k == Main(session[s])
  <2>1. k \in Reserved(session[s])
    BY <1>2, MainIs
  <2>2. k \in Connections
    BY <2>1, ReservedRefs
  <2>3. session'[s].masterSocket = k \/ session'[s].slaveSocket = k
    BY <2>1 DEF Reserved
  <2>4. SessionTypeOK' /\ SharesCounted'
    BY DEF SessionIInv
  <2>5. socket'[k].refs > 0
    BY <2>2, <2>3, <2>4, ReferredNext
  <2>6. session[s].creds \subseteq socket[k].logins
    BY <1>2 DEF CredsIInv
  <2>. QED
    BY <2>2, <2>5, <2>6
<1>. QED
  BY <1>1, <1>2, CredsMoved

\* A step after which the session reserves no socket.
LEMMA CredsDropped ==
  ASSUME SessionAssumption, SessionIInv, SessionIInv', CredsIInv, OnItsOwn, play' = play,
         NEW c \in Callers, c \in play.callers,
         \A d \in Callers \ {c} : caller'[d] = caller[d],
         NEW s \in Sessions, \A t \in Sessions \ {s} : session'[t] = session[t],
         session'[s].masterSocket = None, session'[s].slaveSocket = None,
         \A k \in Connections : socket'[k].refs > 0 => socket'[k].logins = socket[k].logins,
         sessionPanic' = "none" => LoginOk(caller'[c], session'[caller'[c].s], socket')
  PROVE  CredsIInv'
<1>1. Main(session'[s]) = None /\ Reserved(session'[s]) = {}
  BY DEF Main, Reserved
<1>. QED
  BY <1>1, CredsMoved

LEMMA AcquireCreds ==
  ASSUME SessionAssumption, SessionIInv, SessionIInv', CredsIInv, OnItsOwn,
         NEW c \in Callers, NEW s \in Sessions, NEW call, NEW cred,
         AcquireReserved(c, s, call, cred)
  PROVE  CredsIInv'
<1> DEFINE k == Found(session[s], call # "write")
           x == [session[s] EXCEPT !.wrote = @ \/ (call = "write" /\ k # None)]
           y == [call |-> call, at |-> IF k = None THEN "missed" ELSE "using", s |-> s,
                 slaveOk |-> call # "write", sock |-> k, cred |-> cred]
<1>1. /\ c \in play.callers /\ session[s] \in SessionType /\ SessionTypeOK
  BY Known, Playing DEF AcquireReserved, SessionIInv
<1>2. /\ session' = [session EXCEPT ![s] = x] /\ caller' = [caller EXCEPT ![c] = y]
      /\ socket' = Refer({k}) /\ play' = play
  BY DEF AcquireReserved
<1>3. /\ x.masterSocket = session[s].masterSocket /\ x.slaveSocket = session[s].slaveSocket
      /\ x.creds = session[s].creds
  BY <1>1 DEF SessionType
<1>4. LoginOk(y, x, socket')
  <2>1. Main(x) = Main(session[s])
    BY <1>3 DEF Main
  <2>2. k # None => k = Main(session[s])
    BY MainIs
  <2>3. /\ y.at = "using" => y.sock = Main(session[s])
        /\ y.at # "noting" /\ y.at \in {"missed", "using"}
    BY <2>2
  <2> HIDE DEF x, y
  <2>. QED
    BY <2>1, <2>3 DEF LoginOk
<1>5. y.s = s
  OBVIOUS
<1> HIDE DEF x, y, k
<1>6. /\ session'[s] = x /\ \A t \in Sessions \ {s} : session'[t] = session[t]
      /\ caller'[c] = y /\ \A d \in Callers \ {c} : caller'[d] = caller[d]
  BY <1>2, Known
<1>7. \A n \in Connections : socket'[n].logins = socket[n].logins
  BY <1>1, <1>2, Referring
<1>8. LoginOk(caller'[c], session'[caller'[c].s], socket')
  BY <1>4, <1>5, <1>6
<1>9. /\ session'[s].masterSocket = session[s].masterSocket
      /\ session'[s].slaveSocket = session[s].slaveSocket
      /\ session'[s].creds = session[s].creds
  BY <1>3, <1>6
<1>10. play' = play
  BY <1>2
<1>. QED
  BY <1>1, <1>6, <1>7, <1>8, <1>9, <1>10, CredsKept

LEMMA LookCreds ==
  ASSUME SessionAssumption, SessionIInv, SessionIInv', CredsIInv, OnItsOwn,
         NEW c \in Callers, Look(c)
  PROVE  CredsIInv'
<1> DEFINE s == caller[c].s
           k == Found(session[s], caller[c].slaveOk)
<1>1. /\ c \in play.callers /\ caller[c] \in CallerType /\ s \in Sessions
      /\ session[s] \in SessionType /\ SessionTypeOK /\ caller[c].at = "missed"
  <2>1. caller[c].at = "missed"
    BY DEF Look
  <2>. QED
    BY <2>1, Waiting, Playing DEF SessionIInv
<1>2. play' = play
  BY DEF Look
<1>3. CASE k # None
  <2> DEFINE x == [session[s] EXCEPT !.wrote = @ \/ caller[c].call = "write"]
             y == [caller[c] EXCEPT !.at = "using", !.sock = k]
  <2>1. /\ session' = [session EXCEPT ![s] = x] /\ caller' = [caller EXCEPT ![c] = y]
        /\ socket' = Refer({k})
    BY <1>1, <1>3, Known DEF Look, Use
  <2>2. /\ x.masterSocket = session[s].masterSocket /\ x.slaveSocket = session[s].slaveSocket
        /\ x.creds = session[s].creds
    BY <1>1 DEF SessionType
  <2>3. y.s = s /\ y.at = "using" /\ y.sock = k
    BY <1>1 DEF CallerType
  <2>4. k = Main(session[s])
    BY <1>3, MainIs
  <2> HIDE DEF x, y, k, s
  <2>5. LoginOk(y, x, socket')
    BY <2>2, <2>3, <2>4 DEF LoginOk, Main
  <2>6. /\ session'[s] = x /\ \A t \in Sessions \ {s} : session'[t] = session[t]
        /\ caller'[c] = y /\ \A d \in Callers \ {c} : caller'[d] = caller[d]
    BY <1>1, <2>1, Known
  <2>7. \A n \in Connections : socket'[n].logins = socket[n].logins
    BY <1>1, <2>1, Referring
  <2>. QED
    BY <1>1, <1>2, <2>2, <2>3, <2>5, <2>6, <2>7, CredsKept
<1>4. CASE k = None
  <2> DEFINE x == [session[s] EXCEPT !.lock = c]
             y == [caller[c] EXCEPT !.at = "asking"]
  <2>1. /\ session' = [session EXCEPT ![s] = x] /\ caller' = [caller EXCEPT ![c] = y]
        /\ socket' = socket
    BY <1>1, <1>4, Known DEF Look, Use
  <2>2. /\ x.masterSocket = session[s].masterSocket /\ x.slaveSocket = session[s].slaveSocket
        /\ x.creds = session[s].creds
    BY <1>1 DEF SessionType
  <2>3. y.at = "asking"
    BY <1>1 DEF CallerType
  <2> HIDE DEF x, y, k, s
  <2>4. /\ session'[s] = x /\ \A t \in Sessions \ {s} : session'[t] = session[t]
        /\ caller'[c] = y /\ \A d \in Callers \ {c} : caller'[d] = caller[d]
    BY <1>1, <2>1, Known
  <2>5. LoginOk(y, session'[y.s], socket')
    BY <2>3 DEF LoginOk
  <2>. QED
    BY <1>1, <1>2, <2>1, <2>2, <2>4, <2>5, CredsKept
<1>. QED
  BY <1>3, <1>4

LEMMA RefusedCreds ==
  ASSUME SessionAssumption, SessionIInv, SessionIInv', CredsIInv, OnItsOwn,
         NEW c \in Callers, Refused(c)
  PROVE  CredsIInv'
<1> DEFINE s == caller[c].s
           x == Failed(c, session[s])
<1>1. /\ c \in play.callers /\ caller[c] \in CallerType /\ s \in Sessions
      /\ session[s] \in SessionType /\ Sound(c, caller[c], session[s])
  <2>1. caller[c].at = "asking"
    BY DEF Refused
  <2>. QED
    BY <2>1, Waiting, Playing
<1>2. /\ session' = [session EXCEPT ![s] = x] /\ caller' = [caller EXCEPT ![c] = Idle]
      /\ socket' = socket /\ play' = play
  BY <1>1, Known DEF Refused
<1>3. /\ x.masterSocket = session[s].masterSocket /\ x.slaveSocket = session[s].slaveSocket
      /\ x.creds = session[s].creds
  <2>1. CASE caller[c].call = "dial"
    <3>1. session[s].masterSocket = None /\ session[s].slaveSocket = None
      BY <1>1, <2>1 DEF Sound
    <3>. QED
      BY <1>1, <2>1, <3>1 DEF SessionType, Failed, unsetSocket
  <2>2. CASE caller[c].call # "dial"
    BY <1>1, <2>2 DEF SessionType, Failed
  <2>. QED
    BY <2>1, <2>2
<1> HIDE DEF x, s
<1>4. /\ session'[s] = x /\ \A t \in Sessions \ {s} : session'[t] = session[t]
      /\ caller'[c] = Idle /\ \A d \in Callers \ {c} : caller'[d] = caller[d]
  BY <1>1, <1>2, Known
<1>5. LoginOk(Idle, session'[Idle.s], socket')
  BY DEF LoginOk, Idle
<1>6. /\ sessionPanic' = "none" => LoginOk(caller'[c], session'[caller'[c].s], socket')
      /\ \A k \in Connections : socket'[k].logins = socket[k].logins
  BY <1>2, <1>4, <1>5
<1>7. /\ session'[s].masterSocket = session[s].masterSocket
      /\ session'[s].slaveSocket = session[s].slaveSocket
      /\ session'[s].creds = session[s].creds
  BY <1>3, <1>4
<1>8. play' = play
  BY <1>2
<1>. QED
  BY <1>1, <1>4, <1>6, <1>7, <1>8, CredsKept

LEMMA GivenCreds ==
  ASSUME SessionAssumption, SessionIInv, SessionIInv', CredsIInv, OnItsOwn,
         NEW c \in Callers, NEW k \in Connections, NEW master \in BOOLEAN, Given(c, k, master)
  PROVE  CredsIInv'
<1> DEFINE s == caller[c].s
           crash == Keeps(session[s]) /\ Taken(session[s], master)
           kept == Keeps(session[s]) /\ ~crash
           used == [session[s] EXCEPT !.lock = None, !.wrote = @ \/ caller[c].call = "write"]
           filled == IF kept THEN setSocket(used, k, master) ELSE used
           x == Switch(filled, caller[c].slaveOk)
           y == [caller[c] EXCEPT !.at = "using", !.sock = k]
           z == [refs |-> IF kept THEN 2 ELSE 1, master |-> master,
                 logins |-> session[s].creds]
<1>1. /\ c \in play.callers /\ caller[c] \in CallerType /\ s \in Sessions
      /\ session[s] \in SessionType /\ Sound(c, caller[c], session[s])
      /\ caller[c].at = "asking"
      /\ caller[c].call = "login" => caller[c].slaveOk /\ caller[c].cred \in Creds
  <2>1. caller[c].at = "asking"
    BY DEF Given
  <2>. QED
    BY <2>1, Waiting, Playing
<1>2. /\ session[s].masterSocket = None
      /\ session[s].slaveOk /\ caller[c].slaveOk => session[s].slaveSocket = None
  BY <1>1 DEF Sound, Found
<1>3. socket[k].refs = 0 /\ ~(socket[k].refs > 0)
  <2>1. k \in Spare
    BY DEF Given
  <2>. QED
    BY <2>1 DEF Spare
<1>4. /\ session' = [session EXCEPT ![s] = x] /\ caller' = [caller EXCEPT ![c] = y]
      /\ socket' = [socket EXCEPT ![k] = z]
      /\ sessionPanic' = IF crash THEN "setSocket with existing socket reserved" ELSE "none"
      /\ play' = play
  BY <1>1, Known DEF Given
<1>5. /\ used \in SessionType /\ used.creds = session[s].creds
      /\ used.masterSocket = session[s].masterSocket
      /\ used.slaveSocket = session[s].slaveSocket
  BY <1>1 DEF SessionType
<1>6. /\ filled \in SessionType /\ filled.creds = session[s].creds
      /\ filled.masterSocket = (IF kept /\ master THEN k ELSE None)
      /\ filled.slaveSocket = (IF kept /\ ~master THEN k ELSE session[s].slaveSocket)
  <2> HIDE DEF used, kept
  <2>1. CASE kept /\ master
    BY <1>5, <2>1 DEF SessionType, setSocket
  <2>2. CASE kept /\ ~master
    BY <1>2, <1>5, <2>2 DEF SessionType, setSocket
  <2>3. CASE ~kept
    BY <1>2, <1>5, <2>3
  <2>. QED
    BY <2>1, <2>2, <2>3
<1>7. /\ x.creds = session[s].creds
      /\ x.masterSocket = filled.masterSocket /\ x.slaveSocket = filled.slaveSocket
  <2> HIDE DEF filled
  <2>. QED
    BY <1>6 DEF SessionType, Switch
<1>8. y.s = s /\ y.sock = k /\ y.at = "using" /\ z.logins = session[s].creds
  BY <1>1 DEF CallerType
<1>9. /\ kept \/ crash \/ (~Keeps(session[s]) /\ session[s].slaveSocket = None)
      /\ kept => Main(x) = k
      /\ ~kept => Main(x) = session[s].slaveSocket
      /\ sessionPanic' = "none" => ~crash
  <2>1. kept \/ crash \/ (~Keeps(session[s]) /\ session[s].slaveSocket = None)
    BY DEF Keeps
  <2>2. k # None
    BY DEF SessionAssumption
  <2>3. sessionPanic' = "none" => ~crash
    BY <1>4
  <2> HIDE DEF kept, crash, x, filled
  <2>4. kept /\ master => Main(x) = k
    BY <1>6, <1>7, <2>2 DEF Main
  <2>5. kept /\ ~master => Main(x) = k
    BY <1>6, <1>7, <2>2 DEF Main
  <2>6. ~kept => Main(x) = session[s].slaveSocket
    BY <1>6, <1>7 DEF Main
  <2>. QED
    BY <2>1, <2>3, <2>4, <2>5, <2>6
<1>10. \A n \in Reserved(x) : n = k \/ n \in Reserved(session[s])
  <2> HIDE DEF x, filled, kept
  <2>. QED
    BY <1>6, <1>7 DEF Reserved
<1> HIDE DEF x, y, z, used, filled, kept, crash
<1>11. /\ session'[s] = x /\ \A t \in Sessions \ {s} : session'[t] = session[t]
       /\ caller'[c] = y /\ \A d \in Callers \ {c} : caller'[d] = caller[d]
       /\ socket'[k] = z /\ \A n \in Connections \ {k} : socket'[n] = socket[n]
  BY <1>1, <1>4, Known
<1>12. Main(x) # None => x.creds \subseteq socket'[Main(x)].logins
  <2>1. CASE kept
    BY <1>7, <1>8, <1>9, <1>11, <2>1
  <2>2. CASE ~kept /\ session[s].slaveSocket # None
    <3>1. Main(session[s]) = session[s].slaveSocket
      BY <1>2 DEF Main
    <3>2. /\ Main(session[s]) \in Reserved(session[s])
          /\ session[s].creds \subseteq socket[Main(session[s])].logins
      BY <1>1, <2>2, <3>1, MainIs DEF CredsIInv
    <3>3. Main(session[s]) \in Connections /\ Main(session[s]) # k
      BY <1>1, <1>3, <3>2, ReservedRefs
    <3>. QED
      BY <1>7, <1>9, <1>11, <2>2, <3>1, <3>2, <3>3
  <2>3. CASE ~kept /\ session[s].slaveSocket = None
    BY <1>9, <2>3
  <2>. QED
    BY <2>1, <2>2, <2>3
<1>13. sessionPanic' = "none" => LoginOk(y, x, socket')
  <2>1. sessionPanic' = "none" => Main(x) \in {None, k}
    BY <1>9
  <2>. QED
    BY <1>8, <2>1 DEF LoginOk
<1>14. /\ \A n \in Reserved(session'[s]) :
            n \in Reserved(session[s]) \/ (n \in Connections /\ socket[n].refs = 0)
       /\ \A n \in Connections : n \notin Reserved(session[s]) /\ socket[n].refs > 0
                             => socket[n].logins \subseteq socket'[n].logins
  <2>1. \A n \in Reserved(session'[s]) :
            n \in Reserved(session[s]) \/ (n \in Connections /\ socket[n].refs = 0)
    BY <1>3, <1>10, <1>11
  <2>2. \A n \in Connections : socket[n].refs > 0 => socket'[n] = socket[n]
    BY <1>3, <1>11
  <2>. QED
    BY <2>1, <2>2
<1>15. /\ Main(session'[s]) # None
            => session'[s].creds \subseteq socket'[Main(session'[s])].logins
       /\ sessionPanic' = "none" => LoginOk(caller'[c], session'[caller'[c].s], socket')
  BY <1>8, <1>11, <1>12, <1>13
<1>16. /\ play' = play /\ \A d \in Callers \ {c} : caller'[d] = caller[d]
       /\ \A t \in Sessions \ {s} : session'[t] = session[t]
  BY <1>4, <1>11
<1> HIDE DEF s
<1>. QED
  BY <1>1, <1>14, <1>15, <1>16, CredsMoved

\* The release of the socket a call has used leaves the logins of those that
\* are still in use.
LEMMA LoginsReleased ==
  ASSUME SessionAssumption, SessionIInv, NEW K,
         \A k \in Connections : k \in K => socket[k].refs > 0, socket' = ReleaseSockets(K)
  PROVE  \A k \in Connections : socket'[k].refs > 0 => socket'[k].logins = socket[k].logins
<1>1. SessionTypeOK
  BY DEF SessionIInv
<1>. QED
  BY <1>1, Releasing

LEMMA DoneCreds ==
  ASSUME SessionAssumption, SessionIInv, SessionIInv', CredsIInv, OnItsOwn,
         NEW c \in Callers, Done(c)
  PROVE  CredsIInv'
<1> DEFINE s == caller[c].s
<1>1. /\ c \in play.callers /\ s \in Sessions /\ caller[c].sock \in Connections
      /\ session[s] \in SessionType /\ Sound(c, caller[c], session[s])
  <2>1. caller[c].at = "using"
    BY DEF Done
  <2>. QED
    BY <2>1, Using, Playing
<1>2. /\ play' = play /\ caller'[c] = Idle /\ \A d \in Callers \ {c} : caller'[d] = caller[d]
      /\ socket' = ReleaseSockets({caller[c].sock})
  BY Known DEF Done
<1>3. \A k \in Connections : socket'[k].refs > 0 => socket'[k].logins = socket[k].logins
  <2> DEFINE K == {caller[c].sock}
  <2>1. \A k \in Connections : k \in K => socket[k].refs > 0
    BY <1>1, Referred DEF SessionIInv
  <2>2. socket' = ReleaseSockets(K)
    BY <1>2
  <2> HIDE DEF K
  <2>. QED
    BY <2>1, <2>2, LoginsReleased
<1>4. LoginOk(caller'[c], session'[caller'[c].s], socket')
  BY <1>2 DEF LoginOk, Idle
<1>5. /\ session'[s].masterSocket = session[s].masterSocket
      /\ session'[s].slaveSocket = session[s].slaveSocket
      /\ session'[s].creds = session[s].creds
      /\ \A t \in Sessions \ {s} : session'[t] = session[t]
  <2>1. CASE caller[c].call # "dial"
    BY <2>1 DEF Done
  <2>2. CASE caller[c].call = "dial"
    <3>1. session[s].masterSocket = None /\ session[s].slaveSocket = None
      BY <1>1, <2>2 DEF Sound
    <3>2. PICK x \in {Dialled(session[s]), Failed(c, session[s])} :
                 session' = [session EXCEPT ![s] = x]
      BY <2>2 DEF Done
    <3>3. /\ x.masterSocket = None /\ x.slaveSocket = None /\ x.creds = session[s].creds
      <4>1. CASE x = Dialled(session[s])
        BY <1>1, <4>1 DEF SessionType, Dialled, unsetSocket
      <4>2. CASE x = Failed(c, session[s])
        BY <1>1, <2>2, <4>2 DEF SessionType, Failed, unsetSocket
      <4>. QED
        BY <4>1, <4>2
    <3>4. session'[s] = x /\ \A t \in Sessions \ {s} : session'[t] = session[t]
      BY <1>1, <3>2, Known
    <3>. QED
      BY <3>1, <3>3, <3>4
  <2>. QED
    BY <2>1, <2>2
<1> HIDE DEF s
<1>. QED
  BY <1>1, <1>2, <1>3, <1>4, <1>5, CredsKept

LEMMA LoggedInCreds ==
  ASSUME SessionAssumption, SessionIInv, SessionIInv', CredsIInv, OnItsOwn,
         NEW c \in Callers, LoggedIn(c)
  PROVE  CredsIInv'
<1> DEFINE s == caller[c].s
           k == caller[c].sock
           y == [caller[c] EXCEPT !.at = "noting"]
           z == [socket[k] EXCEPT !.logins = @ \cup {caller[c].cred}]
<1>1. /\ c \in play.callers /\ s \in Sessions /\ k \in Connections /\ caller[c] \in CallerType
      /\ caller[c].call = "login" /\ caller[c].at = "using" /\ sessionPanic = "none"
      /\ socket[k] \in SocketType
  <2>1. caller[c].at = "using"
    BY DEF LoggedIn
  <2>. QED
    BY <2>1, Using, Playing, Known DEF LoggedIn
<1>2. /\ play' = play /\ session' = session
      /\ caller' = [caller EXCEPT ![c] = y] /\ socket' = [socket EXCEPT ![k] = z]
  BY <1>1, Known DEF LoggedIn
<1>3. /\ y.s = s /\ y.sock = k /\ y.cred = caller[c].cred
      /\ z.logins = socket[k].logins \cup {caller[c].cred}
  BY <1>1 DEF CallerType, SocketType
<1>4. Main(session[s]) \in {None, k}
  BY <1>1 DEF CredsIInv, LoginOk
<1> HIDE DEF y, z, k, s
<1>5. /\ caller'[c] = y /\ \A d \in Callers \ {c} : caller'[d] = caller[d]
      /\ \A n \in Connections : socket'[n] = IF n = k THEN z ELSE socket[n]
  BY <1>1, <1>2, Known
<1>6. \A n \in Connections : socket[n].logins \subseteq socket'[n].logins
  BY <1>3, <1>5
<1>7. LoginOk(caller'[c], session'[caller'[c].s], socket')
  BY <1>1, <1>2, <1>3, <1>4, <1>5 DEF LoginOk
<1>8. Main(session'[s]) # None
        => session'[s].creds \subseteq socket'[Main(session'[s])].logins
  <2>1. Main(session[s]) # None => session[s].creds \subseteq socket[Main(session[s])].logins
    BY <1>1 DEF CredsIInv
  <2>. QED
    BY <1>1, <1>2, <1>4, <1>6, <2>1
<1>. QED
  BY <1>1, <1>2, <1>5, <1>6, <1>7, <1>8, CredsMoved

LEMMA NotedCreds ==
  ASSUME SessionAssumption, SessionIInv, SessionIInv', CredsIInv, OnItsOwn,
         NEW c \in Callers, Noted(c)
  PROVE  CredsIInv'
<1> DEFINE s == caller[c].s
           k == caller[c].sock
           x == [session[s] EXCEPT !.creds = @ \cup {caller[c].cred}]
<1>1. /\ c \in play.callers /\ s \in Sessions /\ k \in Connections
      /\ session[s] \in SessionType /\ CallerOk(caller[c])
      /\ caller[c].at = "noting" /\ sessionPanic = "none"
  <2>1. caller[c].at = "noting"
    BY DEF Noted
  <2>. QED
    BY <2>1, Using, Playing DEF Noted
<1>2. /\ play' = play /\ socket' = ReleaseSockets({k})
      /\ caller'[c] = Idle /\ \A d \in Callers \ {c} : caller'[d] = caller[d]
      /\ session' = [session EXCEPT ![s] = x]
  BY <1>1, Known DEF Noted
<1>3. Main(session[s]) \in {None, k} /\ caller[c].cred \in socket[k].logins
  BY <1>1 DEF CredsIInv, LoginOk, CallerOk
<1>4. /\ x.masterSocket = session[s].masterSocket /\ x.slaveSocket = session[s].slaveSocket
      /\ x.creds = session[s].creds \cup {caller[c].cred}
  BY <1>1 DEF SessionType
<1>5. \A n \in Connections : socket'[n].refs > 0 => socket'[n].logins = socket[n].logins
  <2> DEFINE K == {k}
  <2>1. \A n \in Connections : n \in K => socket[n].refs > 0
    BY <1>1, Referred DEF SessionIInv
  <2>2. socket' = ReleaseSockets(K)
    BY <1>2
  <2> HIDE DEF k, K
  <2>. QED
    BY <2>1, <2>2, LoginsReleased
<1> HIDE DEF x, k
<1>6. session'[s] = x /\ \A t \in Sessions \ {s} : session'[t] = session[t]
  BY <1>1, <1>2, Known
<1>7. /\ Main(x) = Main(session[s]) /\ Reserved(session'[s]) = Reserved(session[s])
  BY <1>4, <1>6 DEF Main, Reserved
<1>8. Main(x) # None => x.creds \subseteq socket'[Main(x)].logins
  <2> SUFFICES ASSUME Main(x) # None
               PROVE  x.creds \subseteq socket'[k].logins
    BY <1>3, <1>7
  <2>1. Main(x) = k /\ session[s].creds \subseteq socket[k].logins
    BY <1>1, <1>3, <1>7 DEF CredsIInv
  <2>2. session'[s].masterSocket = k \/ session'[s].slaveSocket = k
    BY <1>6, <2>1 DEF Main
  <2>3. SessionTypeOK' /\ SharesCounted'
    BY DEF SessionIInv
  <2>4. socket'[k].refs > 0
    BY <1>1, <2>2, <2>3, ReferredNext
  <2>. QED
    BY <1>1, <1>3, <1>4, <1>5, <2>1, <2>4
<1>9. LoginOk(caller'[c], session'[caller'[c].s], socket')
  BY <1>2 DEF LoginOk, Idle
<1>10. /\ Main(session'[s]) # None
            => session'[s].creds \subseteq socket'[Main(session'[s])].logins
       /\ play' = play /\ \A d \in Callers \ {c} : caller'[d] = caller[d]
       /\ \A t \in Sessions \ {s} : session'[t] = session[t]
  BY <1>2, <1>6, <1>8
<1> HIDE DEF s
<1>. QED
  BY <1>1, <1>5, <1>7, <1>9, <1>10, CredsMoved

\* A session that gives back what it has reserved.
LEMMA LetsGoCreds ==
  ASSUME SessionAssumption, SessionIInv, SessionIInv', CredsIInv, OnItsOwn,
         NEW c \in Callers, NEW call, May(c, call), NEW s \in Sessions, NEW x,
         session' = [session EXCEPT ![s] = x],
         x.masterSocket = None, x.slaveSocket = None,
         socket' = ReleaseSockets(Reserved(session[s])), caller' = caller, play' = play
  PROVE  CredsIInv'
<1>1. c \in play.callers
  BY Playing
<1>2. session'[s] = x /\ \A t \in Sessions \ {s} : session'[t] = session[t]
  BY Known
<1>3. \A k \in Connections : k \in Reserved(session[s]) => socket[k].refs > 0
  BY ReservedRefs
<1>4. \A k \in Connections : socket'[k].refs > 0 => socket'[k].logins = socket[k].logins
  BY <1>3, LoginsReleased
<1>5. LoginOk(caller'[c], session'[caller'[c].s], socket')
  BY MayIs DEF LoginOk
<1>6. session'[s].masterSocket = None /\ session'[s].slaveSocket = None
  BY <1>2
<1>. QED
  BY <1>1, <1>2, <1>4, <1>5, <1>6, CredsDropped

LEMMA RefreshCreds ==
  ASSUME SessionAssumption, SessionIInv, SessionIInv', CredsIInv, OnItsOwn,
         NEW c \in Callers, NEW s \in Sessions, Refresh(c, s) \/ CloseSession(c, s)
  PROVE  CredsIInv'
<1>1. session[s] \in SessionType
  BY Known
<1>2. CASE Refresh(c, s)
  <2> DEFINE x == Ready(session[s])
  <2>1. x.masterSocket = None /\ x.slaveSocket = None
    BY <1>1, ReadyIs
  <2>2. session' = [session EXCEPT ![s] = x]
    BY <1>2, Known DEF Refresh
  <2>3. /\ May(c, "refresh") /\ socket' = ReleaseSockets(Reserved(session[s]))
        /\ caller' = caller /\ play' = play
    BY <1>2 DEF Refresh
  <2> HIDE DEF x
  <2>. QED
    BY <2>1, <2>2, <2>3, LetsGoCreds
<1>3. CASE CloseSession(c, s)
  <2> DEFINE x == [unsetSocket(session[s]) EXCEPT !.open = FALSE]
  <2>1. x.masterSocket = None /\ x.slaveSocket = None
    BY <1>1 DEF SessionType, unsetSocket
  <2>2. session' = [session EXCEPT ![s] = x]
    BY <1>3, Known DEF CloseSession
  <2>3. /\ May(c, "close") /\ socket' = ReleaseSockets(Reserved(session[s]))
        /\ caller' = caller /\ play' = play
    BY <1>3 DEF CloseSession
  <2> HIDE DEF x
  <2>. QED
    BY <2>1, <2>2, <2>3, LetsGoCreds
<1>. QED
  BY <1>2, <1>3

LEMMA SetModeCreds ==
  ASSUME SessionAssumption, SessionIInv, SessionIInv', CredsIInv, OnItsOwn,
         NEW c \in Callers, NEW s \in Sessions,
         NEW mode \in Modes, NEW refresh \in BOOLEAN, SetMode(c, s, mode, refresh)
  PROVE  CredsIInv'
<1> DEFINE w == [session[s] EXCEPT !.consistency = mode,
                                   !.wrote = @ /\ mode = session[s].consistency]
           slaveOk == IF mode = "strong" THEN FALSE
                      ELSE IF w.masterSocket = None THEN TRUE ELSE w.slaveOk
           x == IF refresh THEN Ready(w) ELSE [w EXCEPT !.slaveOk = slaveOk]
<1>1. May(c, "mode") /\ session[s] \in SessionType
  BY Known DEF SetMode
<1>2. session' = [session EXCEPT ![s] = x]
  BY <1>1, Known DEF SetMode
<1>3. /\ caller' = caller /\ play' = play
      /\ socket' = IF refresh THEN ReleaseSockets(Reserved(session[s])) ELSE socket
  BY DEF SetMode
<1>4. /\ w \in SessionType /\ w.creds = session[s].creds
      /\ w.masterSocket = session[s].masterSocket /\ w.slaveSocket = session[s].slaveSocket
  BY <1>1 DEF SessionType
<1> HIDE DEF w, slaveOk
<1>5. CASE refresh
  <2>1. x.masterSocket = None /\ x.slaveSocket = None
    BY <1>4, <1>5, ReadyIs
  <2>2. socket' = ReleaseSockets(Reserved(session[s]))
    BY <1>3, <1>5
  <2> HIDE DEF x
  <2>. QED
    BY <1>1, <1>2, <1>3, <2>1, <2>2, LetsGoCreds
<1>6. CASE ~refresh
  <2>1. /\ x.masterSocket = session[s].masterSocket /\ x.slaveSocket = session[s].slaveSocket
        /\ x.creds = session[s].creds
    BY <1>4, <1>6 DEF SessionType
  <2> HIDE DEF x
  <2>2. session'[s] = x /\ \A t \in Sessions \ {s} : session'[t] = session[t]
    BY <1>2, Known
  <2>3. socket' = socket
    BY <1>3, <1>6
  <2>4. c \in play.callers
    BY <1>1, Playing
  <2>5. LoginOk(caller'[c], session'[caller'[c].s], socket')
    BY <1>1, <1>3, MayIs DEF LoginOk
  <2>. QED
    BY <1>3, <2>1, <2>2, <2>3, <2>4, <2>5, CredsKept
<1>. QED
  BY <1>5, <1>6

LEMMA BornCreds ==
  ASSUME SessionAssumption, SessionIInv, SessionIInv', CredsIInv, OnItsOwn,
         NEW c \in Callers, NEW s \in Sessions, NEW t \in Sessions,
         DialSession(c, s) \/ Copy(c, s, t)
  PROVE  CredsIInv'
<1>1. /\ c \in play.callers /\ caller[c].at = "idle" /\ session[s] \in SessionType
  BY Playing, MayIs, Known DEF DialSession, Copy
<1>2. CASE DialSession(c, s)
  <2> DEFINE x == [Unborn EXCEPT !.open = TRUE, !.slaveOk = TRUE]
             y == [Idle EXCEPT !.call = "dial", !.at = "missed", !.s = s, !.slaveOk = TRUE]
  <2>1. /\ session' = [session EXCEPT ![s] = x] /\ caller' = [caller EXCEPT ![c] = y]
        /\ socket' = socket /\ play' = play
    BY <1>2 DEF DialSession
  <2>2. x.masterSocket = None /\ x.slaveSocket = None /\ y.at = "missed"
    BY DEF Unborn, Idle
  <2> HIDE DEF x, y
  <2>3. /\ session'[s] = x /\ \A r \in Sessions \ {s} : session'[r] = session[r]
        /\ caller'[c] = y /\ \A d \in Callers \ {c} : caller'[d] = caller[d]
    BY <2>1, Known
  <2>4. LoginOk(caller'[c], session'[caller'[c].s], socket')
    BY <2>2, <2>3 DEF LoginOk
  <2>5. /\ session'[s].masterSocket = None /\ session'[s].slaveSocket = None
        /\ \A k \in Connections : socket'[k].logins = socket[k].logins
        /\ play' = play
    BY <2>1, <2>2, <2>3
  <2>. QED
    BY <1>1, <2>3, <2>4, <2>5, CredsDropped
<1>3. CASE Copy(c, s, t)
  <2> DEFINE x == Ready(session[s])
  <2>1. /\ session' = [session EXCEPT ![t] = x] /\ caller' = caller
        /\ socket' = socket /\ play' = play
    BY <1>3 DEF Copy
  <2>2. x.masterSocket = None /\ x.slaveSocket = None
    BY <1>1, ReadyIs
  <2> HIDE DEF x
  <2>3. session'[t] = x /\ \A r \in Sessions \ {t} : session'[r] = session[r]
    BY <2>1, Known
  <2>4. LoginOk(caller'[c], session'[caller'[c].s], socket')
    BY <1>1, <2>1 DEF LoginOk
  <2>5. /\ session'[t].masterSocket = None /\ session'[t].slaveSocket = None
        /\ \A k \in Connections : socket'[k].logins = socket[k].logins
        /\ play' = play /\ \A d \in Callers \ {c} : caller'[d] = caller[d]
    BY <2>1, <2>2, <2>3
  <2>. QED
    BY <1>1, <2>3, <2>4, <2>5, CredsDropped
<1>. QED
  BY <1>2, <1>3

LEMMA LogoutCreds ==
  ASSUME SessionAssumption, SessionIInv, SessionIInv', CredsIInv, OnItsOwn,
         NEW c \in Callers, NEW s \in Sessions, NEW cred \in Creds, Logout(c, s, cred)
  PROVE  CredsIInv'
<1> DEFINE x == [session[s] EXCEPT !.creds = @ \ {cred}]
           K == Reserved(session[s])
<1>1. /\ c \in play.callers /\ caller[c].at = "idle" /\ session[s] \in SessionType
  BY Playing, MayIs, Known DEF Logout
<1>2. session' = [session EXCEPT ![s] = x]
  BY <1>1, Known DEF Logout
<1>3. /\ socket' = [k \in Connections |-> IF k \in K THEN [socket[k] EXCEPT !.logins = @ \ {cred}]
                                     ELSE socket[k]]
      /\ caller' = caller /\ play' = play
  BY DEF Logout
<1>4. /\ x.masterSocket = session[s].masterSocket /\ x.slaveSocket = session[s].slaveSocket
      /\ x.creds = session[s].creds \ {cred}
  BY <1>1 DEF SessionType
<1> HIDE DEF x
<1>5. session'[s] = x /\ \A t \in Sessions \ {s} : session'[t] = session[t]
  BY <1>2, Known
<1>6. Main(x) = Main(session[s]) /\ Reserved(x) = K
  BY <1>4 DEF Main, Reserved
<1>7. \A k \in Connections : /\ k \notin K => socket'[k] = socket[k]
                             /\ k \in K => socket'[k].logins = socket[k].logins \ {cred}
  <2> SUFFICES ASSUME NEW k \in Connections
               PROVE  /\ k \notin K => socket'[k] = socket[k]
                      /\ k \in K => socket'[k].logins = socket[k].logins \ {cred}
    OBVIOUS
  <2>1. socket[k] \in SocketType
    BY Known
  <2> HIDE DEF K
  <2>. QED
    BY <1>3, <2>1 DEF SocketType
<1>8. Main(x) # None => x.creds \subseteq socket'[Main(x)].logins
  <2> SUFFICES ASSUME Main(session[s]) # None
               PROVE  x.creds \subseteq socket'[Main(session[s])].logins
    BY <1>6
  <2>1. Main(session[s]) \in K /\ Main(session[s]) \in Connections
    BY MainIs, ReservedRefs
  <2>2. session[s].creds \subseteq socket[Main(session[s])].logins
    BY DEF CredsIInv
  <2>. QED
    BY <1>4, <1>7, <2>1, <2>2
<1>9. LoginOk(caller'[c], session'[caller'[c].s], socket')
  BY <1>1, <1>3 DEF LoginOk
<1>10. /\ Main(session'[s]) # None
            => session'[s].creds \subseteq socket'[Main(session'[s])].logins
       /\ Reserved(session'[s]) = Reserved(session[s])
       /\ \A k \in Connections : k \notin Reserved(session[s])
                             => socket[k].logins \subseteq socket'[k].logins
       /\ play' = play /\ \A d \in Callers \ {c} : caller'[d] = caller[d]
  BY <1>3, <1>5, <1>6, <1>7, <1>8
<1>. QED
  BY <1>1, <1>5, <1>9, <1>10, CredsMoved

LEMMA CredsStep ==
  ASSUME SessionAssumption, SessionIInv, SessionIInv', CredsIInv, [SessionNext]_sessionVars
  PROVE  CredsIInv'
<1>1. CASE UNCHANGED sessionVars
  BY <1>1 DEF sessionVars, CredsIInv, OnItsOwn, LoginOk, Main, Reserved
<1>2. CASE SessionNext /\ ~OnItsOwn
  <2>1. play' = play
    <3>1. ASSUME NEW c \in Callers,
                 Look(c) \/ Refused(c) \/ Done(c) \/ LoggedIn(c) \/ Noted(c)
          PROVE  play' = play
      BY <3>1 DEF Look, Refused, Done, LoggedIn, Noted
    <3>2. ASSUME NEW c \in Callers, NEW k \in Connections, NEW master \in BOOLEAN,
                 Given(c, k, master)
          PROVE  play' = play
      BY <3>2 DEF Given
    <3>3. ASSUME NEW c \in Callers, NEW s \in Sessions,
                 \/ DialSession(c, s) \/ Read(c, s) \/ Write(c, s) \/ Refresh(c, s) \/ CloseSession(c, s)
                 \/ \E mode \in Modes, refresh \in BOOLEAN : SetMode(c, s, mode, refresh)
                 \/ \E t \in Sessions : Copy(c, s, t) \/ Clone(c, s, t)
                 \/ \E cred \in Creds : LoginBegins(c, s, cred) \/ Logout(c, s, cred)
          PROVE  play' = play
      BY <3>3 DEF DialSession, Read, Write, AcquireReserved, Refresh, CloseSession, SetMode, Copy, Clone,
                  LoginBegins, Logout
    <3>. QED
      BY <1>2, <3>1, <3>2, <3>3 DEF SessionNext
  <2>. QED
    BY <1>2, <2>1 DEF CredsIInv, OnItsOwn
<1>3. CASE SessionNext /\ OnItsOwn
  <2>1. ASSUME NEW c \in Callers,
               Look(c) \/ Refused(c) \/ Done(c) \/ LoggedIn(c) \/ Noted(c)
        PROVE  CredsIInv'
    BY <1>3, <2>1, LookCreds, RefusedCreds, DoneCreds, LoggedInCreds, NotedCreds
  <2>2. ASSUME NEW c \in Callers, NEW k \in Connections, NEW master \in BOOLEAN,
               Given(c, k, master)
        PROVE  CredsIInv'
    BY <1>3, <2>2, GivenCreds
  <2>3. ASSUME NEW c \in Callers, NEW s \in Sessions, Read(c, s) \/ Write(c, s)
        PROVE  CredsIInv'
    BY <1>3, <2>3, AcquireCreds DEF Read, Write
  <2>4. ASSUME NEW c \in Callers, NEW s \in Sessions, NEW cred \in Creds,
               LoginBegins(c, s, cred) \/ Logout(c, s, cred)
        PROVE  CredsIInv'
    BY <1>3, <2>4, AcquireCreds, LogoutCreds DEF LoginBegins
  <2>5. ASSUME NEW c \in Callers, NEW s \in Sessions, DialSession(c, s) \/ Refresh(c, s) \/ CloseSession(c, s)
        PROVE  CredsIInv'
    BY <1>3, <2>5, BornCreds, RefreshCreds
  <2>6. ASSUME NEW c \in Callers, NEW s \in Sessions, NEW mode \in Modes,
               NEW refresh \in BOOLEAN, SetMode(c, s, mode, refresh)
        PROVE  CredsIInv'
    BY <1>3, <2>6, SetModeCreds
  <2>7. ASSUME NEW c \in Callers, NEW s \in Sessions, NEW t \in Sessions,
               Copy(c, s, t) \/ Clone(c, s, t)
        PROVE  CredsIInv'
    <3>1. ~Clone(c, s, t)
      BY <1>3 DEF OnItsOwn, Clone, May
    <3>. QED
      BY <1>3, <2>7, <3>1, BornCreds
  <2>. QED
    BY <1>3, <2>1, <2>2, <2>3, <2>4, <2>5, <2>6, <2>7 DEF SessionNext
<1>. QED
  BY <1>1, <1>2, <1>3

----------------------------------------------------------------------------

\* A Monotonic session that has written keeps a socket of the master, and reads
\* on it, until it is refreshed or its mode is set.
LEMMA WritesRead ==
  ASSUME SessionAssumption, SessionIInv
  PROVE  ReadYourWrites /\ WritersOnMaster
<1>1. WritersOnMaster
  BY DEF SessionIInv, SessionOk, SlotsFit, WritersOnMaster
<1>2. ReadYourWrites
  <2> SUFFICES ASSUME NEW c \in Callers, caller[c].at = "missed", ~steppedDown,
                      session[caller[c].s].consistency = "monotonic",
                      session[caller[c].s].wrote
               PROVE  /\ Found(session[caller[c].s], TRUE) # None
                      /\ socket[Found(session[caller[c].s], TRUE)].master
    BY DEF ReadYourWrites
  <2>1. session[caller[c].s].open /\ SlotsFit(session[caller[c].s], socket, steppedDown)
    BY Waiting
  <2>2. session[caller[c].s].masterSocket # None
    BY <2>1 DEF SlotsFit
  <2>3. Found(session[caller[c].s], TRUE) = session[caller[c].s].masterSocket
    BY <2>2 DEF Found
  <2>. QED
    BY <2>1, <2>2, <2>3 DEF SlotsFit
<1>. QED
  BY <1>1, <1>2

\* The promises of a session: reads of one's own writes, and a login valid for
\* the whole session (docs of SetMode and of Login).
THEOREM SessionKeepsPromises == SessionSpec => []SessionPromises
<1> DEFINE Inv == SessionIInv /\ CredsIInv
<1>1. SessionInit => Inv
  <2> SUFFICES ASSUME SessionInit PROVE Inv
    OBVIOUS
  <2>1. SessionIInv
    BY SessionInitial, SessionAssumption
  <2>2. /\ \A c \in Callers : caller[c] = Idle
        /\ \A s \in Sessions : session[s] = Unborn
    BY DEF SessionInit
  <2>3. /\ \A s \in Sessions : Main(session[s]) = None /\ Reserved(session[s]) = {}
        /\ \A c \in Callers : LoginOk(caller[c], session[caller[c].s], socket)
    <3>1. \A s \in Sessions : session[s].masterSocket = None /\ session[s].slaveSocket = None
      BY <2>2 DEF Unborn
    <3>2. \A c \in Callers : caller[c].at = "idle"
      BY <2>2 DEF Idle
    <3>. QED
      BY <3>1, <3>2 DEF Main, Reserved, LoginOk
  <2>4. CredsIInv
    BY <2>2, <2>3 DEF CredsIInv
  <2>. QED
    BY <2>1, <2>4
<1>2. Inv /\ [SessionNext]_sessionVars => Inv'
  BY SessionStep, CredsStep, SessionAssumption
<1>3. Inv => SessionPromises
  <2> SUFFICES ASSUME SessionIInv, CredsIInv PROVE SessionPromises
    OBVIOUS
  <2>1. CredsApplied
    <3> SUFFICES ASSUME OnItsOwn, NEW s \in Sessions, NEW slaveOk \in BOOLEAN,
                        Found(session[s], slaveOk) # None
                 PROVE  session[s].creds \subseteq socket[Found(session[s], slaveOk)].logins
      BY DEF CredsApplied, OnItsOwn
    <3>1. Found(session[s], slaveOk) = Main(session[s])
      BY MainIs, SessionAssumption
    <3>. QED
      BY <3>1 DEF CredsIInv
  <2>. QED
    BY <2>1, WritesRead, SessionAssumption DEF SessionPromises
<1> HIDE DEF Inv
<1>. QED
  BY <1>1, <1>2, <1>3, PTL DEF SessionSpec

----------------------------------------------------------------------------
(* Iterators: what is under way, queries and replies                       *)

Reply ==
  {r \in [at : {"asked", "reply"}, limit : Int, docs : Seq(1 .. Total), n : Nat,
          open : BOOLEAN] :
     /\ Len(r.docs) <= r.n
     /\ r.docs = <<>> => r.n = 0
     /\ r.at = "asked" => r.n = 0}

\* None of its documents has been read.
Fresh(r) == r.n = Len(r.docs)

Added(s, t, r) == /\ Len(t) = Len(s) + 1 /\ t[Len(s) + 1] = r
                  /\ \A j \in 1 .. Len(s) : t[j] = s[j]
Changed(s, t, i, r) == /\ Len(t) = Len(s)
                       /\ \A j \in 1 .. Len(s) : t[j] = IF j = i THEN r ELSE s[j]
Removed(s, t, i) == /\ Len(t) = Len(s) - 1
                    /\ \A j \in 1 .. Len(t) : t[j] = s[IF j < i THEN j ELSE j + 1]

LEMMA AppendAdds ==
  ASSUME NEW S, NEW s \in Seq(S), NEW r \in S
  PROVE  Append(s, r) \in Seq(S) /\ Added(s, Append(s, r), r)
BY AppendProperties DEF Added

LEMMA ExceptChanges ==
  ASSUME NEW S, NEW s \in Seq(S), NEW i \in 1 .. Len(s), NEW r \in S
  PROVE  [s EXCEPT ![i] = r] \in Seq(S) /\ Changed(s, [s EXCEPT ![i] = r], i, r)
BY ExceptSeq DEF Changed

LEMMA RemoveAtRemoves ==
  ASSUME NEW S, NEW s \in Seq(S), NEW i \in 1 .. Len(s)
  PROVE  RemoveAt(s, i) \in Seq(S) /\ Removed(s, RemoveAt(s, i), i)
<1>. PICK n \in Nat : n = Len(s)
  BY LenProperties
<1>. DEFINE a == SubSeq(s, 1, i - 1)
            b == SubSeq(s, i + 1, n)
<1>1. \A j \in 1 .. n : s[j] \in S
  BY ElementOfSeq
<1>2. /\ a \in Seq(S) /\ Len(a) = i - 1 /\ \A j \in 1 .. i - 1 : a[j] = s[j]
      /\ b \in Seq(S) /\ Len(b) = n - i /\ \A j \in 1 .. n - i : b[j] = s[i + j]
  <2>1. /\ a \in Seq(S) /\ Len(a) = IF 1 <= i - 1 THEN i - 1 - 1 + 1 ELSE 0
        /\ \A j \in 1 .. i - 1 - 1 + 1 : a[j] = s[1 + j - 1]
    <3>1. 1 \in Int /\ i - 1 \in Int /\ \A j \in 1 .. i - 1 : s[j] \in S
      BY <1>1
    <3>. QED
      BY <3>1, SubSeqProperties
  <2>2. /\ b \in Seq(S) /\ Len(b) = IF i + 1 <= n THEN n - (i + 1) + 1 ELSE 0
        /\ \A j \in 1 .. n - (i + 1) + 1 : b[j] = s[i + 1 + j - 1]
    <3>1. i + 1 \in Int /\ n \in Int /\ \A j \in i + 1 .. n : s[j] \in S
      BY <1>1
    <3>. QED
      BY <3>1, SubSeqProperties
  <2>. HIDE DEF a, b
  <2>. QED
    BY <2>1, <2>2
<1>3. RemoveAt(s, i) = a \o b
  BY DEF RemoveAt
<1>. HIDE DEF a, b
<1>4. /\ a \o b \in Seq(S) /\ Len(a \o b) = Len(a) + Len(b)
      /\ \A j \in 1 .. Len(a) + Len(b) :
           (a \o b)[j] = IF j <= Len(a) THEN a[j] ELSE b[j - Len(a)]
  BY <1>2, ConcatProperties
<1>5. ASSUME NEW j \in 1 .. n - 1 PROVE (a \o b)[j] = s[IF j < i THEN j ELSE j + 1]
  <2>1. CASE j < i
    BY <1>2, <1>4, <2>1
  <2>2. CASE ~ (j < i)
    <3>1. j - (i - 1) \in 1 .. n - i /\ i + (j - (i - 1)) = j + 1
      BY <2>2
    <3>2. (a \o b)[j] = b[j - (i - 1)]
      BY <1>2, <1>4, <2>2
    <3>. QED
      BY <1>2, <2>2, <3>1, <3>2
  <2>. QED
    BY <2>1, <2>2
<1>6. Len(a \o b) = n - 1
  BY <1>2, <1>4
<1>7. Removed(s, a \o b, i)
  BY <1>5, <1>6 DEF Removed
<1>. QED
  BY <1>3, <1>4, <1>7

----------------------------------------------------------------------------
(* Sums                                                                    *)

\* f gives the sums of the first of the n numbers d.
Sums(f, d, n) == f[0] = 0 /\ \A k \in 0 .. n - 1 : f[k + 1] = f[k] + d[k + 1]
SumIs(d, n, v) == \E f \in [Nat -> Nat] : Sums(f, d, n) /\ v = f[n]

LEMMA SumExists ==
  ASSUME NEW n \in Nat, NEW d \in [Nat -> Nat]
  PROVE  \E v : SumIs(d, n, v)
<1>. DEFINE next == [k \in Nat |-> [v \in Nat |-> IF k < n THEN v + d[k + 1] ELSE v]]
<1>1. next \in [Nat -> [Nat -> Nat]]
  OBVIOUS
<1>2. \A k \in Nat, v \in Nat : next[k][v] = IF k < n THEN v + d[k + 1] ELSE v
  OBVIOUS
<1>. HIDE DEF next
<1>3. PICK f \in [Nat -> Nat] : Computes(f, 0, next)
  BY <1>1, Recursion
<1>4. ASSUME NEW k \in 0 .. n - 1 PROVE f[k + 1] = f[k] + d[k + 1]
  <2>1. k \in Nat /\ k < n /\ f[k] \in Nat
    OBVIOUS
  <2>. QED
    BY <1>2, <1>3, <2>1 DEF Computes
<1>5. Sums(f, d, n)
  BY <1>3, <1>4 DEF Sums, Computes
<1>. QED
  BY <1>5 DEF SumIs

LEMMA SumUnique ==
  ASSUME NEW n \in Nat, NEW d \in [Nat -> Nat],
         NEW f \in [Nat -> Nat], NEW g \in [Nat -> Nat],
         Sums(f, d, n), Sums(g, d, n)
  PROVE  \A k \in 0 .. n : f[k] = g[k]
<1>. DEFINE S == {k \in Nat : k <= n => f[k] = g[k]}
<1>1. 0 \in S
  BY DEF Sums
<1>2. ASSUME NEW k \in S PROVE k + 1 \in S
  <2>1. ASSUME k + 1 <= n PROVE f[k + 1] = g[k + 1]
    <3>1. k \in 0 .. n - 1 /\ f[k] = g[k]
      BY <2>1
    <3>2. f[k + 1] = f[k] + d[k + 1] /\ g[k + 1] = g[k] + d[k + 1]
      BY <3>1 DEF Sums
    <3>. QED
      BY <3>1, <3>2
  <2>2. k + 1 \in Nat
    OBVIOUS
  <2>. QED
    BY <2>1, <2>2
<1>3. S = Nat
  <2>1. S \subseteq Nat
    OBVIOUS
  <2>. HIDE DEF S
  <2>. QED
    BY <1>1, <1>2, <2>1, Induction
<1>4. \A k \in 0 .. n : k \in Nat /\ k <= n
  OBVIOUS
<1>. QED
  BY <1>3, <1>4

LEMMA SumAtLeast ==
  ASSUME NEW n \in Nat, NEW d \in [Nat -> Nat], NEW v, SumIs(d, n, v),
         \A k \in 1 .. n : d[k] >= 1
  PROVE  v \in Nat /\ v >= n /\ (n = 0 => v = 0)
<1>0. PICK f \in [Nat -> Nat] : Sums(f, d, n) /\ v = f[n]
  BY DEF SumIs
<1>. DEFINE S == {k \in Nat : k <= n => f[k] >= k}
<1>1. 0 \in S
  BY <1>0 DEF Sums
<1>2. ASSUME NEW k \in S PROVE k + 1 \in S
  <2>1. ASSUME k + 1 <= n PROVE f[k + 1] >= k + 1
    <3>1. k \in 0 .. n - 1 /\ f[k] >= k /\ f[k] \in Nat /\ k \in Nat
      BY <2>1
    <3>2. d[k + 1] \in Nat /\ d[k + 1] >= 1
      BY <3>1
    <3>3. f[k + 1] = f[k] + d[k + 1]
      BY <1>0, <3>1 DEF Sums
    <3>. QED
      BY <3>1, <3>2, <3>3
  <2>. QED
    BY <2>1
<1>3. S = Nat
  <2>1. S \subseteq Nat
    OBVIOUS
  <2>. HIDE DEF S
  <2>. QED
    BY <1>1, <1>2, <2>1, Induction
<1>4. f[n] >= n /\ f[n] \in Nat
  BY <1>3
<1>5. n = 0 => f[n] = 0
  <2>1. f[0] = 0
    BY <1>0 DEF Sums
  <2>. QED
    BY <2>1
<1>. QED
  BY <1>0, <1>4, <1>5

\* From the i-th on, a sum is no less than the i-th.
LEMMA SumBelow ==
  ASSUME NEW n \in Nat, NEW d \in [Nat -> Nat], NEW f \in [Nat -> Nat], Sums(f, d, n),
         NEW i \in 1 .. n
  PROVE  \A k \in Nat : i <= k /\ k <= n => f[k] >= d[i]
<1>. DEFINE S == {k \in Nat : i <= k /\ k <= n => f[k] >= d[i]}
<1>1. 0 \in S
  OBVIOUS
<1>2. ASSUME NEW k \in S PROVE k + 1 \in S
  <2>1. ASSUME i <= k + 1, k + 1 <= n PROVE f[k + 1] >= d[i]
    <3>1. k \in 0 .. n - 1 /\ k \in Nat /\ f[k] \in Nat /\ k + 1 \in 1 .. n
      BY <2>1
    <3>2. f[k + 1] = f[k] + d[k + 1]
      BY <3>1 DEF Sums
    <3>3. d[k + 1] \in Nat /\ d[i] \in Nat
      BY <3>1
    <3>4. CASE i = k + 1
      BY <3>1, <3>2, <3>3, <3>4
    <3>5. CASE i <= k
      <4>1. f[k] >= d[i]
        BY <3>1, <3>5
      <4>. QED
        BY <3>1, <3>2, <3>3, <4>1
    <3>. QED
      BY <2>1, <3>1, <3>4, <3>5
  <2>. QED
    BY <2>1
<1>3. S = Nat
  <2>1. S \subseteq Nat
    OBVIOUS
  <2>. HIDE DEF S
  <2>. QED
    BY <1>1, <1>2, <2>1, Induction
<1>. QED
  BY <1>3

LEMMA SumAdded ==
  ASSUME NEW n \in Nat, NEW d \in [Nat -> Nat], NEW v, SumIs(d, n, v),
         NEW e \in [Nat -> Nat], \A k \in 1 .. n : e[k] = d[k]
  PROVE  SumIs(e, n + 1, v + e[n + 1])
<1>0. PICK f \in [Nat -> Nat] : Sums(f, d, n) /\ v = f[n]
  BY DEF SumIs
<1>1. e[n + 1] \in Nat
  OBVIOUS
<1>. DEFINE g == [k \in Nat |-> IF k <= n THEN f[k] ELSE f[n] + e[n + 1]]
<1>2. g \in [Nat -> Nat]
  <2>1. f[n] + e[n + 1] \in Nat
    BY <1>1
  <2>. QED
    BY <2>1
<1>3. /\ \A k \in 0 .. n : g[k] = f[k]
      /\ g[n + 1] = f[n] + e[n + 1]
  OBVIOUS
<1>. HIDE DEF g
<1>4. ASSUME NEW k \in 0 .. (n + 1) - 1 PROVE g[k + 1] = g[k] + e[k + 1]
  <2>1. CASE k = n
    BY <1>3, <2>1
  <2>2. CASE k # n
    <3>1. k \in 0 .. n - 1 /\ k + 1 \in 1 .. n /\ k \in 0 .. n /\ k + 1 \in 0 .. n
      BY <2>2
    <3>2. f[k + 1] = f[k] + d[k + 1]
      BY <1>0, <3>1 DEF Sums
    <3>3. g[k] = f[k] /\ g[k + 1] = f[k + 1] /\ e[k + 1] = d[k + 1]
      BY <1>3, <3>1
    <3>. QED
      BY <3>2, <3>3
  <2>. QED
    BY <2>1, <2>2
<1>5. g[0] = 0
  <2>1. f[0] = 0 /\ 0 \in 0 .. n
    BY <1>0 DEF Sums
  <2>. QED
    BY <1>3, <2>1
<1>6. Sums(g, e, n + 1)
  BY <1>4, <1>5 DEF Sums
<1>7. v + e[n + 1] = g[n + 1]
  BY <1>0, <1>3
<1>. QED
  BY <1>2, <1>6, <1>7 DEF SumIs

LEMMA SumChanged ==
  ASSUME NEW n \in Nat, NEW d \in [Nat -> Nat], NEW v, SumIs(d, n, v),
         NEW e \in [Nat -> Nat], NEW i \in 1 .. n,
         \A k \in 1 .. n : k # i => e[k] = d[k]
  PROVE  SumIs(e, n, v - d[i] + e[i])
<1>0. PICK f \in [Nat -> Nat] : Sums(f, d, n) /\ v = f[n]
  BY DEF SumIs
<1>1. e[i] \in Nat /\ d[i] \in Nat
  OBVIOUS
<1>2. \A k \in Nat : i <= k /\ k <= n => f[k] >= d[i]
  BY <1>0, SumBelow
<1>. DEFINE g == [k \in Nat |-> IF k < i THEN f[k]
                                ELSE IF k <= n THEN f[k] - d[i] + e[i] ELSE 0]
<1>3. g \in [Nat -> Nat]
  <2>1. ASSUME NEW k \in Nat, i <= k, k <= n PROVE f[k] - d[i] + e[i] \in Nat
    <3>1. f[k] \in Nat /\ f[k] >= d[i]
      BY <1>2, <2>1
    <3>. HIDE <1>0
    <3>. QED
      BY <1>1, <3>1
  <2>2. \A k \in Nat : f[k] \in Nat
    OBVIOUS
  <2>3. \A k \in Nat : (IF k < i THEN f[k]
                         ELSE IF k <= n THEN f[k] - d[i] + e[i] ELSE 0) \in Nat
    BY <2>1, <2>2
  <2>. QED
    BY <2>3
<1>4. \A k \in Nat : /\ k < i => g[k] = f[k]
                     /\ i <= k /\ k <= n => g[k] = f[k] - d[i] + e[i]
  OBVIOUS
<1>. HIDE DEF g
<1>5. ASSUME NEW k \in 0 .. n - 1 PROVE g[k + 1] = g[k] + e[k + 1]
  <2>1. k + 1 \in 1 .. n /\ k \in Nat /\ f[k] \in Nat /\ k + 1 \in Nat /\ f[k + 1] \in Nat
    OBVIOUS
  <2>6. d[k + 1] \in Nat /\ e[k + 1] \in Nat
    BY <2>1
  <2>7. f[k + 1] = f[k] + d[k + 1]
    BY <1>0 DEF Sums
  <2>2. f[k + 1] = f[k] + d[k + 1] /\ d[k + 1] \in Nat /\ e[k + 1] \in Nat
    BY <2>6, <2>7
  <2>3. CASE k + 1 = i
    <3>1. g[k] = f[k] /\ g[k + 1] = f[k + 1] - d[i] + e[i]
      BY <1>4, <2>1, <2>3
    <3>. QED
      BY <1>1, <2>1, <2>2, <2>3, <3>1
  <2>4. CASE k + 1 < i
    <3>1. g[k] = f[k] /\ g[k + 1] = f[k + 1]
      BY <1>4, <2>1, <2>4
    <3>. QED
      BY <2>1, <2>2, <2>4, <3>1
  <2>5. CASE i <= k
    <3>1. g[k] = f[k] - d[i] + e[i] /\ g[k + 1] = f[k + 1] - d[i] + e[i]
      BY <1>4, <2>1, <2>5
    <3>2. e[k + 1] = d[k + 1]
      BY <2>1, <2>5
    <3>. QED
      BY <1>1, <2>1, <2>2, <3>1, <3>2
  <2>. QED
    BY <2>1, <2>3, <2>4, <2>5
<1>6. g[0] = 0
  <2>1. f[0] = 0 /\ 0 \in Nat /\ 0 < i
    BY <1>0 DEF Sums
  <2>. QED
    BY <1>4, <2>1
<1>7. g[n] = v - d[i] + e[i]
  BY <1>0, <1>4
<1>8. Sums(g, e, n)
  BY <1>5, <1>6 DEF Sums
<1>. QED
  BY <1>3, <1>7, <1>8 DEF SumIs

LEMMA SumRemoved ==
  ASSUME NEW n \in Nat, NEW d \in [Nat -> Nat], NEW v, SumIs(d, n, v),
         NEW e \in [Nat -> Nat], NEW i \in 1 .. n,
         \A k \in 1 .. n - 1 : e[k] = d[IF k < i THEN k ELSE k + 1]
  PROVE  SumIs(e, n - 1, v - d[i])
<1>0. PICK f \in [Nat -> Nat] : Sums(f, d, n) /\ v = f[n]
  BY DEF SumIs
<1>1. d[i] \in Nat
  OBVIOUS
<1>2. \A k \in Nat : i <= k /\ k <= n => f[k] >= d[i]
  BY <1>0, SumBelow
<1>. DEFINE g == [k \in Nat |-> IF k < i THEN f[k]
                                ELSE IF k < n THEN f[k + 1] - d[i] ELSE 0]
<1>3. g \in [Nat -> Nat]
  <2>1. ASSUME NEW k \in Nat, i <= k, k < n PROVE f[k + 1] - d[i] \in Nat
    <3>1. k + 1 \in Nat /\ i <= k + 1 /\ k + 1 <= n
      BY <2>1
    <3>2. f[k + 1] \in Nat /\ f[k + 1] >= d[i]
      BY <1>2, <3>1
    <3>. QED
      BY <1>1, <3>2
  <2>2. \A k \in Nat : f[k] \in Nat
    OBVIOUS
  <2>3. \A k \in Nat : (IF k < i THEN f[k]
                         ELSE IF k < n THEN f[k + 1] - d[i] ELSE 0) \in Nat
    BY <2>1, <2>2
  <2>. QED
    BY <2>3
<1>4. \A k \in Nat : /\ k < i => g[k] = f[k]
                     /\ i <= k /\ k < n => g[k] = f[k + 1] - d[i]
  OBVIOUS
<1>. HIDE DEF g
<1>7. \A k \in 0 .. n - 1 : f[k + 1] = f[k] + d[k + 1]
  BY <1>0 DEF Sums
<1>5. ASSUME NEW k \in 0 .. (n - 1) - 1 PROVE g[k + 1] = g[k] + e[k + 1]
  <2>1. /\ k + 1 \in 1 .. n - 1 /\ k \in Nat /\ k + 1 \in Nat /\ k \in 0 .. n - 1
        /\ k + 1 \in 0 .. n - 1 /\ k + 1 \in 1 .. n /\ (k + 1) + 1 \in 1 .. n
        /\ (k + 1) + 1 \in Nat
    OBVIOUS
  <2>2. f[k] \in Nat /\ f[k + 1] \in Nat /\ d[k + 1] \in Nat /\ d[(k + 1) + 1] \in Nat
    BY <2>1
  <2>3. f[k + 1] = f[k] + d[k + 1] /\ f[(k + 1) + 1] = f[k + 1] + d[(k + 1) + 1]
    BY <1>7, <2>1
  <2>4. CASE k + 1 = i
    <3>1. g[k] = f[k] /\ g[k + 1] = f[(k + 1) + 1] - d[i]
      BY <1>4, <2>1, <2>4
    <3>2. e[k + 1] = d[(k + 1) + 1]
      BY <2>1, <2>4
    <3>3. ASSUME NEW a \in Nat, NEW b \in Nat, NEW c \in Nat PROVE ((a + b) + c) - b = a + c
      OBVIOUS
    <3>4. f[(k + 1) + 1] = (f[k] + d[k + 1]) + d[(k + 1) + 1]
      BY <2>3
    <3>5. f[(k + 1) + 1] - d[k + 1] = f[k] + d[(k + 1) + 1]
      BY <2>2, <3>3, <3>4
    <3>. QED
      BY <2>4, <3>1, <3>2, <3>5
  <2>5. CASE k + 1 < i
    <3>1. g[k] = f[k] /\ g[k + 1] = f[k + 1]
      BY <1>4, <2>1, <2>5
    <3>2. e[k + 1] = d[k + 1]
      BY <2>1, <2>5
    <3>. QED
      BY <2>3, <3>1, <3>2
  <2>6. CASE i <= k
    <3>1. g[k] = f[k + 1] - d[i] /\ g[k + 1] = f[(k + 1) + 1] - d[i]
      BY <1>4, <2>1, <2>6
    <3>2. e[k + 1] = d[(k + 1) + 1]
      BY <2>1, <2>6
    <3>. QED
      BY <1>1, <2>2, <2>3, <3>1, <3>2
  <2>. QED
    BY <2>1, <2>4, <2>5, <2>6
<1>6. g[0] = 0
  <2>1. f[0] = 0 /\ 0 \in Nat /\ 0 < i
    BY <1>0 DEF Sums
  <2>. QED
    BY <1>4, <2>1
<1>8. g[n - 1] = v - d[i]
  <2>1. CASE i = n
    <3>1. i - 1 \in 0 .. n - 1 /\ (i - 1) + 1 = i /\ i - 1 \in Nat /\ i - 1 < i
      OBVIOUS
    <3>2. f[i] = f[i - 1] + d[i] /\ g[i - 1] = f[i - 1] /\ f[i - 1] \in Nat
      BY <1>4, <1>7, <3>1
    <3>. QED
      BY <1>0, <1>1, <2>1, <3>2
  <2>2. CASE i < n
    <3>1. n - 1 \in Nat /\ i <= n - 1 /\ n - 1 < n /\ (n - 1) + 1 = n
      BY <2>2
    <3>. QED
      BY <1>0, <1>4, <3>1
  <2>. QED
    BY <2>1, <2>2
<1>9. Sums(g, e, n - 1)
  BY <1>5, <1>6 DEF Sums
<1>. QED
  BY <1>3, <1>8, <1>9 DEF SumIs

----------------------------------------------------------------------------
(* What the connection owes                                                *)

Owings(s) == [k \in Nat |-> IF k \in 1 .. Len(s) THEN Owed(s[k]) ELSE 0]
Due(s, v) == SumIs(Owings(s), Len(s), v)

LEMMA OwedType ==
  ASSUME NEW r \in Reply
  PROVE  /\ Owed(r) \in Nat /\ Owed(r) >= 1 /\ (Fresh(r) => Owed(r) = 1)
         /\ ~ Fresh(r) => Owed(r) = Len(r.docs) /\ r.docs # <<>>
<1>1. Len(r.docs) \in Nat /\ r.n \in Nat
  BY LenProperties DEF Reply
<1>2. r.docs # <<>> => Len(r.docs) # 0
  BY EmptySeq DEF Reply
<1>3. Len(<<>>) = 0
  BY EmptySeq
<1>. QED
  BY <1>1, <1>2, <1>3 DEF Reply, Owed, Fresh

LEMMA OwingsType ==
  ASSUME NEW s \in Seq(Reply)
  PROVE  /\ Owings(s) \in [Nat -> Nat] /\ Len(s) \in Nat
         /\ \A k \in 1 .. Len(s) : Owings(s)[k] = Owed(s[k]) /\ Owed(s[k]) >= 1
<1>. PICK n \in Nat : n = Len(s)
  BY LenProperties
<1>1. ASSUME NEW k \in 1 .. n PROVE Owed(s[k]) \in Nat /\ Owed(s[k]) >= 1
  <2>1. s[k] \in Reply
    BY ElementOfSeq
  <2>. QED
    BY <2>1, OwedType
<1>2. Owings(s) \in [Nat -> Nat]
  <2>1. \A k \in Nat : (IF k \in 1 .. n THEN Owed(s[k]) ELSE 0) \in Nat
    BY <1>1
  <2>. QED
    BY <2>1 DEF Owings
<1>3. \A k \in 1 .. n : Owings(s)[k] = Owed(s[k])
  BY DEF Owings
<1>. QED
  BY <1>1, <1>2, <1>3

LEMMA DueAtLeast ==
  ASSUME NEW s \in Seq(Reply), NEW v, Due(s, v)
  PROVE  v \in Nat /\ v >= Len(s) /\ (v = 0 => s = <<>>) /\ (Len(s) = 0 => v = 0)
<1>1. v \in Nat /\ v >= Len(s) /\ (Len(s) = 0 => v = 0) /\ Len(s) \in Nat
  <2>1. \A k \in 1 .. Len(s) : Owings(s)[k] >= 1
    BY OwingsType
  <2>. QED
    BY <2>1, OwingsType, SumAtLeast DEF Due
<1>3. s # <<>> => Len(s) # 0
  BY EmptySeq
<1>. QED
  BY <1>1, <1>3

LEMMA DueExists ==
  ASSUME NEW s \in Seq(Reply)
  PROVE  \E v : Due(s, v)
BY OwingsType, SumExists DEF Due

LEMMA DueAdded ==
  ASSUME NEW s \in Seq(Reply), NEW t \in Seq(Reply), NEW r, NEW v, Due(s, v), Added(s, t, r)
  PROVE  Due(t, v + Owed(r))
<1>. PICK n \in Nat : n = Len(s)
  BY LenProperties
<1>1. Len(t) = n + 1 /\ n + 1 \in 1 .. n + 1
  BY DEF Added
<1>2. ASSUME NEW k \in 1 .. n PROVE Owings(t)[k] = Owings(s)[k]
  <2>1. t[k] = s[k] /\ k \in 1 .. n + 1
    BY DEF Added
  <2>. QED
    BY <1>1, <2>1, OwingsType
<1>3. Owings(t)[n + 1] = Owed(r)
  BY <1>1, OwingsType DEF Added
<1>4. SumIs(Owings(t), n + 1, v + Owings(t)[n + 1])
  <2>1. SumIs(Owings(s), n, v)
    BY DEF Due
  <2>2. Owings(s) \in [Nat -> Nat] /\ Owings(t) \in [Nat -> Nat]
    BY OwingsType
  <2>. QED
    BY <1>2, <2>1, <2>2, SumAdded
<1>. QED
  BY <1>1, <1>3, <1>4 DEF Due

LEMMA DueChanged ==
  ASSUME NEW s \in Seq(Reply), NEW t \in Seq(Reply), NEW r, NEW v, NEW i \in 1 .. Len(s),
         Due(s, v), Changed(s, t, i, r)
  PROVE  Due(t, v - Owed(s[i]) + Owed(r))
<1>. PICK n \in Nat : n = Len(s)
  BY LenProperties
<1>1. Len(t) = n
  BY DEF Changed
<1>2. ASSUME NEW k \in 1 .. n, k # i PROVE Owings(t)[k] = Owings(s)[k]
  <2>1. t[k] = s[k]
    BY <1>2 DEF Changed
  <2>. QED
    BY <1>1, <2>1, OwingsType
<1>3. Owings(t)[i] = Owed(r) /\ Owings(s)[i] = Owed(s[i])
  BY <1>1, OwingsType DEF Changed
<1>4. SumIs(Owings(t), n, v - Owings(s)[i] + Owings(t)[i])
  <2>1. SumIs(Owings(s), n, v)
    BY DEF Due
  <2>2. Owings(s) \in [Nat -> Nat] /\ Owings(t) \in [Nat -> Nat]
    BY OwingsType
  <2>. QED
    BY <1>2, <2>1, <2>2, SumChanged
<1>. QED
  BY <1>1, <1>3, <1>4 DEF Due

LEMMA DueRemoved ==
  ASSUME NEW s \in Seq(Reply), NEW t \in Seq(Reply), NEW v, NEW i \in 1 .. Len(s),
         Due(s, v), Removed(s, t, i)
  PROVE  Due(t, v - Owed(s[i]))
<1>. PICK n \in Nat : n = Len(s)
  BY LenProperties
<1>1. Len(t) = n - 1
  BY DEF Removed
<1>2. ASSUME NEW k \in 1 .. n - 1
      PROVE  Owings(t)[k] = Owings(s)[IF k < i THEN k ELSE k + 1]
  <2>1. t[k] = s[IF k < i THEN k ELSE k + 1]
    BY <1>1 DEF Removed
  <2>2. (IF k < i THEN k ELSE k + 1) \in 1 .. n
    OBVIOUS
  <2>3. Owings(t)[k] = Owed(t[k])
    BY <1>1, OwingsType
  <2>4. Owings(s)[IF k < i THEN k ELSE k + 1] = Owed(s[IF k < i THEN k ELSE k + 1])
    BY <2>2, OwingsType
  <2>. QED
    BY <2>1, <2>3, <2>4
<1>3. Owings(s)[i] = Owed(s[i])
  BY OwingsType
<1>4. SumIs(Owings(t), n - 1, v - Owings(s)[i])
  <2>1. SumIs(Owings(s), n, v)
    BY DEF Due
  <2>2. Owings(s) \in [Nat -> Nat] /\ Owings(t) \in [Nat -> Nat]
    BY OwingsType
  <2>. QED
    BY <1>2, <2>1, <2>2, SumRemoved
<1>. QED
  BY <1>1, <1>3, <1>4 DEF Due

\* The fold of OwesExact is that sum.
OwedSum(s) == FoldLeft(LAMBDA sum, r : sum + Owed(r), 0, s)

LEMMA FoldOwes ==
  ASSUME NEW s \in Seq(Reply), NEW v, Due(s, v)
  PROVE  OwedSum(s) = v
<1>. PICK n \in Nat : n = Len(s)
  BY LenProperties
<1>1. DOMAIN s = 1 .. n
  BY LenProperties
<1>. DEFINE Turn(f, t) == IF t = {} THEN 0 ELSE f[t \ {Max(t)}] + Owed(s[Max(t)])
            Folds(f) == f = [t \in SUBSET (1 .. n) |-> Turn(f, t)]
            it == CHOOSE f : Folds(f)
<1>2. OwedSum(s) = it[1 .. n]
  BY <1>1 DEF OwedSum, FoldLeft, MapThenFoldSet
<1>3. \E f : Folds(f)
  <2>. DEFINE op == [k \in 1 .. n |-> [w \in Nat |-> w + Owed(s[k])]]
  <2>0. \A k \in 1 .. n : Owed(s[k]) \in Nat
    <3>1. \A k \in 1 .. n : s[k] \in Reply
      BY ElementOfSeq
    <3>. QED
      BY <3>1, OwedType
  <2>1. op \in [1 .. n -> [Nat -> Nat]]
    BY <2>0
  <2>2. \A k \in 1 .. n, w \in Nat : op[k][w] = w + Owed(s[k])
    OBVIOUS
  <2>. HIDE DEF op
  <2>3. PICK f \in [SUBSET (1 .. n) -> Nat] : FoldsTo(f, n, 0, op)
    BY <2>1, FoldExists
  <2>4. ASSUME NEW t \in SUBSET (1 .. n) PROVE f[t] = Turn(f, t)
    <3>1. CASE t = {}
      BY <2>3, <3>1 DEF FoldsTo
    <3>2. CASE t # {}
      <4>1. Max(t) \in 1 .. n
        <5>1. t \subseteq Nat /\ \A x \in t : x <= n
          OBVIOUS
        <5>2. Max(t) \in t
          BY <3>2, <5>1, HasGreatest
        <5>. QED
          BY <5>2
      <4>2. f[t \ {Max(t)}] \in Nat
        OBVIOUS
      <4>3. op[Max(t)][f[t \ {Max(t)}]] = f[t \ {Max(t)}] + Owed(s[Max(t)])
        BY <2>2, <4>1, <4>2
      <4>4. f[t] = op[Max(t)][f[t \ {Max(t)}]]
        BY <2>3, <3>2 DEF FoldsTo
      <4>. QED
        BY <3>2, <4>3, <4>4
    <3>. QED
      BY <3>1, <3>2
  <2>5. f = [t \in SUBSET (1 .. n) |-> f[t]]
    BY <2>3
  <2>. HIDE DEF Turn
  <2>6. Folds(f)
    BY <2>4, <2>5
  <2>. QED
    BY <2>6
<1>4. Folds(it)
  <2>. HIDE DEF Folds
  <2>. QED
    BY <1>3
<1>. HIDE DEF it
<1>5. \A t \in SUBSET (1 .. n) : it[t] = Turn(it, t)
  <2>. HIDE DEF Turn
  <2>. QED
    BY <1>4
<1>. HIDE DEF Folds
<1>6. PICK f \in [Nat -> Nat] : Sums(f, Owings(s), n) /\ v = f[n]
  BY DEF Due, SumIs
<1>. DEFINE S == {k \in Nat : k <= n => it[1 .. k] = f[k]}
<1>7. 0 \in S
  <2>1. 1 .. 0 = {} /\ {} \in SUBSET (1 .. n)
    OBVIOUS
  <2>2. it[{}] = 0
    BY <1>5, <2>1
  <2>3. f[0] = 0
    BY <1>6 DEF Sums
  <2>. QED
    BY <2>1, <2>2, <2>3
<1>8. ASSUME NEW k \in S PROVE k + 1 \in S
  <2>1. ASSUME k + 1 <= n PROVE it[1 .. k + 1] = f[k + 1]
    <3>1. k \in Nat /\ it[1 .. k] = f[k] /\ k \in 0 .. n - 1 /\ k + 1 \in 1 .. n
          /\ (k + 1) - 1 = k
      BY <2>1
    <3>2. /\ 1 .. k + 1 \in SUBSET (1 .. n) /\ 1 .. k + 1 # {} /\ Max(1 .. k + 1) = k + 1
          /\ (1 .. k + 1) \ {k + 1} = 1 .. k
      BY <3>1, Prefix
    <3>3. it[1 .. k + 1] = Turn(it, 1 .. k + 1)
      BY <1>5, <3>2
    <3>4. it[1 .. k + 1] = it[1 .. k] + Owed(s[k + 1])
      BY <3>2, <3>3
    <3>5. f[k + 1] = f[k] + Owings(s)[k + 1]
      BY <1>6, <3>1 DEF Sums
    <3>6. Owings(s)[k + 1] = Owed(s[k + 1])
      BY <3>1, OwingsType
    <3>. QED
      BY <3>1, <3>4, <3>5, <3>6
  <2>2. k + 1 \in Nat
    OBVIOUS
  <2>. HIDE DEF Turn
  <2>. QED
    BY <2>1, <2>2
<1>9. S = Nat
  <2>1. S \subseteq Nat
    OBVIOUS
  <2>. HIDE DEF S
  <2>. QED
    BY <1>7, <1>8, <2>1, Induction
<1>10. it[1 .. n] = f[n]
  <2>1. n \in S
    BY <1>9
  <2>. QED
    BY <2>1
<1>. QED
  BY <1>2, <1>6, <1>10

----------------------------------------------------------------------------
(* Which of the replies is still whole                                     *)

NoFresh(s) == \A i \in 1 .. Len(s) : ~ Fresh(s[i])
OneFresh(s) == \A i, j \in 1 .. Len(s) : Fresh(s[i]) /\ Fresh(s[j]) => i = j

\* What is whole in t was so, elsewhere than at i, in s; and all that was is.
Left(s, t, i) ==
  /\ \A j \in 1 .. Len(t) : Fresh(t[j]) => \E k \in 1 .. Len(s) : k # i /\ t[j] = s[k]
  /\ \A k \in 1 .. Len(s) : Fresh(s[k]) /\ k # i => \E j \in 1 .. Len(t) : t[j] = s[k]

LEMMA ReplyType ==
  ASSUME NEW s \in Seq(Reply), NEW i \in 1 .. Len(s)
  PROVE  /\ s[i] \in Reply
         /\ s[i].at \in {"asked", "reply"} /\ s[i].limit \in Int /\ s[i].docs \in Seq(1 .. Total)
         /\ s[i].n \in Nat /\ s[i].open \in BOOLEAN
         /\ Len(s[i].docs) \in Nat /\ Len(s[i].docs) <= s[i].n
         /\ (s[i].docs = <<>> <=> Len(s[i].docs) = 0) /\ (s[i].n = 0 <=> Len(s[i].docs) = 0)
         /\ (s[i].at = "asked" => Fresh(s[i]) /\ s[i].n = 0)
<1>1. s[i] \in Reply
  BY ElementOfSeq
<1>2. /\ s[i].at \in {"asked", "reply"} /\ s[i].limit \in Int /\ s[i].docs \in Seq(1 .. Total)
      /\ s[i].n \in Nat /\ s[i].open \in BOOLEAN /\ Len(s[i].docs) <= s[i].n
      /\ (s[i].docs = <<>> => s[i].n = 0) /\ (s[i].at = "asked" => s[i].n = 0)
  BY <1>1 DEF Reply
<1>3. Len(s[i].docs) \in Nat /\ (s[i].docs = <<>> <=> Len(s[i].docs) = 0)
  BY <1>2, EmptySeq, LenProperties
<1>. QED
  BY <1>1, <1>2, <1>3 DEF Fresh

LEMMA RemovedLeaves ==
  ASSUME NEW s \in Seq(Reply), NEW i \in 1 .. Len(s), NEW t, Removed(s, t, i)
  PROVE  Left(s, t, i)
<1>. PICK n \in Nat : n = Len(s)
  BY LenProperties
<1>1. Len(t) = n - 1 /\ \A j \in 1 .. n - 1 : t[j] = s[IF j < i THEN j ELSE j + 1]
  BY DEF Removed
<1>2. ASSUME NEW j \in 1 .. n - 1 PROVE \E k \in 1 .. n : k # i /\ t[j] = s[k]
  <2>1. (IF j < i THEN j ELSE j + 1) \in 1 .. n /\ (IF j < i THEN j ELSE j + 1) # i
    OBVIOUS
  <2>. QED
    BY <1>1, <2>1
<1>3. ASSUME NEW k \in 1 .. n, k # i PROVE \E j \in 1 .. n - 1 : t[j] = s[k]
  <2>1. CASE k < i
    <3>1. k \in 1 .. n - 1 /\ t[k] = s[k]
      BY <1>1, <2>1
    <3>. QED
      BY <3>1
  <2>2. CASE k > i
    <3>1. k - 1 \in 1 .. n - 1 /\ ~ (k - 1 < i) /\ (k - 1) + 1 = k
      BY <2>2
    <3>2. t[k - 1] = s[k]
      BY <1>1, <3>1
    <3>. QED
      BY <3>1, <3>2
  <2>. QED
    BY <1>3, <2>1, <2>2
<1>. QED
  BY <1>1, <1>2, <1>3 DEF Left

LEMMA ChangedLeaves ==
  ASSUME NEW s \in Seq(Reply), NEW i \in 1 .. Len(s), NEW t, NEW r, Changed(s, t, i, r),
         ~ Fresh(r)
  PROVE  Left(s, t, i)
BY DEF Changed, Left

LEMMA LeftFresh ==
  ASSUME NEW s, NEW i \in 1 .. Len(s), NEW t, Left(s, t, i), OneFresh(s)
  PROVE  /\ NoFresh(s) => NoFresh(t)
         /\ Fresh(s[i]) => NoFresh(t)
         /\ ~ Fresh(s[i]) => (NoFresh(t) <=> NoFresh(s))
BY DEF Left, NoFresh, OneFresh

LEMMA RemovedOne ==
  ASSUME NEW s \in Seq(Reply), NEW i \in 1 .. Len(s), NEW t, Removed(s, t, i), OneFresh(s)
  PROVE  OneFresh(t)
<1>. PICK n \in Nat : n = Len(s)
  BY LenProperties
<1>. SUFFICES ASSUME NEW j \in 1 .. n - 1, NEW k \in 1 .. n - 1, Fresh(t[j]), Fresh(t[k])
              PROVE  j = k
  BY DEF OneFresh, Removed
<1>1. /\ (IF j < i THEN j ELSE j + 1) \in 1 .. n
      /\ (IF k < i THEN k ELSE k + 1) \in 1 .. n
  OBVIOUS
<1>2. /\ t[j] = s[IF j < i THEN j ELSE j + 1]
      /\ t[k] = s[IF k < i THEN k ELSE k + 1]
  BY DEF Removed
<1>3. (IF j < i THEN j ELSE j + 1) = (IF k < i THEN k ELSE k + 1)
  BY <1>1, <1>2 DEF OneFresh
<1>. QED
  BY <1>3

LEMMA ChangedOne ==
  ASSUME NEW s, NEW i \in 1 .. Len(s), NEW t, NEW r, Changed(s, t, i, r), OneFresh(s),
         Fresh(r) => Fresh(s[i])
  PROVE  OneFresh(t)
BY DEF Changed, OneFresh

LEMMA AddedOne ==
  ASSUME NEW s \in Seq(Reply), NEW t, NEW r, Added(s, t, r), NoFresh(s)
  PROVE  OneFresh(t) /\ (Fresh(r) => ~ NoFresh(t))
<1>. PICK n \in Nat : n = Len(s)
  BY LenProperties
<1>1. Len(t) = n + 1 /\ t[n + 1] = r /\ \A j \in 1 .. n : ~ Fresh(t[j])
  BY DEF Added, NoFresh
<1>. QED
  BY <1>1 DEF OneFresh, NoFresh

----------------------------------------------------------------------------
(* The inductive invariant                                                 *)

Errors == {"nil", "ErrNotFound", "dead", "unavailable", "bad document"}
Places == {"idle", "next", "waiting", "getMore", "query", "moreInPop", "queryInPop",
           "panicked", "deadlocked"}
Asks == {"getMore", "query", "moreInPop", "queryInPop"}

Typed ==
  /\ iter \in [docData : Seq(1 .. Total), docsToReceive : Nat, docsBeforeMore : Int,
               cursorId : BOOLEAN, opLimit : Int, limit : Nat, err : Errors,
               timedout : BOOLEAN]
  /\ user \in Places
  /\ net \in Seq(Reply)
  /\ cursor \in [next : 1 .. Total + 1, open : BOOLEAN]
  /\ given \in Seq(1 .. Total)
  /\ initial \in Queries
  /\ closed \in {"no", "clean", "early", "failed"}

\* After the connection is lost docsToReceive may have counted too much.
Linked == net # <<>> \/ iter.err = "nil"
Owing == Linked => Due(net, iter.docsToReceive)

\* Another batch is asked for when the last one has begun to come, with nothing
\* wrong; Next waits for it, or asked before it had given what it had.
AskOk ==
  /\ user \in Asks => iter.err = "nil" /\ iter.cursorId /\ NoFresh(net)
  /\ user # "idle" => closed = "no"
  /\ user \in {"getMore", "query"} => net = <<>> /\ iter.docData = <<>>
  /\ user \in {"moreInPop", "queryInPop"} => iter.docsBeforeMore < 0
  /\ ~ NoFresh(net) => iter.docsBeforeMore < 0 \/ (iter.docData = <<>> /\ Len(net) = 1)

\* Sizes that the server takes for the limit of the query.
Hard(n) == n < 0 \/ n = 1
HardOk ==
  /\ \A i \in 1 .. Len(net) : net[i].at = "asked" => net[i].limit = iter.opLimit
  /\ Hard(iter.opLimit) /\ user \notin {"query", "queryInPop", "deadlocked"} =>
       /\ NoFresh(net) /\ iter.err = "nil" => ~ iter.cursorId
       /\ \A i \in 1 .. Len(net) : Fresh(net[i]) => net[i].at = "asked" \/ ~ net[i].open

\* A cursor is open: the iterator knows, or will with the reply that comes.
CursorOk ==
  /\ \A i \in 1 .. Len(net) : Fresh(net[i]) /\ net[i].at = "reply" /\ cursor.open => net[i].open
  /\ closed = "no" /\ cursor.open =>
       \/ iter.cursorId \/ ~ NoFresh(net)
       \/ /\ iter.err \in {"dead", "unavailable"}
          /\ iter.limit = 0 \/ (iter.docData = <<>> /\ net = <<>>)
  /\ closed = "no" /\ ~ NoFresh(net) /\ ~ iter.cursorId =>
       iter.limit = 0 \/ (iter.docData = <<>> /\ Len(net) = 1)
  /\ closed = "clean" => net = <<>> /\ (cursor.open => iter.err \in {"dead", "unavailable"})

\* One socket: the last reply is the only one that may be whole, and what was
\* given, what is cached and what comes are the documents in their order.
From(s, a) == \A i \in 1 .. Len(s) : s[i] = a + i
Behind(s, i) == IF i = 1 THEN 0 ELSE Len(s[1].docs)
Unread(s, i) == IF i \in 1 .. Len(s) THEN Len(s[i].docs) ELSE 0
Coming(s) == Unread(s, 1) + Unread(s, 2)
Had == Len(given) + Len(iter.docData)
OrderOk ==
  initial.reserved =>
    /\ Len(net) <= 2 /\ (Len(net) = 2 => Fresh(net[2]))
    /\ From(given, 0) /\ From(iter.docData, Len(given))
    /\ \A i \in 1 .. Len(net) : From(net[i].docs, Had + Behind(net, i))
    /\ Linked => cursor.next = Had + Coming(net) + 1

\* What is asked for fits in what the limit leaves.
Kept == Len(iter.docData) + Coming(net)
Abs(n) == IF n < 0 THEN - n ELSE n
SizeOk(n) == n # 0 /\ Kept + Abs(n) <= iter.limit /\ (n = 1 => Kept + 1 = iter.limit)
Unlimited == iter.limit = 0 /\ iter.opLimit = initial.opLimit
Bounded ==
  /\ iter.limit + Len(given) = initial.limit
  /\ Kept <= iter.limit
  /\ \A i \in 1 .. Len(net) : net[i].at = "asked" => SizeOk(net[i].limit)
  /\ iter.err = "nil" => iter.limit > 0
  /\ iter.err = "nil" /\ iter.cursorId /\ NoFresh(net) /\ iter.docsBeforeMore >= 0
       => Kept < iter.limit
  /\ user \in {"moreInPop", "queryInPop"} => Kept < iter.limit
  /\ user \in {"query", "queryInPop"} => iter.opLimit >= 1 /\ SizeOk(iter.opLimit)
  /\ iter.opLimit >= 1 \/ iter.opLimit = - initial.limit
LimitOk ==
  Fits(initial) => /\ user # "panicked"
                   /\ IF initial.limit = 0 THEN Unlimited ELSE Bounded

\* When the server closes the cursor by itself it has sent them all.
AllSent == cursor.next = Total + 1 \/ (initial.limit > 0 /\ cursor.next = initial.limit + 1)
Target == IF initial.limit > 0 THEN Lesser(initial.limit, Total) ELSE Total
EndOk ==
  initial.reserved /\ Fits(initial) /\ ~ initial.tail =>
    /\ \A i \in 1 .. Len(net) : Fresh(net[i]) /\ net[i].at = "reply" /\ ~ net[i].open => AllSent
    /\ iter.err = "nil" /\ closed = "no" /\ NoFresh(net) /\ ~ iter.cursorId => AllSent
    /\ iter.err = "ErrNotFound" /\ closed = "no" =>
         /\ Had = Target /\ Coming(net) = 0
         /\ \A i \in 1 .. Len(net) : net[i].at # "asked"

IterInd == Typed /\ OneFresh(net) /\ Owing /\ AskOk /\ HardOk /\ CursorOk /\ OrderOk
           /\ LimitOk /\ EndOk

----------------------------------------------------------------------------
(* Steps that ask, wait or return                                          *)

LEMMA Fields ==
  ASSUME Typed
  PROVE  /\ iter.docData \in Seq(1 .. Total) /\ iter.docsToReceive \in Nat
         /\ iter.docsBeforeMore \in Int /\ iter.cursorId \in BOOLEAN
         /\ iter.opLimit \in Int /\ iter.limit \in Nat /\ iter.err \in Errors
         /\ iter.timedout \in BOOLEAN
         /\ Len(iter.docData) \in Nat /\ Len(given) \in Nat /\ Len(net) \in Nat
         /\ (iter.docData = <<>> <=> Len(iter.docData) = 0)
         /\ (net = <<>> <=> Len(net) = 0)
         /\ cursor.next \in 1 .. Total + 1 /\ cursor.open \in BOOLEAN
<1>1. /\ iter.docData \in Seq(1 .. Total) /\ iter.docsToReceive \in Nat
      /\ iter.docsBeforeMore \in Int /\ iter.cursorId \in BOOLEAN
      /\ iter.opLimit \in Int /\ iter.limit \in Nat /\ iter.err \in Errors
      /\ iter.timedout \in BOOLEAN
      /\ cursor.next \in 1 .. Total + 1 /\ cursor.open \in BOOLEAN
  BY DEF Typed
<1>2. net \in Seq(Reply) /\ given \in Seq(1 .. Total)
  BY DEF Typed
<1>3. /\ Len(iter.docData) \in Nat /\ (iter.docData = <<>> <=> Len(iter.docData) = 0)
      /\ Len(net) \in Nat /\ (net = <<>> <=> Len(net) = 0) /\ Len(given) \in Nat
  BY <1>1, <1>2, EmptySeq, LenProperties
<1>. QED
  BY <1>1, <1>3

\* What the invariant says of the iterator is the same but for its place.
SameIter ==
  /\ iter'.docData = iter.docData /\ iter'.docsToReceive = iter.docsToReceive
  /\ iter'.docsBeforeMore = iter.docsBeforeMore /\ iter'.cursorId = iter.cursorId
  /\ iter'.opLimit = iter.opLimit /\ iter'.limit = iter.limit /\ iter'.err = iter.err

LEMMA Moves ==
  ASSUME IterInd, SameIter, UNCHANGED <<net, cursor, given, initial, closed>>, Typed', AskOk',
         user \notin {"query", "queryInPop", "deadlocked"},
         user' \notin {"moreInPop", "queryInPop", "query", "panicked"}
  PROVE  IterInd'
<1>1. OneFresh(net)' /\ Owing'
  BY DEF IterInd, SameIter, Owing, Linked
<1>2. HardOk'
  BY DEF IterInd, SameIter, HardOk
<1>3. CursorOk'
  BY DEF IterInd, SameIter, CursorOk
<1>4. OrderOk'
  BY DEF IterInd, SameIter, OrderOk, Linked, Had
<1>5. LimitOk'
  BY DEF IterInd, SameIter, LimitOk, Unlimited, Bounded, Kept, SizeOk
<1>6. EndOk'
  BY DEF IterInd, SameIter, EndOk, AllSent, Had, Target
<1>. QED
  BY <1>1, <1>2, <1>3, <1>4, <1>5, <1>6 DEF IterInd

LEMMA StartsOk ==
  ASSUME IterInd, Starts \/ Waits \/ TimesOut \/ AsksMore
  PROVE  IterInd'
<1>. Typed /\ AskOk /\ Owing
  BY DEF IterInd
<1>1. Typed' /\ SameIter /\ UNCHANGED <<net, cursor, given, initial, closed>>
  BY DEF Typed, Starts, Waits, TimesOut, AsksMore, SameIter, Places
<1>2. user \in {"idle", "next"} /\ user' \in {"next", "waiting", "idle", "getMore"}
  BY DEF Starts, Waits, TimesOut, AsksMore
<1>3. AskOk'
  <2>1. CASE AsksMore
    <3>1. iter.err = "nil" /\ iter.docData = <<>> /\ iter.docsToReceive = 0 /\ iter.cursorId
          /\ user = "next" /\ user' = "getMore"
      BY <2>1, Fields DEF AsksMore, MustWait
    <3>2. net = <<>> /\ Len(net) = 0
      <4>1. Due(net, 0)
        BY <3>1 DEF Owing, Linked
      <4>. QED
        BY <4>1, DueAtLeast, Fields DEF Typed
    <3>3. NoFresh(net)
      BY <3>2 DEF NoFresh
    <3>. QED
      BY <1>1, <3>1, <3>2, <3>3 DEF AskOk, SameIter
  <2>2. CASE ~ AsksMore
    <3>1. user' \in {"next", "waiting", "idle"} /\ (user' # "idle" => closed = "no")
      BY <2>2 DEF Starts, Waits, TimesOut, AskOk
    <3>. QED
      BY <1>1, <3>1 DEF AskOk, SameIter, Asks
  <2>. QED
    BY <2>1, <2>2
<1>. QED
  BY <1>1, <1>2, <1>3, Moves

LEMMA ExhaustedOk ==
  ASSUME IterInd, Exhausted
  PROVE  IterInd'
<1>. Typed /\ AskOk /\ Owing /\ HardOk /\ CursorOk /\ OrderOk /\ LimitOk /\ EndOk /\ OneFresh(net)
  BY DEF IterInd
<1>1. CASE iter.err # "nil"
  <2>1. Typed' /\ SameIter /\ UNCHANGED <<net, cursor, given, initial, closed>>
    BY <1>1 DEF Typed, Exhausted, SameIter, Places
  <2>2. user = "next" /\ user' = "idle"
    BY DEF Exhausted
  <2>3. AskOk'
    BY <2>1, <2>2 DEF AskOk, SameIter, Asks
  <2>. QED
    BY <2>1, <2>2, <2>3, Moves
<1>2. CASE iter.err = "nil"
  <2>1. /\ iter' = [iter EXCEPT !.err = "ErrNotFound"] /\ user = "next" /\ user' = "idle"
        /\ UNCHANGED <<net, cursor, given, initial, closed>> /\ closed = "no"
    BY <1>2 DEF Exhausted, AskOk
  <2>2. iter.docData = <<>> /\ ~ iter.cursorId /\ iter.docsToReceive = 0
    BY <1>2, Fields DEF Exhausted, MustWait
  <2>3. net = <<>> /\ Len(net) = 0
    <3>1. Due(net, 0)
      BY <1>2, <2>2 DEF Owing, Linked
    <3>. QED
      BY <3>1, DueAtLeast, Fields DEF Typed
  <2>4. NoFresh(net) /\ Coming(net) = 0
    BY <2>3 DEF NoFresh, Coming, Unread
  <2>5. Typed'
    BY <2>1 DEF Typed, Places, Errors
  <2>6. /\ iter'.docData = iter.docData /\ iter'.docsToReceive = iter.docsToReceive
        /\ iter'.docsBeforeMore = iter.docsBeforeMore /\ iter'.cursorId = iter.cursorId
        /\ iter'.opLimit = iter.opLimit /\ iter'.limit = iter.limit /\ iter'.err = "ErrNotFound"
    BY <2>1 DEF Typed
  <2>7. OneFresh(net)' /\ Owing'
    BY <1>2, <2>1, <2>6 DEF Owing, Linked
  <2>8. AskOk'
    BY <2>1, <2>4, <2>6 DEF AskOk, Asks
  <2>9. HardOk'
    BY <1>2, <2>1, <2>6 DEF HardOk
  <2>10. CursorOk'
    BY <1>2, <2>1, <2>4, <2>6 DEF CursorOk
  <2>11. OrderOk'
    BY <1>2, <2>1, <2>6 DEF OrderOk, Linked, Had
  <2>12. LimitOk'
    BY <2>1, <2>6 DEF LimitOk, Unlimited, Bounded, Kept, SizeOk
  <2>13. EndOk'
    <3>. SUFFICES ASSUME initial.reserved, Fits(initial), ~ initial.tail
                  PROVE  Had = Target
      BY <2>1, <2>3, <2>4, <2>6 DEF EndOk, AllSent, Had, Target
    <3>1. AllSent
      BY <1>2, <2>1, <2>2, <2>4 DEF EndOk
    <3>2. cursor.next = Had + 1
      BY <1>2, <2>4, Fields DEF OrderOk, Linked, Had
    <3>3. Len(given) \in Nat /\ Len(iter.docData) = 0 /\ Had = Len(given) /\ iter.limit \in Nat
          /\ cursor.next <= Total + 1
      BY <2>2, Fields DEF Had
    <3>4. initial.limit \in Nat /\ Total \in Nat
      BY IterAssumption DEF Typed
    <3>5. initial.limit > 0 => Len(given) <= initial.limit
      BY <3>3, <3>4 DEF LimitOk, Bounded
    <3>. QED
      BY <3>1, <3>2, <3>3, <3>4, <3>5 DEF AllSent, Target, Lesser
  <2>. QED
    BY <2>1, <2>5, <2>7, <2>8, <2>9, <2>10, <2>11, <2>12, <2>13 DEF IterInd
<1>. QED
  BY <1>1, <1>2

LEMMA SpoilsOk ==
  ASSUME IterInd, Spoils
  PROVE  IterInd'
<1>. Typed /\ AskOk /\ Owing /\ HardOk /\ CursorOk /\ OrderOk /\ LimitOk /\ EndOk /\ OneFresh(net)
  BY DEF IterInd
<1>1. /\ iter' = [iter EXCEPT !.err = "bad document"] /\ user = "idle" /\ closed = "no"
      /\ iter.err = "nil" /\ UNCHANGED <<user, net, cursor, given, initial, closed>>
  BY DEF Spoils
<1>2. Typed'
  BY <1>1 DEF Typed, Errors
<1>3. /\ iter'.docData = iter.docData /\ iter'.docsToReceive = iter.docsToReceive
      /\ iter'.docsBeforeMore = iter.docsBeforeMore /\ iter'.cursorId = iter.cursorId
      /\ iter'.opLimit = iter.opLimit /\ iter'.limit = iter.limit /\ iter'.err = "bad document"
  BY <1>1 DEF Typed
<1>4. OneFresh(net)' /\ Owing'
  BY <1>1, <1>3 DEF Owing, Linked
<1>5. AskOk'
  BY <1>1, <1>3 DEF AskOk, Asks
<1>6. HardOk'
  BY <1>1, <1>3 DEF HardOk
<1>7. CursorOk'
  BY <1>1, <1>3 DEF CursorOk
<1>8. OrderOk'
  BY <1>1, <1>3 DEF OrderOk, Linked, Had
<1>9. LimitOk'
  BY <1>1, <1>3 DEF LimitOk, Unlimited, Bounded, Kept, SizeOk
<1>10. EndOk'
  BY <1>1, <1>3 DEF EndOk, AllSent, Had, Target
<1>. QED
  BY <1>2, <1>4, <1>5, <1>6, <1>7, <1>8, <1>9, <1>10 DEF IterInd

LEMMA CloseOk ==
  ASSUME IterInd, CloseIter
  PROVE  IterInd'
<1>. Typed /\ AskOk /\ Owing /\ HardOk /\ CursorOk /\ OrderOk /\ LimitOk /\ EndOk /\ OneFresh(net)
  BY DEF IterInd
<1>1. user = "idle" /\ closed = "no" /\ UNCHANGED <<user, net, given, initial>>
  BY DEF CloseIter
<1>2. /\ iter'.docData = iter.docData /\ iter'.docsToReceive = iter.docsToReceive
      /\ iter'.docsBeforeMore = iter.docsBeforeMore /\ ~ iter'.cursorId
      /\ iter'.opLimit = iter.opLimit /\ iter'.limit = iter.limit
      /\ iter'.err \in {iter.err, "unavailable"} /\ iter'.timedout = iter.timedout
  BY Fields DEF CloseIter, Killed, Typed
<1>3. /\ cursor'.next = cursor.next /\ (cursor'.open => cursor.open)
      /\ cursor' \in [next : 1 .. Total + 1, open : BOOLEAN]
      /\ closed' \in {"clean", "early", "failed"}
      /\ (closed' = "clean" => net = <<>> /\ iter'.err = iter.err
                               /\ (cursor'.open => ~ iter.cursorId))
  BY <1>2, Fields DEF CloseIter, Killed, Typed
<1>4. Typed'
  <2>1. iter' \in [docData : Seq(1 .. Total), docsToReceive : Nat, docsBeforeMore : Int,
                   cursorId : BOOLEAN, opLimit : Int, limit : Nat, err : Errors,
                   timedout : BOOLEAN]
    BY DEF CloseIter, Killed, Typed, Errors
  <2>. QED
    BY <1>1, <1>3, <2>1 DEF Typed
<1>5. OneFresh(net)' /\ Owing'
  BY <1>1, <1>2 DEF Owing, Linked
<1>6. AskOk'
  BY <1>1, <1>2 DEF AskOk, Asks
<1>7. HardOk'
  BY <1>1, <1>2 DEF HardOk
<1>8. CursorOk'
  <2>1. closed' = "clean" /\ cursor'.open => iter.err \in {"dead", "unavailable"}
    <3>. SUFFICES ASSUME closed' = "clean", cursor'.open PROVE iter.err \in {"dead", "unavailable"}
      OBVIOUS
    <3>1. net = <<>> /\ ~ iter.cursorId /\ cursor.open
      BY <1>3
    <3>2. NoFresh(net)
      BY <3>1, Fields DEF NoFresh
    <3>. QED
      BY <1>1, <3>1, <3>2 DEF CursorOk
  <2>. QED
    BY <1>1, <1>2, <1>3, <2>1 DEF CursorOk
<1>9. OrderOk'
  BY <1>1, <1>2, <1>3 DEF OrderOk, Linked, Had
<1>10. LimitOk'
  BY <1>1, <1>2 DEF LimitOk, Unlimited, Bounded, Kept, SizeOk
<1>11. EndOk'
  BY <1>1, <1>2, <1>3 DEF EndOk, AllSent, Had, Target
<1>. QED
  BY <1>4, <1>5, <1>6, <1>7, <1>8, <1>9, <1>10, <1>11 DEF IterInd

----------------------------------------------------------------------------
(* Asking for more                                                         *)

LEMMA QueryType ==
  ASSUME Typed
  PROVE  /\ initial.limit \in Nat /\ initial.opLimit \in Int /\ initial.opLimit # 1
         /\ initial.prefetch \in Int /\ Total \in Nat /\ MaxBatch \in Nat \ {0}
BY IterAssumption DEF Typed

LEMMA LengthType ==
  ASSUME NEW r \in Reply
  PROVE  Len(r.docs) \in Nat
BY LenProperties DEF Reply

LEMMA UnreadType ==
  ASSUME NEW s \in Seq(Reply), NEW i
  PROVE  Unread(s, i) \in Nat /\ (i \in 1 .. Len(s) => Unread(s, i) = Len(s[i].docs))
BY ReplyType DEF Unread

LEMMA ComingType ==
  ASSUME NEW s \in Seq(Reply)
  PROVE  /\ Coming(s) \in Nat
         /\ Len(s) <= 2 => \A i \in 1 .. Len(s) : Len(s[i].docs) <= Coming(s)
<1>. PICK a \in Nat, b \in Nat : a = Unread(s, 1) /\ b = Unread(s, 2)
  BY UnreadType
<1>1. Coming(s) = a + b
  BY DEF Coming
<1>2. Coming(s) \in Nat /\ a <= Coming(s) /\ b <= Coming(s)
  BY <1>1
<1>3. ASSUME Len(s) <= 2, NEW i \in 1 .. Len(s) PROVE Len(s[i].docs) \in {a, b}
  <2>1. Len(s) \in Nat
    BY LenProperties
  <2>2. i = 1 \/ i = 2
    BY <1>3, <2>1
  <2>. QED
    BY <1>3, <2>2, UnreadType
<1>. QED
  BY <1>2, <1>3

\* The one that is not whole owes the documents that still come.
LEMMA DueComing ==
  ASSUME NEW s \in Seq(Reply), NEW v, Due(s, v), NoFresh(s), Len(s) <= 1
  PROVE  v = Coming(s)
<1>. PICK n \in Nat : n = Len(s)
  BY LenProperties
<1>0. Len(s) = 0 => v = 0
  BY DueAtLeast
<1>1. CASE n = 0
  <2>2. Unread(s, 1) = 0 /\ Unread(s, 2) = 0
    BY <1>1 DEF Unread
  <2>3. Coming(s) = 0
    BY <2>2 DEF Coming
  <2>4. v = 0
    BY <1>0, <1>1
  <2>. QED
    BY <2>3, <2>4
<1>2. CASE n = 1
  <2>1. PICK f \in [Nat -> Nat] : Sums(f, Owings(s), 1) /\ v = f[1]
    BY <1>2 DEF Due, SumIs
  <2>2. f[0] = 0 /\ f[1] = f[0] + Owings(s)[1]
    <3>1. f[0] = 0 /\ \A k \in 0 .. 1 - 1 : f[k + 1] = f[k] + Owings(s)[k + 1]
      BY <2>1 DEF Sums
    <3>2. 0 \in 0 .. 1 - 1 /\ 0 + 1 = 1
      OBVIOUS
    <3>. QED
      BY <3>1, <3>2
  <2>0. 1 \in 1 .. Len(s) /\ 2 \notin 1 .. Len(s)
    BY <1>2
  <2>3. Owings(s)[1] = Owed(s[1]) /\ s[1] \in Reply /\ ~ Fresh(s[1])
    BY <2>0, OwingsType, ReplyType DEF NoFresh
  <2>4. Owed(s[1]) = Len(s[1].docs) /\ Owed(s[1]) \in Nat
    BY <2>3, OwedType
  <2>5. v = Owed(s[1])
    BY <2>1, <2>2, <2>3, <2>4
  <2>6. Unread(s, 1) = Owed(s[1]) /\ Unread(s, 2) = 0
    BY <2>0, <2>4 DEF Unread
  <2>7. Coming(s) = Owed(s[1])
    <3>1. Coming(s) = Owed(s[1]) + 0
      BY <2>6 DEF Coming
    <3>2. ASSUME NEW x \in Nat PROVE x + 0 = x
      OBVIOUS
    <3>. QED
      BY <2>4, <3>1, <3>2
  <2>. QED
    BY <2>5, <2>7
<1>3. n = 0 \/ n = 1
  OBVIOUS
<1>. QED
  BY <1>1, <1>2, <1>3

LEMMA ComingAdded ==
  ASSUME NEW s \in Seq(Reply), NEW t \in Seq(Reply), NEW r \in Reply, Len(s) <= 1,
         Added(s, t, r)
  PROVE  Coming(t) = Coming(s) + Len(r.docs)
<1>. PICK n \in Nat : n = Len(s)
  BY LenProperties
<1>1. Len(t) = n + 1 /\ t[n + 1] = r /\ \A j \in 1 .. n : t[j] = s[j]
  BY DEF Added
<1>2. Unread(t, n + 1) = Len(r.docs) /\ Unread(s, n + 1) = 0
  BY <1>1 DEF Unread
<1>3. \A j \in {1, 2} : j # n + 1 => Unread(t, j) = Unread(s, j)
  BY <1>1 DEF Unread
<1>4. n + 1 = 1 \/ n + 1 = 2
  OBVIOUS
<1>5. Unread(s, 1) \in Nat /\ Unread(s, 2) \in Nat /\ Len(r.docs) \in Nat
  BY UnreadType, LengthType
<1>6. \/ /\ Unread(t, 1) = Len(r.docs) /\ Unread(s, 1) = 0 /\ Unread(t, 2) = Unread(s, 2)
      \/ /\ Unread(t, 2) = Len(r.docs) /\ Unread(s, 2) = 0 /\ Unread(t, 1) = Unread(s, 1)
  BY <1>2, <1>3, <1>4
<1>. HIDE DEF Unread
<1>. QED
  BY <1>5, <1>6 DEF Coming

LEMMA OnePart ==
  ASSUME NEW a \in Nat, NEW b \in Nat, NEW c \in Nat
  PROVE  (c + b = a + b - a + c) /\ (b + c = b + a - a + c) /\ a + 0 = a
OBVIOUS

LEMMA ComingChanged ==
  ASSUME NEW s \in Seq(Reply), NEW t \in Seq(Reply), NEW r \in Reply, Len(s) <= 2,
         NEW i \in 1 .. Len(s), Changed(s, t, i, r)
  PROVE  Coming(t) = Coming(s) - Len(s[i].docs) + Len(r.docs)
<1>. PICK n \in Nat : n = Len(s)
  BY LenProperties
<1>1. Len(t) = n /\ t[i] = r /\ \A j \in 1 .. n : j # i => t[j] = s[j]
  BY DEF Changed
<1>2. Unread(t, i) = Len(r.docs) /\ Unread(s, i) = Len(s[i].docs)
  BY <1>1 DEF Unread
<1>3. \A j \in {1, 2} : j # i => Unread(t, j) = Unread(s, j)
  BY <1>1 DEF Unread
<1>4. i = 1 \/ i = 2
  OBVIOUS
<1>5. Unread(s, 1) \in Nat /\ Unread(s, 2) \in Nat /\ Len(r.docs) \in Nat
  BY UnreadType, LengthType
<1>6. \/ /\ Unread(t, 1) = Len(r.docs) /\ Unread(s, 1) = Len(s[i].docs)
         /\ Unread(t, 2) = Unread(s, 2)
      \/ /\ Unread(t, 2) = Len(r.docs) /\ Unread(s, 2) = Len(s[i].docs)
         /\ Unread(t, 1) = Unread(s, 1)
  BY <1>2, <1>3, <1>4
<1>7. CASE Unread(t, 1) = Len(r.docs) /\ Unread(s, 1) = Len(s[i].docs)
           /\ Unread(t, 2) = Unread(s, 2)
  <2>1. Coming(t) = Len(r.docs) + Unread(s, 2) /\ Coming(s) = Len(s[i].docs) + Unread(s, 2)
    BY <1>7 DEF Coming
  <2>. QED
    BY <1>5, <1>7, <2>1, OnePart
<1>8. CASE Unread(t, 2) = Len(r.docs) /\ Unread(s, 2) = Len(s[i].docs)
           /\ Unread(t, 1) = Unread(s, 1)
  <2>1. Coming(t) = Unread(s, 1) + Len(r.docs) /\ Coming(s) = Unread(s, 1) + Len(s[i].docs)
    BY <1>8 DEF Coming
  <2>. QED
    BY <1>5, <1>8, <2>1, OnePart
<1>. QED
  BY <1>6, <1>7, <1>8

LEMMA ComingRemoved ==
  ASSUME NEW s \in Seq(Reply), NEW t \in Seq(Reply), Len(s) <= 2, 1 \in 1 .. Len(s),
         Removed(s, t, 1)
  PROVE  Coming(t) = Coming(s) - Len(s[1].docs)
<1>. PICK n \in Nat : n = Len(s)
  BY LenProperties
<1>1. Len(t) = n - 1 /\ \A j \in 1 .. n - 1 : t[j] = s[j + 1]
  BY DEF Removed
<1>2. Unread(s, 1) = Len(s[1].docs)
  BY DEF Unread
<1>3. Unread(t, 1) = Unread(s, 2) /\ Unread(t, 2) = 0
  BY <1>1 DEF Unread
<1>4. Unread(s, 1) \in Nat /\ Unread(s, 2) \in Nat
  BY UnreadType
<1>. QED
  BY <1>2, <1>3, <1>4 DEF Coming

LEMMA OneComing ==
  ASSUME NEW s \in Seq(Reply), Len(s) <= 2, Len(s) = 2 => Fresh(s[2]), NoFresh(s)
  PROVE  Len(s) <= 1
<1>. PICK n \in Nat : n = Len(s)
  BY LenProperties
<1>1. n # 2
  <2>1. n = 2 => 2 \in 1 .. n
    OBVIOUS
  <2>. QED
    BY <2>1 DEF NoFresh
<1>2. n <= 2
  OBVIOUS
<1>3. n <= 1
  BY <1>1, <1>2
<1>. QED
  BY <1>3

LEMMA AcquiresSocketOk ==
  ASSUME IterInd, AcquiresSocket
  PROVE  IterInd'
<1>. Typed /\ AskOk /\ Owing /\ HardOk /\ CursorOk /\ OrderOk /\ LimitOk /\ EndOk /\ OneFresh(net)
  BY DEF IterInd
<1>. DEFINE left == iter.limit - iter.docsToReceive - Len(iter.docData)
<1>1. /\ user \in {"getMore", "moreInPop"} /\ closed = "no"
      /\ UNCHANGED <<net, cursor, given, initial, closed>>
      /\ iter.err = "nil" /\ iter.cursorId /\ NoFresh(net)
  BY DEF AcquiresSocket, AskOk, Asks
<1>2. left \in Int
  BY Fields
<1>3. \/ /\ user' = IF user = "getMore" THEN "query" ELSE "queryInPop"
         /\ iter' = [iter EXCEPT !.opLimit =
                       IF iter.limit > 0 /\ left < iter.opLimit THEN left ELSE iter.opLimit]
      \/ iter' = [iter EXCEPT !.err = "unavailable"] /\ user' = After
  BY DEF AcquiresSocket, Typed
<1>. HIDE DEF left
<1>4. /\ iter'.docData = iter.docData /\ iter'.docsToReceive = iter.docsToReceive
      /\ iter'.docsBeforeMore = iter.docsBeforeMore /\ iter'.cursorId = iter.cursorId
      /\ iter'.limit = iter.limit /\ iter'.timedout = iter.timedout
  BY <1>3 DEF Typed
<1>5. \/ /\ user' = (IF user = "getMore" THEN "query" ELSE "queryInPop") /\ iter'.err = "nil"
         /\ iter'.opLimit = IF iter.limit > 0 /\ left < iter.opLimit THEN left ELSE iter.opLimit
      \/ /\ user' \in {"next", "idle"} /\ iter'.err = "unavailable"
         /\ iter'.opLimit = iter.opLimit
  BY <1>1, <1>3 DEF Typed, After
<1>6. \A i \in 1 .. Len(net) : ~ Fresh(net[i]) /\ net[i].at # "asked"
  BY <1>1, ReplyType DEF NoFresh, Typed
<1>7. Typed'
  <2>1. iter' \in [docData : Seq(1 .. Total), docsToReceive : Nat, docsBeforeMore : Int,
                   cursorId : BOOLEAN, opLimit : Int, limit : Nat, err : Errors,
                   timedout : BOOLEAN]
    BY <1>2, <1>3 DEF Typed, Errors
  <2>2. user' \in Places
    BY <1>1, <1>5 DEF Places
  <2>. QED
    BY <1>1, <2>1, <2>2 DEF Typed
<1>8. OneFresh(net)' /\ Owing'
  BY <1>1, <1>4 DEF Owing, Linked
<1>9. AskOk'
  BY <1>1, <1>4, <1>5 DEF AskOk, Asks
<1>10. HardOk'
  <2>1. ~ Hard(iter.opLimit)
    BY <1>1 DEF HardOk
  <2>. QED
    BY <1>1, <1>4, <1>5, <1>6, <2>1 DEF HardOk
<1>11. CursorOk'
  BY <1>1, <1>4, <1>6 DEF CursorOk
<1>12. OrderOk'
  BY <1>1, <1>4 DEF OrderOk, Linked, Had
<1>13. LimitOk'
  <2>. SUFFICES ASSUME Fits(initial)
                PROVE  user' # "panicked" /\ IF initial.limit = 0 THEN Unlimited' ELSE Bounded'
    BY <1>1 DEF LimitOk
  <2>1. user' # "panicked"
    BY <1>5
  <2>2. CASE initial.limit = 0
    BY <1>1, <1>4, <1>5, <2>2, Fields DEF LimitOk, Unlimited
  <2>3. CASE initial.limit # 0
    <3>1. Bounded
      BY <2>3 DEF LimitOk
    <3>2. initial.reserved
      BY <2>3 DEF Fits
    <3>3. Len(net) <= 1 /\ Kept = iter.docsToReceive + Len(iter.docData) /\ Kept \in Nat
      <4>1. Len(net) <= 2 /\ (Len(net) = 2 => Fresh(net[2])) /\ Len(net) \in Nat
        BY <3>2, Fields DEF OrderOk
      <4>2. Len(net) <= 1
        BY <1>1, <4>1, OneComing DEF Typed
      <4>3. iter.docsToReceive = Coming(net)
        BY <1>1, <4>2, DueComing DEF Typed, Owing, Linked
      <4>. QED
        BY <4>2, <4>3, Fields DEF Kept
    <3>4. left = iter.limit - Kept /\ iter.limit \in Nat /\ iter.opLimit \in Int
      BY <3>3, Fields DEF left
    <3>5. Kept < iter.limit
      <4>1. CASE user = "getMore"
        <5>1. net = <<>> /\ iter.docData = <<>>
          BY <4>1 DEF AskOk
        <5>2. Len(net) = 0 /\ Len(iter.docData) = 0
          BY <5>1, Fields
        <5>3. Kept = 0
          BY <5>2 DEF Kept, Coming, Unread
        <5>. QED
          BY <1>1, <3>1, <3>4, <5>3 DEF Bounded
      <4>2. CASE user = "moreInPop"
        BY <3>1, <4>2 DEF Bounded
      <4>. QED
        BY <1>1, <4>1, <4>2
    <3>6. iter.opLimit >= 2
      <4>1. ~ Hard(iter.opLimit)
        BY <1>1 DEF HardOk
      <4>2. iter.opLimit >= 1 \/ iter.opLimit = - initial.limit
        BY <3>1 DEF Bounded
      <4>3. initial.limit \in Nat
        BY QueryType
      <4>. QED
        BY <2>3, <3>4, <4>1, <4>2, <4>3 DEF Hard
    <3>7. Kept' = Kept
      BY <1>1, <1>4 DEF Kept
    <3>8. user' \in {"query", "queryInPop"} => iter'.opLimit >= 1 /\ SizeOk(iter.opLimit)'
      <4>. SUFFICES ASSUME user' \in {"query", "queryInPop"}
                    PROVE  iter'.opLimit >= 1 /\ SizeOk(iter.opLimit)'
        OBVIOUS
      <4>1. iter'.opLimit = IF left < iter.opLimit THEN left ELSE iter.opLimit
        BY <1>5, <3>3, <3>4, <3>5
      <4>2. /\ iter'.opLimit \in Int /\ iter'.opLimit >= 1 /\ Kept + iter'.opLimit <= iter.limit
            /\ (iter'.opLimit = 1 => Kept + 1 = iter.limit)
        BY <3>3, <3>4, <3>5, <3>6, <4>1
      <4>. QED
        BY <1>4, <3>7, <4>2 DEF SizeOk, Abs
    <3>9. iter'.opLimit >= 1
      BY <1>5, <3>3, <3>4, <3>5, <3>6
    <3>10. Bounded'
      BY <1>1, <1>4, <1>6, <3>1, <3>3, <3>5, <3>7, <3>8, <3>9 DEF Bounded
    <3>. QED
      BY <1>1, <2>1, <2>3, <3>10
  <2>. QED
    BY <2>1, <2>2, <2>3
<1>14. EndOk'
  BY <1>1, <1>4, <1>5, <1>6 DEF EndOk, AllSent, Had, Target
<1>. QED
  BY <1>7, <1>8, <1>9, <1>10, <1>11, <1>12, <1>13, <1>14 DEF IterInd

LEMMA AskedReply ==
  ASSUME NEW n \in Int
  PROVE  /\ Asked(n) \in Reply /\ Fresh(Asked(n)) /\ Asked(n).at = "asked"
         /\ Asked(n).limit = n /\ Asked(n).docs = <<>> /\ Len(Asked(n).docs) = 0
         /\ Owed(Asked(n)) = 1
<1>1. <<>> \in Seq(1 .. Total) /\ Len(<<>>) = 0
  BY EmptySeq
<1>. QED
  BY <1>1 DEF Asked, Reply, Fresh, Owed

LEMMA QueriesMoreOk ==
  ASSUME IterInd, QueriesMore
  PROVE  IterInd'
<1>. Typed /\ AskOk /\ Owing /\ HardOk /\ CursorOk /\ OrderOk /\ LimitOk /\ EndOk /\ OneFresh(net)
  BY DEF IterInd
<1>1. /\ user \in {"query", "queryInPop"} /\ closed = "no"
      /\ UNCHANGED <<cursor, given, initial, closed>>
      /\ iter.err = "nil" /\ iter.cursorId /\ NoFresh(net)
  BY DEF QueriesMore, AskOk, Asks
<1>2. CASE user' = "deadlocked" /\ UNCHANGED <<iter, net>>
  <2>1. Typed'
    BY <1>1, <1>2 DEF Typed, Places
  <2>2. OneFresh(net)' /\ Owing'
    BY <1>2 DEF Owing, Linked
  <2>3. AskOk'
    BY <1>1, <1>2 DEF AskOk, Asks
  <2>4. HardOk'
    BY <1>2 DEF HardOk
  <2>5. CursorOk'
    BY <1>1, <1>2 DEF CursorOk
  <2>6. OrderOk'
    BY <1>1, <1>2 DEF OrderOk, Linked, Had
  <2>7. LimitOk'
    BY <1>1, <1>2 DEF LimitOk, Unlimited, Bounded, Kept, SizeOk
  <2>8. EndOk'
    BY <1>1, <1>2 DEF EndOk, AllSent, Had, Target
  <2>. QED
    BY <2>1, <2>2, <2>3, <2>4, <2>5, <2>6, <2>7, <2>8 DEF IterInd
<1>3. CASE /\ iter' = [iter EXCEPT !.docsToReceive = @ + 1]
           /\ net' = Append(net, Asked(iter.opLimit))
           /\ user' = IF user = "query" THEN "waiting" ELSE "idle"
  <2>. DEFINE r == Asked(iter.opLimit)
  <2>0. iter.opLimit \in Int /\ net \in Seq(Reply) /\ iter.docsToReceive \in Nat
    BY Fields DEF Typed
  <2>1. /\ r \in Reply /\ Fresh(r) /\ r.at = "asked" /\ r.limit = iter.opLimit
        /\ Len(r.docs) = 0 /\ Owed(r) = 1
    BY <2>0, AskedReply
  <2>. HIDE DEF r
  <2>2. net' \in Seq(Reply) /\ Added(net, net', r)
    BY <1>3, <2>0, <2>1, AppendAdds DEF r
  <2>3. /\ iter'.docData = iter.docData /\ iter'.docsToReceive = iter.docsToReceive + 1
        /\ iter'.docsBeforeMore = iter.docsBeforeMore /\ iter'.cursorId = iter.cursorId
        /\ iter'.opLimit = iter.opLimit /\ iter'.limit = iter.limit /\ iter'.err = iter.err
    BY <1>3 DEF Typed
  <2>4. user' \in {"waiting", "idle"}
    BY <1>3
  <2>5. PICK n \in Nat : n = Len(net)
    BY Fields
  <2>6. /\ Len(net') = n + 1 /\ net'[n + 1] = r
        /\ \A j \in 1 .. n : net'[j] = net[j]
    BY <2>2, <2>5 DEF Added
  <2>7. OneFresh(net') /\ ~ NoFresh(net')
    BY <1>1, <2>0, <2>1, <2>2, AddedOne
  <2>8. \A j \in 1 .. n : ~ Fresh(net[j]) /\ net[j].at # "asked"
    BY <1>1, <2>0, <2>5, ReplyType DEF NoFresh
  <2>9. \A j \in 1 .. n + 1 :
          \/ j = n + 1 /\ net'[j] = r
          \/ j \in 1 .. n /\ net'[j] = net[j] /\ ~ Fresh(net'[j]) /\ net'[j].at # "asked"
    BY <2>6, <2>8
  <2>10. Typed'
    <3>1. iter' \in [docData : Seq(1 .. Total), docsToReceive : Nat, docsBeforeMore : Int,
                     cursorId : BOOLEAN, opLimit : Int, limit : Nat, err : Errors,
                     timedout : BOOLEAN]
      <4>1. iter.docsToReceive + 1 \in Nat
        BY <2>0
      <4>. QED
        BY <1>3, <4>1 DEF Typed
    <3>. QED
      BY <1>1, <2>2, <2>4, <3>1 DEF Typed, Places
  <2>11. Owing'
    <3>1. Due(net, iter.docsToReceive)
      BY <1>1 DEF Owing, Linked
    <3>2. Due(net', iter.docsToReceive + 1)
      BY <2>0, <2>1, <2>2, <3>1, DueAdded
    <3>. QED
      BY <2>3, <3>2 DEF Owing
  <2>12. AskOk'
    <3>1. iter.docsBeforeMore < 0 \/ (iter.docData = <<>> /\ Len(net') = 1)
      <4>1. CASE user = "query"
        BY <2>5, <2>6, <4>1, Fields DEF AskOk
      <4>2. CASE user = "queryInPop"
        BY <4>2 DEF AskOk
      <4>. QED
        BY <1>1, <4>1, <4>2
    <3>. QED
      BY <1>1, <2>3, <2>4, <3>1 DEF AskOk, Asks
  <2>13. HardOk'
    <3>1. \A j \in 1 .. n + 1 : net'[j].at = "asked" => net'[j].limit = iter.opLimit
      BY <2>1, <2>9
    <3>2. \A j \in 1 .. n + 1 : Fresh(net'[j]) => net'[j].at = "asked"
      BY <2>1, <2>9
    <3>. QED
      BY <2>3, <2>6, <2>7, <3>1, <3>2 DEF HardOk
  <2>14. CursorOk'
    <3>1. \A j \in 1 .. n + 1 : ~ (Fresh(net'[j]) /\ net'[j].at = "reply")
      BY <2>1, <2>9
    <3>. QED
      BY <1>1, <2>3, <2>6, <2>7, <3>1 DEF CursorOk
  <2>15. initial.reserved => n <= 1 /\ Coming(net') = Coming(net) /\ Coming(net) \in Nat
    <3>. SUFFICES ASSUME initial.reserved
                  PROVE  n <= 1 /\ Coming(net') = Coming(net) /\ Coming(net) \in Nat
      OBVIOUS
    <3>1. n <= 2 /\ (n = 2 => Fresh(net[2]))
      BY <2>5 DEF OrderOk
    <3>2. n <= 1
      BY <1>1, <2>0, <2>5, <3>1, OneComing
    <3>3. Coming(net) \in Nat
      BY <2>0, <2>5, <3>1, ComingType
    <3>4. Coming(net') = Coming(net) + Len(r.docs)
      BY <2>0, <2>1, <2>2, <2>5, <3>2, ComingAdded
    <3>. QED
      BY <2>1, <3>2, <3>3, <3>4
  <2>16. OrderOk'
    <3>. SUFFICES ASSUME initial.reserved PROVE OrderOk'
      BY <1>1 DEF OrderOk
    <3>1. n <= 1 /\ Coming(net') = Coming(net)
      BY <2>15
    <3>2. Had' = Had
      BY <1>1, <2>3 DEF Had
    <3>3. \A j \in 1 .. n + 1 : From(net'[j].docs, Had + Behind(net', j))
      <4>1. From(net'[n + 1].docs, Had + Behind(net', n + 1))
        BY <2>1, <2>6 DEF From
      <4>2. ASSUME NEW j \in 1 .. n PROVE From(net'[j].docs, Had + Behind(net', j))
        <5>1. j = 1 /\ Behind(net', j) = Behind(net, j)
          BY <3>1 DEF Behind
        <5>2. From(net[j].docs, Had + Behind(net, j))
          BY <2>5 DEF OrderOk
        <5>. QED
          BY <2>6, <5>1, <5>2
      <4>3. \A j \in 1 .. n + 1 : j = n + 1 \/ j \in 1 .. n
        OBVIOUS
      <4>. QED
        BY <4>1, <4>2, <4>3
    <3>4. n + 1 <= 2 /\ (n + 1 = 2 => Fresh(net'[2]))
      BY <2>1, <2>6, <3>1
    <3>5. cursor.next = Had + Coming(net) + 1
      BY <1>1 DEF OrderOk, Linked
    <3>. QED
      BY <1>1, <2>3, <2>6, <3>1, <3>2, <3>3, <3>4, <3>5 DEF OrderOk
  <2>17. LimitOk'
    <3>. SUFFICES ASSUME Fits(initial)
                  PROVE  user' # "panicked" /\ IF initial.limit = 0 THEN Unlimited' ELSE Bounded'
      BY <1>1 DEF LimitOk
    <3>1. CASE initial.limit = 0
      BY <1>1, <2>3, <2>4, <3>1 DEF LimitOk, Unlimited
    <3>2. CASE initial.limit # 0
      <4>1. Bounded /\ initial.reserved
        BY <3>2 DEF LimitOk, Fits
      <4>2. Kept' = Kept
        BY <2>3, <2>15, <4>1 DEF Kept
      <4>3. iter.opLimit >= 1 /\ SizeOk(iter.opLimit)
        BY <1>1, <4>1 DEF Bounded
      <4>4. \A j \in 1 .. n + 1 : net'[j].at = "asked" => net'[j].limit = iter.opLimit
        BY <2>1, <2>9
      <4>5. \A j \in 1 .. n + 1 : net'[j].at = "asked" =>
              /\ net'[j].limit # 0 /\ Kept' + Abs(net'[j].limit) <= iter'.limit
              /\ (net'[j].limit = 1 => Kept' + 1 = iter'.limit)
        BY <2>3, <4>2, <4>3, <4>4 DEF SizeOk
      <4>6. Bounded'
        BY <1>1, <2>3, <2>4, <2>6, <2>7, <4>1, <4>2, <4>3, <4>5 DEF Bounded, SizeOk
      <4>. QED
        BY <1>1, <2>4, <3>2, <4>6
    <3>. QED
      BY <3>1, <3>2
  <2>18. EndOk'
    <3>1. \A j \in 1 .. n + 1 : ~ (Fresh(net'[j]) /\ net'[j].at = "reply")
      BY <2>1, <2>9
    <3>. QED
      BY <1>1, <2>3, <2>6, <2>7, <3>1 DEF EndOk
  <2>. QED
    BY <2>7, <2>10, <2>11, <2>12, <2>13, <2>14, <2>16, <2>17, <2>18 DEF IterInd
<1>. QED
  BY <1>2, <1>3 DEF QueriesMore

----------------------------------------------------------------------------
(* Taking a document                                                       *)

LEMMA OneOver ==
  ASSUME NEW a \in Nat, NEW b \in Nat
  PROVE  (a + 1) + (b - 1) = a + b /\ (b - 1) + (a + 1) = b + a
OBVIOUS

LEMMA Pops ==
  ASSUME Typed, iter.docData # <<>>, given' = Append(given, Head(iter.docData)),
         iter'.docData = Tail(iter.docData)
  PROVE  /\ iter'.docData \in Seq(1 .. Total) /\ given' \in Seq(1 .. Total)
         /\ Len(iter'.docData) = Len(iter.docData) - 1 /\ Len(given') = Len(given) + 1
         /\ Len(iter.docData) >= 1 /\ Had' = Had
         /\ From(given, 0) /\ From(iter.docData, Len(given)) =>
              From(given', 0) /\ From(iter'.docData, Len(given'))
<1>1. iter.docData \in Seq(1 .. Total) /\ given \in Seq(1 .. Total)
  BY DEF Typed
<1>. PICK d \in Nat, g \in Nat : d = Len(iter.docData) /\ g = Len(given)
  BY <1>1, LenProperties
<1>2. d >= 1
  BY <1>1, EmptySeq
<1>3. /\ Tail(iter.docData) \in Seq(1 .. Total) /\ Len(Tail(iter.docData)) = d - 1
      /\ \A i \in 1 .. d - 1 : Tail(iter.docData)[i] = iter.docData[i + 1]
      /\ Head(iter.docData) = iter.docData[1] /\ Head(iter.docData) \in 1 .. Total
  <2>1. /\ Head(iter.docData) \in 1 .. Total /\ Tail(iter.docData) \in Seq(1 .. Total)
        /\ Len(Tail(iter.docData)) = Len(iter.docData) - 1
        /\ \A i \in 1 .. Len(Tail(iter.docData)) : Tail(iter.docData)[i] = iter.docData[i + 1]
    BY <1>1, HeadTailProperties
  <2>2. Head(iter.docData) = iter.docData[1]
    BY <1>1
  <2>. QED
    BY <2>1, <2>2
<1>4. /\ given' \in Seq(1 .. Total) /\ Len(given') = g + 1 /\ given'[g + 1] = Head(iter.docData)
      /\ \A i \in 1 .. g : given'[i] = given[i]
  BY <1>1, <1>3, AppendProperties
<1>5. Had' = Had
  <2>1. Len(given') = g + 1 /\ Len(iter'.docData) = d - 1
    BY <1>3, <1>4
  <2>2. (g + 1) + (d - 1) = g + d
    BY OneOver
  <2>. QED
    BY <2>1, <2>2 DEF Had
<1>6. ASSUME From(given, 0), From(iter.docData, Len(given))
      PROVE  From(given', 0) /\ From(iter'.docData, Len(given'))
  <2>1. iter.docData[1] = g + 1 /\ \A i \in 1 .. d - 1 : iter.docData[i + 1] = g + (i + 1)
    BY <1>2, <1>6 DEF From
  <2>2. \A i \in 1 .. g : given[i] = i
    BY <1>6 DEF From
  <2>3. \A i \in 1 .. g + 1 : given'[i] = 0 + i
    <3>1. \A i \in 1 .. g + 1 : i \in 1 .. g \/ i = g + 1
      OBVIOUS
    <3>. QED
      BY <1>3, <1>4, <2>1, <2>2, <3>1
  <2>4. \A i \in 1 .. d - 1 : Tail(iter.docData)[i] = (g + 1) + i
    BY <1>3, <2>1
  <2>. QED
    BY <1>3, <1>4, <2>3, <2>4 DEF From
<1>. QED
  BY <1>2, <1>3, <1>4, <1>5, <1>6

LEMMA TakesOk ==
  ASSUME IterInd, Takes
  PROVE  IterInd'
<1>. Typed /\ AskOk /\ Owing /\ HardOk /\ CursorOk /\ OrderOk /\ LimitOk /\ EndOk /\ OneFresh(net)
  BY DEF IterInd
<1>1. /\ user = "next" /\ closed = "no" /\ iter.docData # <<>> /\ iter.limit # 1
      /\ given' = Append(given, Head(iter.docData))
      /\ UNCHANGED <<net, cursor, initial, closed>>
      /\ user' = IF Prefetches THEN "moreInPop" ELSE "idle"
  BY DEF Takes, UsedUp, AskOk
<1>2. /\ iter'.docData = Tail(iter.docData) /\ iter'.docsToReceive = iter.docsToReceive
      /\ iter'.docsBeforeMore =
           IF Counts THEN iter.docsBeforeMore - 1 ELSE iter.docsBeforeMore
      /\ iter'.cursorId = iter.cursorId /\ iter'.opLimit = iter.opLimit
      /\ iter'.limit = (IF iter.limit > 0 THEN iter.limit - 1 ELSE iter.limit)
      /\ iter'.err = iter.err /\ iter'.timedout = iter.timedout
  BY DEF Takes, Popped, Typed
<1>3. /\ iter'.docData \in Seq(1 .. Total) /\ given' \in Seq(1 .. Total)
      /\ Len(iter'.docData) = Len(iter.docData) - 1 /\ Len(given') = Len(given) + 1
      /\ Len(iter.docData) >= 1 /\ Had' = Had
      /\ From(given, 0) /\ From(iter.docData, Len(given)) =>
           From(given', 0) /\ From(iter'.docData, Len(given'))
  BY <1>1, <1>2, Pops
<1>4. /\ iter.docsBeforeMore \in Int /\ iter.limit \in Nat
      /\ Len(iter.docData) \in Nat /\ Len(given) \in Nat
  BY Fields
<1>5. ~ NoFresh(net) => iter.docsBeforeMore < 0
  BY <1>1 DEF AskOk
<1>6. Prefetches => iter.cursorId /\ iter.err = "nil" /\ iter.docsBeforeMore = 0 /\ NoFresh(net)
  BY <1>5 DEF Prefetches
<1>7. Counts <=> iter.cursorId /\ iter.err = "nil"
  BY DEF Counts
<1>8. Typed'
  <2>1. iter' \in [docData : Seq(1 .. Total), docsToReceive : Nat, docsBeforeMore : Int,
                   cursorId : BOOLEAN, opLimit : Int, limit : Nat, err : Errors,
                   timedout : BOOLEAN]
    <3>1. Tail(iter.docData) \in Seq(1 .. Total) /\ iter.docsBeforeMore - 1 \in Int
          /\ (IF iter.limit > 0 THEN iter.limit - 1 ELSE iter.limit) \in Nat
      BY <1>2, <1>3, <1>4
    <3>. QED
      BY <3>1 DEF Takes, Popped, Typed
  <2>. QED
    BY <1>1, <1>3, <2>1 DEF Typed, Places
<1>9. OneFresh(net)' /\ Owing'
  BY <1>1, <1>2 DEF Owing, Linked
<1>10. AskOk'
  <2>1. iter'.docsBeforeMore <= iter.docsBeforeMore /\ iter'.docsBeforeMore \in Int
    BY <1>2, <1>4
  <2>2. Prefetches => iter'.docsBeforeMore < 0
    BY <1>2, <1>4, <1>6, <1>7
  <2>3. ~ NoFresh(net) => iter'.docsBeforeMore < 0
    BY <1>4, <1>5, <2>1
  <2>. QED
    BY <1>1, <1>2, <1>6, <2>2, <2>3 DEF AskOk, Asks
<1>11. HardOk'
  BY <1>1, <1>2 DEF HardOk
<1>12. CursorOk'
  BY <1>1, <1>2, <1>4 DEF CursorOk
<1>13. OrderOk'
  BY <1>1, <1>2, <1>3 DEF OrderOk, Linked
<1>14. LimitOk'
  <2>. SUFFICES ASSUME Fits(initial)
                PROVE  user' # "panicked" /\ IF initial.limit = 0 THEN Unlimited' ELSE Bounded'
    BY <1>1 DEF LimitOk
  <2>1. user' # "panicked"
    BY <1>1
  <2>2. CASE initial.limit = 0
    BY <1>1, <1>2, <1>4, <2>2 DEF LimitOk, Unlimited
  <2>3. CASE initial.limit # 0
    <3>1. Bounded /\ initial.reserved
      BY <2>3 DEF LimitOk, Fits
    <3>2. PICK c \in Nat : c = Coming(net)
      BY ComingType DEF Typed
    <3>3. Kept = Len(iter.docData) + c /\ Kept' = Len(iter'.docData) + c
      BY <1>1, <3>2 DEF Kept
    <3>4. Kept \in Nat /\ Kept' = Kept - 1 /\ Kept >= 1
      BY <1>3, <1>4, <3>3
    <3>5. iter.limit >= 1 /\ iter'.limit = iter.limit - 1 /\ iter.limit > 1
      BY <1>1, <1>2, <1>4, <3>1, <3>4 DEF Bounded
    <3>6. iter'.limit + Len(given') = initial.limit
      <4>1. iter.limit + Len(given) = initial.limit
        BY <3>1 DEF Bounded
      <4>2. (iter.limit - 1) + (Len(given) + 1) = iter.limit + Len(given)
        BY <1>4, OneOver
      <4>. QED
        BY <1>3, <3>5, <4>1, <4>2
    <3>7. \A i \in 1 .. Len(net) : net[i].at = "asked" =>
            /\ net[i].limit # 0 /\ Kept' + Abs(net[i].limit) <= iter'.limit
            /\ (net[i].limit = 1 => Kept' + 1 = iter'.limit)
      <4>. SUFFICES ASSUME NEW i \in 1 .. Len(net), net[i].at = "asked"
                    PROVE  /\ net[i].limit # 0 /\ Kept' + Abs(net[i].limit) <= iter'.limit
                           /\ (net[i].limit = 1 => Kept' + 1 = iter'.limit)
        OBVIOUS
      <4>1. SizeOk(net[i].limit)
        BY <3>1 DEF Bounded
      <4>2. net[i].limit \in Int
        BY ReplyType DEF Typed
      <4>3. Abs(net[i].limit) \in Nat
        BY <4>2 DEF Abs
      <4>4. ASSUME NEW k \in Nat, NEW l \in Nat, NEW m \in Nat, k >= 1, l >= 1, k + m <= l
            PROVE  (k - 1) + m <= l - 1
        BY <4>4
      <4>5. ASSUME NEW k \in Nat, NEW l \in Nat, k >= 1, l >= 1, k + 1 = l
            PROVE  (k - 1) + 1 = l - 1
        BY <4>5
      <4>. QED
        BY <1>4, <3>4, <3>5, <4>1, <4>3, <4>4, <4>5 DEF SizeOk
    <3>8. iter.err = "nil" /\ iter.cursorId /\ NoFresh(net) /\ iter'.docsBeforeMore >= 0
            => Kept < iter.limit
      <4>1. iter'.docsBeforeMore >= 0 => iter.docsBeforeMore >= 0
        BY <1>2, <1>4
      <4>. QED
        BY <3>1, <4>1 DEF Bounded
    <3>9. Prefetches => Kept < iter.limit
      BY <1>6, <3>1 DEF Bounded
    <3>10. Kept < iter.limit => Kept' < iter'.limit
      BY <1>4, <3>4, <3>5
    <3>11. Kept <= iter.limit /\ Kept' <= iter'.limit /\ iter'.limit > 0
      BY <1>4, <3>1, <3>4, <3>5 DEF Bounded
    <3>12. iter.opLimit >= 1 \/ iter.opLimit = - initial.limit
      BY <3>1 DEF Bounded
    <3>. HIDE DEF Kept
    <3>13. Bounded'
      BY <1>1, <1>2, <3>6, <3>7, <3>8, <3>9, <3>10, <3>11, <3>12 DEF Bounded, SizeOk
    <3>. QED
      BY <1>1, <2>1, <2>3, <3>13
  <2>. QED
    BY <2>1, <2>2, <2>3
<1>15. EndOk'
  BY <1>1, <1>2, <1>3 DEF EndOk, AllSent, Target
<1>. QED
  BY <1>8, <1>9, <1>10, <1>11, <1>12, <1>13, <1>14, <1>15 DEF IterInd

LEMMA TakesLastOk ==
  ASSUME IterInd, TakesLast
  PROVE  IterInd'
<1>. Typed /\ AskOk /\ Owing /\ HardOk /\ CursorOk /\ OrderOk /\ LimitOk /\ EndOk /\ OneFresh(net)
  BY DEF IterInd
<1>1. /\ user = "next" /\ closed = "no" /\ iter.docData # <<>> /\ iter.limit = 1
      /\ given' = Append(given, Head(iter.docData))
      /\ UNCHANGED <<net, initial, closed>>
  BY DEF TakesLast, UsedUp, AskOk
<1>0. /\ Popped.docData = Tail(iter.docData) /\ Popped.docsToReceive = iter.docsToReceive
      /\ Popped.docsBeforeMore = iter.docsBeforeMore /\ Popped.cursorId = iter.cursorId
      /\ Popped.opLimit = iter.opLimit /\ Popped.limit = 0 /\ Popped.err = iter.err
      /\ Popped.timedout = iter.timedout
      /\ DOMAIN Popped = {"docData", "docsToReceive", "docsBeforeMore", "cursorId", "opLimit",
                          "limit", "err", "timedout"}
  BY <1>1 DEF Popped, Typed
<1>. HIDE DEF Popped
<1>20. \/ /\ Len(iter.docData) > 1 /\ user' = "panicked" /\ iter' = Popped /\ cursor' = cursor
       \/ /\ ~ (Len(iter.docData) > 1) /\ user' = "idle"
          /\ iter' = [[Popped EXCEPT !.err = "ErrNotFound"] EXCEPT !.cursorId = FALSE]
          /\ cursor' = [cursor EXCEPT !.open = @ /\ ~ iter.cursorId]
       \/ /\ ~ (Len(iter.docData) > 1) /\ user' = "idle" /\ iter.cursorId
          /\ iter' = [[Popped EXCEPT !.err = "unavailable"] EXCEPT !.cursorId = FALSE]
          /\ cursor' = cursor
  <2>1. CASE Len(iter.docData) > 1
    BY <2>1 DEF TakesLast
  <2>2. CASE ~ (Len(iter.docData) > 1)
    BY <2>2 DEF TakesLast, Killed
  <2>. QED
    BY <2>1, <2>2
<1>2. /\ iter'.docData = Tail(iter.docData) /\ iter'.docsToReceive = iter.docsToReceive
      /\ iter'.docsBeforeMore = iter.docsBeforeMore
      /\ iter'.opLimit = iter.opLimit /\ iter'.limit = 0 /\ iter'.timedout = iter.timedout
  BY <1>0, <1>20
<1>21. Len(iter.docData) \in Nat
  BY Fields
<1>3. \/ /\ Len(iter.docData) > 1 /\ user' = "panicked" /\ iter'.err = iter.err
         /\ iter'.cursorId = iter.cursorId /\ cursor' = cursor
      \/ /\ Len(iter.docData) <= 1 /\ user' = "idle" /\ ~ iter'.cursorId
         /\ iter'.err = "ErrNotFound" /\ cursor' = [cursor EXCEPT !.open = @ /\ ~ iter.cursorId]
      \/ /\ Len(iter.docData) <= 1 /\ user' = "idle" /\ ~ iter'.cursorId /\ iter.cursorId
         /\ iter'.err = "unavailable" /\ cursor' = cursor
  <2>1. ~ (Len(iter.docData) > 1) => Len(iter.docData) <= 1
    BY <1>21
  <2>2. /\ DOMAIN [Popped EXCEPT !.err = "ErrNotFound"] = DOMAIN Popped
        /\ DOMAIN [Popped EXCEPT !.err = "unavailable"] = DOMAIN Popped
    OBVIOUS
  <2>. QED
    BY <1>0, <1>20, <2>1, <2>2
<1>4. /\ iter'.docData \in Seq(1 .. Total) /\ given' \in Seq(1 .. Total)
      /\ Len(iter'.docData) = Len(iter.docData) - 1 /\ Len(given') = Len(given) + 1
      /\ Len(iter.docData) >= 1 /\ Had' = Had
      /\ From(given, 0) /\ From(iter.docData, Len(given)) =>
           From(given', 0) /\ From(iter'.docData, Len(given'))
  BY <1>1, <1>2, Pops
<1>5. /\ iter.docsBeforeMore \in Int /\ iter.limit \in Nat /\ iter.cursorId \in BOOLEAN
      /\ Len(iter.docData) \in Nat /\ Len(given) \in Nat
  BY Fields
<1>6. ~ NoFresh(net) => iter.docsBeforeMore < 0
  BY <1>1 DEF AskOk
<1>7. /\ cursor'.next = cursor.next /\ (cursor'.open => cursor.open)
      /\ cursor' \in [next : 1 .. Total + 1, open : BOOLEAN]
  BY <1>3 DEF Typed
<1>8. Typed'
  <2>1. iter' \in [docData : Seq(1 .. Total), docsToReceive : Nat, docsBeforeMore : Int,
                   cursorId : BOOLEAN, opLimit : Int, limit : Nat, err : Errors,
                   timedout : BOOLEAN]
    <3>1. Tail(iter.docData) \in Seq(1 .. Total)
          /\ (IF iter.limit > 0 THEN iter.limit - 1 ELSE iter.limit) \in Nat
      BY <1>2, <1>4, <1>5
    <3>2. Popped \in [docData : Seq(1 .. Total), docsToReceive : Nat, docsBeforeMore : Int,
                      cursorId : BOOLEAN, opLimit : Int, limit : Nat, err : Errors,
                      timedout : BOOLEAN]
      BY <3>1 DEF Popped, Typed
    <3>3. "ErrNotFound" \in Errors /\ "unavailable" \in Errors
      BY DEF Errors
    <3>. QED
      BY <1>20, <3>2, <3>3
  <2>. QED
    BY <1>1, <1>3, <1>4, <1>7, <2>1 DEF Typed, Places
<1>9. OneFresh(net)' /\ Owing'
  <2>1. Linked' => Linked
    BY <1>1, <1>3 DEF Linked
  <2>. QED
    BY <1>1, <1>2, <2>1 DEF Owing
<1>10. AskOk'
  BY <1>1, <1>2, <1>3, <1>6 DEF AskOk, Asks
<1>11. HardOk'
  BY <1>1, <1>2, <1>3 DEF HardOk
<1>12. CursorOk'
  <2>1. cursor.open => iter.cursorId \/ ~ NoFresh(net)
    BY <1>1 DEF CursorOk
  <2>2. \A i \in 1 .. Len(net) :
          Fresh(net[i]) /\ net[i].at = "reply" /\ cursor.open => net[i].open
    BY DEF CursorOk
  <2>3. cursor'.open =>
          iter'.cursorId \/ ~ NoFresh(net) \/ iter'.err \in {"dead", "unavailable"}
    <3>1. CASE user' = "panicked"
      BY <1>3, <2>1, <3>1
    <3>2. CASE cursor' = [cursor EXCEPT !.open = @ /\ ~ iter.cursorId]
      <4>1. cursor'.open => cursor.open /\ ~ iter.cursorId
        BY <3>2 DEF Typed
      <4>. QED
        BY <2>1, <4>1
    <3>3. CASE iter'.err = "unavailable"
      BY <3>3
    <3>. QED
      BY <1>3, <3>1, <3>2, <3>3
  <2>. QED
    BY <1>1, <1>2, <1>7, <2>2, <2>3 DEF CursorOk
<1>13. OrderOk'
  <2>1. Linked' => Linked
    BY <1>1, <1>3 DEF Linked
  <2>. QED
    BY <1>1, <1>4, <1>7, <2>1 DEF OrderOk
<1>14. ASSUME Fits(initial), initial.limit # 0
       PROVE  /\ Len(iter.docData) = 1 /\ Coming(net) = 0 /\ Len(given') = initial.limit
              /\ \A i \in 1 .. Len(net) : net[i].at # "asked"
              /\ iter.opLimit >= 1 \/ iter.opLimit = - initial.limit
  <2>1. Bounded
    BY <1>14 DEF LimitOk
  <2>2. PICK c \in Nat : c = Coming(net)
    BY ComingType DEF Typed
  <2>3. Kept = Len(iter.docData) + c /\ Kept <= 1
    BY <1>1, <2>1, <2>2 DEF Kept, Bounded
  <2>4. Len(iter.docData) = 1 /\ c = 0 /\ Kept = 1
    <3>1. ASSUME NEW d \in Nat, NEW x \in Nat, d >= 1, d + x <= 1 PROVE d = 1 /\ x = 0 /\ d + x = 1
      BY <3>1
    <3>. QED
      BY <1>4, <1>5, <2>3, <3>1
  <2>5. 1 + Len(given) = initial.limit
    BY <1>1, <2>1 DEF Bounded
  <2>6. ASSUME NEW i \in 1 .. Len(net) PROVE net[i].at # "asked"
    <3>. SUFFICES ASSUME net[i].at = "asked" PROVE FALSE
      OBVIOUS
    <3>1. SizeOk(net[i].limit)
      BY <2>1 DEF Bounded
    <3>2. net[i].limit \in Int
      BY ReplyType DEF Typed
    <3>. QED
      BY <1>1, <2>4, <3>1, <3>2 DEF SizeOk, Abs
  <2>7. iter.opLimit >= 1 \/ iter.opLimit = - initial.limit
    BY <2>1 DEF Bounded
  <2>. QED
    BY <1>4, <1>5, <2>2, <2>4, <2>5, <2>6, <2>7
<1>15. ~ (Fits(initial) /\ initial.limit = 0)
  BY <1>1 DEF LimitOk, Unlimited
<1>16. LimitOk'
  <2>. SUFFICES ASSUME Fits(initial) PROVE user' # "panicked" /\ Bounded'
    BY <1>1, <1>15 DEF LimitOk
  <2>1. /\ Len(iter.docData) = 1 /\ Coming(net) = 0 /\ Len(given') = initial.limit
        /\ \A i \in 1 .. Len(net) : net[i].at # "asked"
        /\ iter.opLimit >= 1 \/ iter.opLimit = - initial.limit
    BY <1>14, <1>15
  <2>2. user' = "idle" /\ iter'.err # "nil"
    BY <1>3, <2>1
  <2>3. Kept' = 0
    BY <1>1, <1>4, <2>1 DEF Kept
  <2>4. initial.limit \in Nat
    BY QueryType
  <2>. QED
    BY <1>1, <1>2, <2>1, <2>2, <2>3, <2>4 DEF Bounded
<1>17. EndOk'
  <2>. SUFFICES ASSUME initial.reserved, Fits(initial), ~ initial.tail PROVE EndOk'
    BY <1>1 DEF EndOk
  <2>1. /\ Len(iter.docData) = 1 /\ Coming(net) = 0 /\ Len(given') = initial.limit
        /\ \A i \in 1 .. Len(net) : net[i].at # "asked"
    BY <1>14, <1>15
  <2>2. iter'.err # "nil"
    BY <1>3, <2>1
  <2>3. Had' = Target
    <3>1. From(given', 0)
      BY <1>4 DEF OrderOk
    <3>2. Len(given') <= Total
      <4>1. Len(given') \in 1 .. Len(given')
        BY <1>4, <1>5
      <4>2. given'[Len(given')] = Len(given')
        BY <1>4, <1>5, <3>1, <4>1 DEF From
      <4>3. given'[Len(given')] \in 1 .. Total
        BY <1>4, <4>1, ElementOfSeq
      <4>. QED
        BY <4>2, <4>3
    <3>3. Had' = initial.limit
      BY <1>4, <1>5, <2>1 DEF Had
    <3>4. initial.limit \in Nat /\ Total \in Nat
      BY QueryType
    <3>. QED
      BY <1>1, <1>15, <2>1, <3>2, <3>3, <3>4 DEF Target, Lesser
  <2>4. Target' = Target /\ (AllSent => AllSent')
    BY <1>1, <1>7 DEF Target, AllSent
  <2>. QED
    BY <1>1, <2>1, <2>2, <2>3, <2>4 DEF EndOk
<1>. QED
  BY <1>8, <1>9, <1>10, <1>11, <1>12, <1>13, <1>16, <1>17 DEF IterInd

----------------------------------------------------------------------------
(* The server and the connection                                           *)

LEMMA SizesFit ==
  ASSUME Typed, NEW m \in Int, NEW n \in Sizes(m)
  PROVE  /\ n \in Nat /\ Remaining \in Nat /\ n <= Remaining
         /\ m # 0 => n <= Abs(m) /\ (n = Abs(m) \/ n = Remaining)
<1>. PICK rest \in Nat : rest = Remaining
  <2>1. cursor.next \in 1 .. Total + 1 /\ Total \in Nat
    BY Fields, QueryType
  <2>2. Remaining \in Nat
    BY <2>1 DEF Remaining
  <2>. QED
    BY <2>2
<1>1. MaxBatch \in Nat
  BY QueryType
<1>2. CASE m = 0
  BY <1>1, <1>2 DEF Sizes, Lesser
<1>3. CASE m # 0
  BY <1>3 DEF Sizes, Lesser, Abs
<1>. QED
  BY <1>2, <1>3

LEMMA SentType ==
  ASSUME NEW c \in Nat, NEW n \in Nat, NEW t \in Nat, c >= 1, c + n <= t + 1
  PROVE  [d \in 1..n |-> c + d - 1] \in Seq(1 .. t) /\ Len([d \in 1..n |-> c + d - 1]) = n
<1>1. \A d \in 1 .. n : c + d - 1 \in 1 .. t
  OBVIOUS
<1>. QED
  BY <1>1

\* A reply that comes whole, in the place of the query.
LEMMA OneAsked ==
  ASSUME Typed, OneFresh(net), AskOk, NEW i \in 1 .. Len(net), Fresh(net[i])
  PROVE  /\ user \notin Asks /\ ~ NoFresh(net) /\ net # <<>>
         /\ OrderOk /\ initial.reserved => Len(net) = i /\ (i = 1 \/ i = 2)
<1>1. user \notin Asks /\ ~ NoFresh(net)
  BY DEF AskOk, NoFresh
<1>2. net # <<>>
  BY Fields
<1>3. ASSUME OrderOk, initial.reserved PROVE Len(net) = i /\ (i = 1 \/ i = 2)
  <2>. PICK n \in Nat : n = Len(net)
    BY Fields
  <2>1. n <= 2 /\ (n = 2 => Fresh(net[2]))
    BY <1>3 DEF OrderOk
  <2>2. n = 2 => 2 \in 1 .. n
    OBVIOUS
  <2>3. n = 2 => i = 2
    BY <2>1, <2>2 DEF OneFresh
  <2>. QED
    BY <2>1, <2>3
<1>. QED
  BY <1>1, <1>2, <1>3

LEMMA ServerRepliesOk ==
  ASSUME IterInd, ServerReplies
  PROVE  IterInd'
<1>. Typed /\ AskOk /\ Owing /\ HardOk /\ CursorOk /\ OrderOk /\ LimitOk /\ EndOk /\ OneFresh(net)
  BY DEF IterInd
<1>0. net \in Seq(Reply) /\ DOMAIN net = 1 .. Len(net)
  BY LenProperties DEF Typed
<1>30. PICK i \in 1 .. Len(net) :
       /\ net[i].at = "asked"
       /\ \E n \in Sizes(net[i].limit) : \E open \in StaysOpen(net[i].limit, n) :
            /\ net' = [net EXCEPT ![i] =
                         [at |-> "reply", limit |-> 0, n |-> n, open |-> open,
                          docs |-> [d \in 1..n |-> cursor.next + d - 1]]]
            /\ cursor' = [next |-> cursor.next + n, open |-> open]
       /\ UNCHANGED <<iter, user, given, initial, closed>>
  BY <1>0 DEF ServerReplies
<1>31. PICK n \in Sizes(net[i].limit) : \E open \in StaysOpen(net[i].limit, n) :
       /\ net' = [net EXCEPT ![i] = [at |-> "reply", limit |-> 0, n |-> n, open |-> open,
                                     docs |-> [d \in 1..n |-> cursor.next + d - 1]]]
       /\ cursor' = [next |-> cursor.next + n, open |-> open]
  BY <1>30
<1>32. PICK open \in StaysOpen(net[i].limit, n) :
       /\ net' = [net EXCEPT ![i] = [at |-> "reply", limit |-> 0, n |-> n, open |-> open,
                                     docs |-> [d \in 1..n |-> cursor.next + d - 1]]]
       /\ cursor' = [next |-> cursor.next + n, open |-> open]
  BY <1>31
<1>. /\ net[i].at = "asked" /\ UNCHANGED <<iter, user, given, initial, closed>>
     /\ cursor' = [next |-> cursor.next + n, open |-> open]
  BY <1>30, <1>32
<1>. DEFINE docs == [d \in 1..n |-> cursor.next + d - 1]
            r == [at |-> "reply", limit |-> 0, n |-> n, open |-> open, docs |-> docs]
<1>1. /\ net[i] \in Reply /\ net[i].limit \in Int /\ Fresh(net[i]) /\ Len(net[i].docs) = 0
  BY <1>0, ReplyType
<1>2. /\ n \in Nat /\ Remaining \in Nat /\ n <= Remaining
      /\ net[i].limit # 0 => n <= Abs(net[i].limit) /\ (n = Abs(net[i].limit) \/ n = Remaining)
  BY <1>1, SizesFit
<1>3. /\ cursor.next \in Nat /\ cursor.next >= 1 /\ cursor.next + n <= Total + 1
      /\ Total \in Nat /\ Remaining = Total - cursor.next + 1
  <2>1. cursor.next \in 1 .. Total + 1 /\ Total \in Nat
    BY Fields, QueryType
  <2>2. Remaining = Total - cursor.next + 1
    BY DEF Remaining
  <2>. QED
    BY <1>2, <2>1, <2>2
<1>4. docs \in Seq(1 .. Total) /\ Len(docs) = n /\ \A d \in 1 .. n : docs[d] = cursor.next + d - 1
  BY <1>2, <1>3, SentType
<1>5. open \in BOOLEAN
  BY DEF StaysOpen
<1>. HIDE DEF docs
<1>6. /\ r \in Reply /\ Fresh(r) /\ r.at = "reply" /\ r.open = open /\ r.docs = docs
      /\ Owed(r) = 1
  <2>1. docs = <<>> => n = 0
    BY <1>2, <1>4, EmptySeq
  <2>2. r \in Reply
    BY <1>2, <1>4, <1>5, <2>1 DEF Reply
  <2>. QED
    BY <1>4, <2>2 DEF Fresh, Owed
<1>. HIDE DEF r
<1>7. net' \in Seq(Reply) /\ Changed(net, net', i, r)
  <2>1. net' = [net EXCEPT ![i] = r]
    BY <1>32 DEF r, docs
  <2>2. [net EXCEPT ![i] = r] \in Seq(Reply) /\ Changed(net, [net EXCEPT ![i] = r], i, r)
    BY <1>0, <1>6, ExceptChanges
  <2>. QED
    BY <2>1, <2>2
<1>8. OneFresh(net')
  BY <1>1, <1>7, ChangedOne
<1>9. Len(net') = Len(net) /\ net'[i] = r /\ \A j \in 1 .. Len(net) : j # i => net'[j] = net[j]
  BY <1>7 DEF Changed
<1>10. \A j \in 1 .. Len(net) : Fresh(net'[j]) => j = i
  BY <1>6, <1>8, <1>9 DEF OneFresh
<1>11. ~ NoFresh(net')
  BY <1>6, <1>9 DEF NoFresh
<1>12. /\ user \notin Asks /\ ~ NoFresh(net) /\ net # <<>> /\ net' # <<>>
       /\ initial.reserved => Len(net) = i /\ (i = 1 \/ i = 2)
  <2>1. net' # <<>>
    BY <1>7, <1>9, EmptySeq, Fields
  <2>. QED
    BY <1>1, <2>1, OneAsked
<1>13. \A j \in 1 .. Len(net) : net'[j].at # "asked"
  <2>. SUFFICES ASSUME NEW j \in 1 .. Len(net), net'[j].at = "asked" PROVE FALSE
    OBVIOUS
  <2>1. Fresh(net'[j])
    BY <1>7, <1>9, ReplyType
  <2>. QED
    BY <1>6, <1>9, <1>10, <2>1
<1>14. cursor'.next = cursor.next + n /\ cursor'.open = open
  OBVIOUS
<1>15. Typed'
  <2>1. cursor' \in [next : 1 .. Total + 1, open : BOOLEAN]
    BY <1>2, <1>3, <1>5
  <2>. QED
    BY <1>7, <2>1 DEF Typed
<1>16. Owing'
  <2>1. Due(net, iter.docsToReceive)
    BY <1>12 DEF Owing, Linked
  <2>2. Due(net', iter.docsToReceive - Owed(net[i]) + Owed(r))
    BY <1>0, <1>7, <2>1, DueChanged
  <2>3. Owed(net[i]) = 1 /\ iter.docsToReceive \in Nat
    BY <1>1, OwedType, Fields
  <2>4. iter.docsToReceive - Owed(net[i]) + Owed(r) = iter.docsToReceive
    BY <1>6, <2>3
  <2>. QED
    BY <2>2, <2>4 DEF Owing
<1>17. AskOk'
  BY <1>9, <1>12 DEF AskOk, Asks
<1>18. HardOk'
  <2>. SUFFICES ASSUME Hard(iter.opLimit), user \notin {"query", "queryInPop", "deadlocked"},
                       NEW j \in 1 .. Len(net), Fresh(net'[j])
                PROVE  ~ net'[j].open
    BY <1>9, <1>11, <1>13 DEF HardOk
  <2>1. net[i].limit = iter.opLimit
    BY DEF HardOk
  <2>2. ~ open
    BY <2>1 DEF Hard, StaysOpen
  <2>. QED
    BY <1>6, <1>9, <1>10, <2>2
<1>19. CursorOk'
  <2>1. \A j \in 1 .. Len(net') : Fresh(net'[j]) /\ net'[j].at = "reply" /\ cursor'.open
          => net'[j].open
    BY <1>6, <1>9, <1>10, <1>14
  <2>2. closed = "no" /\ ~ iter.cursorId => iter.limit = 0 \/ (iter.docData = <<>> /\ Len(net) = 1)
    BY <1>12 DEF CursorOk
  <2>3. closed # "clean"
    BY <1>12 DEF CursorOk
  <2>. QED
    BY <1>9, <1>11, <2>1, <2>2, <2>3 DEF CursorOk
<1>20. ASSUME Len(net) <= 2 PROVE Coming(net') = Coming(net) + n /\ Coming(net) \in Nat
  <2>0. net \in Seq(Reply) /\ net' \in Seq(Reply) /\ r \in Reply /\ Changed(net, net', i, r)
    BY <1>0, <1>6, <1>7
  <2>1. Coming(net') = Coming(net) - Len(net[i].docs) + Len(r.docs)
    BY <1>20, <2>0, ComingChanged
  <2>2. Coming(net) \in Nat
    BY <1>0, ComingType
  <2>. QED
    BY <1>1, <1>2, <1>4, <1>6, <2>1, <2>2
<1>21. initial.reserved => Len(net) <= 2
  BY DEF OrderOk
<1>22. Had \in Nat
  BY Fields DEF Had
<1>23. initial.reserved => cursor.next = Had + Coming(net) + 1
  BY <1>12 DEF OrderOk, Linked
<1>24. OrderOk'
  <2>. SUFFICES ASSUME initial.reserved PROVE OrderOk'
    BY DEF OrderOk
  <2>1. Len(net') <= 2 /\ (Len(net') = 2 => Fresh(net'[2]))
    <3>1. Len(net') = i /\ net'[i] = r
      BY <1>9, <1>12
    <3>. QED
      BY <1>6, <1>12, <3>1
  <2>2. Coming(net') = Coming(net) + n /\ Coming(net) \in Nat
    BY <1>20, <1>21
  <2>3. cursor'.next = Had + Coming(net') + 1
    BY <1>2, <1>14, <1>22, <1>23, <2>2
  <2>4. Had' = Had /\ From(given', 0) /\ From(iter'.docData, Len(given'))
    BY DEF OrderOk, Had
  <2>5. ASSUME NEW j \in 1 .. Len(net) PROVE From(net'[j].docs, Had + Behind(net', j))
    <3>1. CASE j = i
      <4>1. Behind(net', i) = Coming(net)
        <5>1. CASE i = 1
          <6>0. Len(net) = 1 /\ Len(net[1].docs) = 0 /\ 1 \in 1 .. 1 /\ 2 \notin 1 .. 1
            BY <1>1, <1>12, <5>1
          <6>1. Unread(net, 1) = 0 /\ Unread(net, 2) = 0
            BY <6>0 DEF Unread
          <6>. QED
            BY <5>1, <6>1 DEF Behind, Coming
        <5>2. CASE i = 2
          <6>1. Unread(net, 2) = 0 /\ Unread(net, 1) = Len(net[1].docs) /\ net'[1] = net[1]
            BY <1>1, <1>9, <1>12, <5>2 DEF Unread
          <6>2. Unread(net, 1) \in Nat
            BY <1>0, UnreadType
          <6>3. Coming(net) = Len(net[1].docs)
            BY <6>1, <6>2 DEF Coming
          <6>. QED
            BY <5>2, <6>1, <6>3 DEF Behind
        <5>. QED
          BY <1>12, <5>1, <5>2
      <4>2. net'[j].docs = docs
        BY <1>6, <1>9, <3>1
      <4>3. \A d \in 1 .. n : docs[d] = Had + Coming(net) + d
        BY <1>2, <1>4, <1>22, <1>23, <2>2
      <4>. QED
        BY <1>4, <3>1, <4>1, <4>2, <4>3 DEF From
    <3>2. CASE j # i
      <4>1. j = 1 /\ net'[j] = net[j] /\ 1 \in 1 .. Len(net)
        BY <1>9, <1>12, <3>2
      <4>2. From(net[j].docs, Had + Behind(net, j))
        BY DEF OrderOk
      <4>. QED
        BY <4>1, <4>2 DEF Behind
    <3>. QED
      BY <3>1, <3>2
  <2>. QED
    BY <1>9, <2>1, <2>3, <2>4, <2>5 DEF OrderOk
<1>25. LimitOk'
  <2>. SUFFICES ASSUME Fits(initial), initial.limit # 0 PROVE Bounded'
    BY DEF LimitOk, Unlimited
  <2>1. Bounded /\ initial.reserved
    BY DEF LimitOk, Fits
  <2>2. Kept' = Kept + n /\ Kept \in Nat
    <3>1. Coming(net') = Coming(net) + n /\ Coming(net) \in Nat
      BY <1>20, <1>21, <2>1
    <3>2. Len(iter.docData) \in Nat /\ iter' = iter
      BY Fields
    <3>3. ASSUME NEW d \in Nat, NEW c \in Nat
          PROVE  d + (c + n) = (d + c) + n /\ d + c \in Nat
      BY <1>2
    <3>. QED
      BY <3>1, <3>2, <3>3 DEF Kept
  <2>3. SizeOk(net[i].limit)
    BY <2>1 DEF Bounded
  <2>4. Kept' <= iter.limit
    BY <1>1, <1>2, <2>2, <2>3, Fields DEF SizeOk, Abs
  <2>5. user \notin Asks
    BY <1>12
  <2>. QED
    BY <1>9, <1>11, <1>13, <2>1, <2>4, <2>5 DEF Bounded, Asks
<1>26. EndOk'
  <2>. SUFFICES ASSUME initial.reserved, Fits(initial), ~ initial.tail PROVE EndOk'
    BY DEF EndOk
  <2>1. ~ (iter.err = "ErrNotFound" /\ closed = "no")
    BY DEF EndOk
  <2>2. ASSUME ~ open
        PROVE  cursor.next + n = Total + 1
               \/ (initial.limit > 0 /\ cursor.next + n = initial.limit + 1)
    <3>0. initial.limit \in Nat /\ iter.limit \in Nat /\ Len(given) \in Nat
          /\ Len(iter.docData) \in Nat /\ iter.opLimit \in Int
      BY QueryType, Fields
    <3>1. CASE n = Remaining
      BY <1>2, <1>3, <3>1
    <3>2. CASE n # Remaining
      <4>1. net[i].limit < 0 \/ net[i].limit = 1
        <5>1. n < Remaining
          BY <1>2, <3>2
        <5>. QED
          BY <2>2, <5>1 DEF StaysOpen
      <4>2. n = Abs(net[i].limit) /\ net[i].limit = iter.opLimit
        BY <1>1, <1>2, <3>2, <4>1 DEF HardOk
      <4>3. initial.limit # 0
        <5>. SUFFICES ASSUME initial.limit = 0 PROVE FALSE
          OBVIOUS
        <5>1. iter.opLimit = initial.opLimit
          BY DEF LimitOk, Unlimited
        <5>2. initial.opLimit >= 0 /\ initial.opLimit # 1
          BY QueryType DEF Fits
        <5>. QED
          BY <3>0, <4>1, <4>2, <5>1, <5>2
      <4>4. Bounded /\ SizeOk(net[i].limit)
        BY <4>3 DEF LimitOk, Bounded
      <4>5. PICK c \in Nat : c = Coming(net)
        BY <1>0, ComingType
      <4>6. /\ iter.limit + Len(given) = initial.limit
            /\ Len(iter.docData) + c + n <= iter.limit
            /\ net[i].limit = 1 => Len(iter.docData) + c + 1 = iter.limit
        BY <1>1, <4>2, <4>4, <4>5 DEF Bounded, SizeOk, Kept
      <4>7. cursor.next = Len(given) + Len(iter.docData) + c + 1
        BY <1>23, <3>0, <4>5 DEF Had
      <4>8. CASE net[i].limit = 1
        <5>1. n = 1
          BY <4>2, <4>8 DEF Abs
        <5>. QED
          BY <3>0, <4>3, <4>6, <4>7, <4>8, <5>1
      <4>9. CASE net[i].limit < 0
        <5>1. iter.opLimit = - initial.limit
          BY <3>0, <4>2, <4>4, <4>9 DEF Bounded
        <5>2. n = initial.limit
          BY <3>0, <4>2, <4>9, <5>1 DEF Abs
        <5>3. ASSUME NEW d \in Nat, NEW l \in Nat, NEW g \in Nat, NEW m \in Nat,
                     l + g = m, d + c + m <= l
              PROVE  g + d + c + 1 = 1
          BY <5>3
        <5>4. cursor.next = 1
          BY <3>0, <4>6, <4>7, <5>2, <5>3
        <5>. QED
          BY <1>3, <3>0, <4>3, <5>2, <5>4
      <4>. QED
        BY <4>1, <4>8, <4>9
    <3>. QED
      BY <3>1, <3>2
  <2>3. \A j \in 1 .. Len(net') :
          Fresh(net'[j]) /\ net'[j].at = "reply" /\ ~ net'[j].open => AllSent'
    BY <1>6, <1>9, <1>10, <1>14, <2>2 DEF AllSent
  <2>. QED
    BY <1>11, <2>1, <2>3 DEF EndOk
<1>. QED
  BY <1>8, <1>15, <1>16, <1>17, <1>18, <1>19, <1>24, <1>25, <1>26 DEF IterInd

LEMMA ConnectionLostOk ==
  ASSUME IterInd, ConnectionLost
  PROVE  IterInd'
<1>. Typed /\ AskOk /\ Owing /\ HardOk /\ CursorOk /\ OrderOk /\ LimitOk /\ EndOk /\ OneFresh(net)
  BY DEF IterInd
<1>1. /\ initial.reserved /\ net # <<>> /\ user \in {"idle", "waiting"}
      /\ iter' = [iter EXCEPT !.docsToReceive = @ - Len(net), !.err = "dead"]
      /\ net' = <<>> /\ user' = Woken /\ UNCHANGED <<cursor, given, initial, closed>>
  BY DEF ConnectionLost, Locked
<1>2. user' \in {"idle", "next"} /\ (user' # "idle" => closed = "no")
  BY <1>1 DEF Woken, AskOk
<1>3. iter.docsToReceive - Len(net) \in Nat
  <2>1. Due(net, iter.docsToReceive)
    BY <1>1 DEF Owing, Linked
  <2>2. net \in Seq(Reply)
    BY DEF Typed
  <2>3. iter.docsToReceive >= Len(net)
    BY <2>1, <2>2, DueAtLeast
  <2>. QED
    BY <2>3, Fields
<1>4. Len(net') = 0 /\ net' \in Seq(Reply)
  BY <1>1
<1>5. Typed'
  <2>1. iter' \in [docData : Seq(1 .. Total), docsToReceive : Nat, docsBeforeMore : Int,
                   cursorId : BOOLEAN, opLimit : Int, limit : Nat, err : Errors,
                   timedout : BOOLEAN]
    BY <1>1, <1>3 DEF Typed, Errors
  <2>. QED
    BY <1>1, <1>2, <1>4, <2>1 DEF Typed, Places
<1>6. /\ iter'.docData = iter.docData /\ iter'.docsBeforeMore = iter.docsBeforeMore
      /\ iter'.cursorId = iter.cursorId /\ iter'.opLimit = iter.opLimit
      /\ iter'.limit = iter.limit /\ iter'.err = "dead"
  BY <1>1 DEF Typed
<1>7. OneFresh(net') /\ NoFresh(net') /\ Coming(net') = 0
  BY <1>4 DEF OneFresh, NoFresh, Coming, Unread
<1>8. Owing'
  BY <1>1, <1>6 DEF Owing, Linked
<1>9. AskOk'
  BY <1>1, <1>2, <1>7 DEF AskOk, Asks
<1>10. HardOk'
  BY <1>4, <1>6 DEF HardOk
<1>11. CursorOk'
  <2>1. closed = "no" /\ cursor.open =>
          iter.cursorId \/ iter.limit = 0 \/ iter.docData = <<>>
    BY DEF CursorOk
  <2>2. closed # "clean"
    BY <1>1 DEF CursorOk
  <2>. QED
    BY <1>1, <1>4, <1>6, <1>7, <2>1, <2>2 DEF CursorOk
<1>12. OrderOk'
  <2>1. From(given, 0) /\ From(iter.docData, Len(given))
    BY <1>1 DEF OrderOk
  <2>. QED
    BY <1>1, <1>4, <1>6, <2>1 DEF OrderOk, Linked
<1>13. LimitOk'
  <2>. SUFFICES ASSUME Fits(initial), initial.limit # 0 PROVE Bounded'
    BY <1>1, <1>2, <1>6 DEF LimitOk, Unlimited
  <2>1. Bounded
    BY DEF LimitOk
  <2>2. PICK c \in Nat : c = Coming(net)
    BY ComingType DEF Typed
  <2>3. Len(iter.docData) + c <= iter.limit
    BY <2>1, <2>2 DEF Bounded, Kept
  <2>4. Kept' = Len(iter.docData)
    BY <1>6, <1>7, Fields DEF Kept
  <2>5. Kept' <= iter.limit
    BY <2>2, <2>3, <2>4, Fields
  <2>. QED
    BY <1>1, <1>2, <1>4, <1>6, <2>1, <2>5 DEF Bounded
<1>14. EndOk'
  BY <1>4, <1>6 DEF EndOk
<1>. QED
  BY <1>5, <1>7, <1>8, <1>9, <1>10, <1>11, <1>12, <1>13, <1>14 DEF IterInd

----------------------------------------------------------------------------
(* Documents and replies that arrive                                       *)

LEMMA CountsOne ==
  ASSUME Typed, NEW i \in 1 .. Len(net), net[i].docs # <<>>, iter.docsToReceive >= 1,
         iter' = replyDoc(net[i])
  PROVE  /\ iter'.docData = Append(iter.docData, Head(net[i].docs))
         /\ iter'.docsToReceive =
              iter.docsToReceive - 1 + (IF Fresh(net[i]) THEN net[i].n - 1 ELSE 0)
         /\ iter'.cursorId = (IF Fresh(net[i]) THEN net[i].open ELSE iter.cursorId)
         /\ iter'.opLimit = iter.opLimit /\ iter'.limit = iter.limit /\ iter'.err = iter.err
         /\ iter'.timedout = iter.timedout
         /\ iter'.docsBeforeMore \in Int
         /\ ~ Fresh(net[i]) => iter'.docsBeforeMore = iter.docsBeforeMore
         /\ Fresh(net[i]) /\ iter'.docsBeforeMore >= 0 /\ iter.limit # 0 =>
              Len(iter.docData) + net[i].n < iter.limit
         /\ iter' \in [docData : Seq(1 .. Total), docsToReceive : Nat, docsBeforeMore : Int,
                      cursorId : BOOLEAN, opLimit : Int, limit : Nat, err : Errors,
                      timedout : BOOLEAN]
<1>. DEFINE m == IF iter.limit = 0 \/ Len(iter.docData) + net[i].n < iter.limit
                 THEN (Len(iter.docData) + net[i].n) - ((initial.prefetch * net[i].n) \div 4)
                 ELSE -1
            k == iter.docsToReceive - 1
                   + (IF net[i].n - Len(net[i].docs) = 0 THEN net[i].n - 1 ELSE 0)
            longer == Append(iter.docData, Head(net[i].docs))
            counted == [iter EXCEPT !.docsToReceive = k, !.docData = longer]
<1>1. iter' = IF net[i].n - Len(net[i].docs) # 0 THEN counted
              ELSE [counted EXCEPT !.docsBeforeMore = m, !.cursorId = net[i].open]
  BY DEF replyDoc
<1>2. /\ net[i].n \in Nat /\ Len(net[i].docs) \in Nat
  BY ReplyType DEF Typed
<1>3. Fresh(net[i]) <=> net[i].n - Len(net[i].docs) = 0
  BY <1>2 DEF Fresh
<1>4. m \in Int
  <2>1. initial.prefetch \in Int /\ Len(iter.docData) \in Nat
    BY QueryType, Fields
  <2>2. ASSUME NEW p \in Int, NEW c \in Nat PROVE (p * c) \div 4 \in Int
    <3>1. p * c \in Int
      OBVIOUS
    <3>2. ASSUME NEW x \in Int PROVE x \div 4 \in Int
      OBVIOUS
    <3>. QED
      BY <3>1, <3>2
  <2>3. (initial.prefetch * net[i].n) \div 4 \in Int
    BY <1>2, <2>1, <2>2
  <2>4. ASSUME NEW x \in Nat, NEW y \in Nat, NEW z \in Int PROVE (x + y) - z \in Int
    OBVIOUS
  <2>5. (Len(iter.docData) + net[i].n) - ((initial.prefetch * net[i].n) \div 4) \in Int
    BY <1>2, <2>1, <2>3, <2>4
  <2>. QED
    BY <2>5
<1>5. m >= 0 /\ iter.limit # 0 => Len(iter.docData) + net[i].n < iter.limit
  OBVIOUS
<1>6. k = iter.docsToReceive - 1 + (IF Fresh(net[i]) THEN net[i].n - 1 ELSE 0)
  BY <1>3
<1>10. longer = Append(iter.docData, Head(net[i].docs))
  OBVIOUS
<1>11. k \in Nat
  <2>1. iter.docsToReceive \in Nat
    BY Fields
  <2>2. ASSUME NEW v \in Nat, NEW x \in Nat, v >= 1, x # 0
        PROVE  v - 1 + (x - 1) \in Nat /\ v - 1 + 0 \in Nat
    BY <2>2
  <2>3. net[i].n # 0
    BY ReplyType DEF Typed
  <2>. QED
    BY <1>2, <2>1, <2>2, <2>3
<1>12. longer \in Seq(1 .. Total)
  <2>1. net[i].docs \in Seq(1 .. Total)
    BY ReplyType DEF Typed
  <2>2. Head(net[i].docs) \in 1 .. Total
    BY <2>1, HeadTailProperties
  <2>3. iter.docData \in Seq(1 .. Total)
    BY Fields
  <2>. QED
    BY <2>2, <2>3, AppendProperties
<1>13. net[i].open \in BOOLEAN
  BY ReplyType DEF Typed
<1>. HIDE DEF m, k, longer
<1>7. /\ counted.docData = longer /\ counted.docsToReceive = k
      /\ counted.docsBeforeMore = iter.docsBeforeMore /\ counted.cursorId = iter.cursorId
      /\ counted.opLimit = iter.opLimit /\ counted.limit = iter.limit
      /\ counted.err = iter.err /\ counted.timedout = iter.timedout
  BY DEF Typed
<1>14. counted \in [docData : Seq(1 .. Total), docsToReceive : Nat, docsBeforeMore : Int,
                   cursorId : BOOLEAN, opLimit : Int, limit : Nat, err : Errors,
                   timedout : BOOLEAN]
  BY <1>11, <1>12 DEF Typed
<1>. HIDE DEF counted
<1>8. CASE ~ Fresh(net[i])
  <2>1. iter' = counted
    BY <1>1, <1>3, <1>8
  <2>2. iter.docsBeforeMore \in Int
    BY Fields
  <2>. QED
    BY <1>6, <1>7, <1>8, <1>10, <1>14, <2>1, <2>2
<1>9. CASE Fresh(net[i])
  <2>1. iter' = [counted EXCEPT !.docsBeforeMore = m, !.cursorId = net[i].open]
    BY <1>1, <1>3, <1>9
  <2>2. /\ iter'.docData = counted.docData /\ iter'.docsToReceive = counted.docsToReceive
        /\ iter'.docsBeforeMore = m /\ iter'.cursorId = net[i].open
        /\ iter'.opLimit = counted.opLimit /\ iter'.limit = counted.limit
        /\ iter'.err = counted.err /\ iter'.timedout = counted.timedout
    BY <1>14, <2>1
  <2>3. iter' \in [docData : Seq(1 .. Total), docsToReceive : Nat, docsBeforeMore : Int,
                   cursorId : BOOLEAN, opLimit : Int, limit : Nat, err : Errors,
                   timedout : BOOLEAN]
    BY <1>4, <1>13, <1>14, <2>1
  <2>. QED
    BY <1>4, <1>5, <1>6, <1>7, <1>9, <1>10, <2>2, <2>3
<1>. QED
  BY <1>8, <1>9

\* One document leaves the reply, and the reply with the last of them.
LEMMA ReadsOne ==
  ASSUME Typed, Owing, NEW i \in 1 .. Len(net), net[i].docs # <<>>,
         net' = IF Len(net[i].docs) = 1 THEN RemoveAt(net, i)
                ELSE [net EXCEPT ![i].docs = Tail(@)]
  PROVE  /\ net' \in Seq(Reply) /\ Left(net, net', i) /\ (OneFresh(net) => OneFresh(net'))
         /\ Due(net', iter.docsToReceive - 1 + (IF Fresh(net[i]) THEN net[i].n - 1 ELSE 0))
         /\ iter.docsToReceive >= 1
         /\ \/ Len(net[i].docs) = 1 /\ Removed(net, net', i)
            \/ /\ Len(net[i].docs) > 1
               /\ \E r \in Reply : /\ Changed(net, net', i, r)
                                   /\ r.docs = Tail(net[i].docs) /\ ~ Fresh(r)
<1>1. net \in Seq(Reply)
  BY DEF Typed
<1>2. /\ net[i] \in Reply /\ net[i].docs \in Seq(1 .. Total) /\ net[i].n \in Nat
      /\ Len(net[i].docs) <= net[i].n /\ net[i].at \in {"asked", "reply"}
      /\ net[i].at = "asked" => net[i].n = 0
      /\ Len(net[i].docs) \in Nat /\ Len(net[i].docs) # 0
  BY <1>1, ReplyType
<1>3. net # <<>>
  BY Fields
<1>4. Due(net, iter.docsToReceive) /\ iter.docsToReceive \in Nat
  BY <1>3, Fields DEF Owing, Linked
<1>5. iter.docsToReceive >= 1
  <2>1. iter.docsToReceive >= Len(net) /\ Len(net) \in Nat
    BY <1>1, <1>4, DueAtLeast, LenProperties
  <2>. QED
    BY <1>4, <2>1
<1>6. /\ Owed(net[i]) \in Nat
      /\ Fresh(net[i]) => Owed(net[i]) = 1
      /\ ~ Fresh(net[i]) => Owed(net[i]) = Len(net[i].docs)
  BY <1>2, OwedType
<1>7. CASE Len(net[i].docs) = 1
  <2>1. net' \in Seq(Reply) /\ Removed(net, net', i)
    <3>1. RemoveAt(net, i) \in Seq(Reply) /\ Removed(net, RemoveAt(net, i), i)
      BY <1>1, RemoveAtRemoves
    <3>2. net' = RemoveAt(net, i)
      BY <1>7
    <3>. QED
      BY <3>1, <3>2
  <2>2. Left(net, net', i)
    BY <1>1, <2>1, RemovedLeaves
  <2>3. OneFresh(net) => OneFresh(net')
    BY <1>1, <2>1, RemovedOne
  <2>4. Due(net', iter.docsToReceive - Owed(net[i]))
    BY <1>1, <1>4, <2>1, DueRemoved
  <2>5. iter.docsToReceive - Owed(net[i])
          = iter.docsToReceive - 1 + (IF Fresh(net[i]) THEN net[i].n - 1 ELSE 0)
    BY <1>2, <1>4, <1>6, <1>7 DEF Fresh
  <2>. QED
    BY <1>5, <1>7, <2>1, <2>2, <2>3, <2>4, <2>5
<1>8. CASE Len(net[i].docs) # 1
  <2>. DEFINE r == [net[i] EXCEPT !.docs = Tail(net[i].docs)]
  <2>1. Tail(net[i].docs) \in Seq(1 .. Total)
        /\ Len(Tail(net[i].docs)) = Len(net[i].docs) - 1
    BY <1>2, HeadTailProperties
  <2>2. /\ r.docs = Tail(net[i].docs) /\ r.n = net[i].n /\ r.at = net[i].at
        /\ r \in [at : {"asked", "reply"}, limit : Int, docs : Seq(1 .. Total), n : Nat,
                  open : BOOLEAN]
    BY <1>2, <2>1 DEF Reply
  <2>3. r \in Reply /\ ~ Fresh(r) /\ Len(r.docs) = Len(net[i].docs) - 1 /\ r.docs # <<>>
    <3>1. Len(r.docs) = Len(net[i].docs) - 1 /\ Len(r.docs) # 0 /\ Len(r.docs) < r.n
      BY <1>2, <1>8, <2>1, <2>2
    <3>2. r.docs # <<>>
      BY <2>1, <2>2, <3>1, EmptySeq
    <3>3. r.at = "asked" => r.n = 0
      BY <1>2, <2>2
    <3>. HIDE DEF r
    <3>4. r \in Reply
      BY <1>2, <2>2, <3>1, <3>2, <3>3 DEF Reply
    <3>. QED
      BY <1>2, <2>2, <3>1, <3>2, <3>4 DEF Fresh
  <2>4. net' = [net EXCEPT ![i] = r]
    BY <1>8
  <2>. HIDE DEF r
  <2>5. net' \in Seq(Reply) /\ Changed(net, net', i, r)
    <3>1. [net EXCEPT ![i] = r] \in Seq(Reply) /\ Changed(net, [net EXCEPT ![i] = r], i, r)
      BY <1>1, <2>3, ExceptChanges
    <3>. QED
      BY <2>4, <3>1
  <2>6. Left(net, net', i)
    BY <1>1, <2>3, <2>5, ChangedLeaves
  <2>7. OneFresh(net) => OneFresh(net')
    BY <2>3, <2>5, ChangedOne
  <2>8. Due(net', iter.docsToReceive - Owed(net[i]) + Owed(r))
    BY <1>1, <1>4, <2>5, DueChanged
  <2>9. Owed(r) = Len(net[i].docs) - 1
    BY <2>3, OwedType
  <2>10. iter.docsToReceive - Owed(net[i]) + Owed(r)
           = iter.docsToReceive - 1 + (IF Fresh(net[i]) THEN net[i].n - 1 ELSE 0)
    BY <1>2, <1>4, <1>6, <2>9 DEF Fresh
  <2>11. Len(net[i].docs) > 1
    <3>1. ASSUME NEW x \in Nat, x # 0, x # 1 PROVE x > 1
      BY <3>1
    <3>. QED
      BY <1>2, <1>8, <3>1
  <2>. QED
    BY <1>5, <2>2, <2>3, <2>5, <2>6, <2>7, <2>8, <2>10, <2>11
<1>. QED
  BY <1>7, <1>8

LEMMA DocArrivesOk ==
  ASSUME IterInd, DocArrives
  PROVE  IterInd'
<1>. Typed /\ AskOk /\ Owing /\ HardOk /\ CursorOk /\ OrderOk /\ LimitOk /\ EndOk /\ OneFresh(net)
  BY DEF IterInd
<1>0. net \in Seq(Reply) /\ DOMAIN net = 1 .. Len(net)
  BY LenProperties DEF Typed
<1>30. PICK i \in 1 .. Len(net) :
         /\ net[i].at = "reply" /\ (initial.reserved => i = 1)
         /\ net[i].docs # <<>> /\ ~ Locked
         /\ iter' = replyDoc(net[i])
         /\ net' = IF Len(net[i].docs) = 1 THEN RemoveAt(net, i)
                   ELSE [net EXCEPT ![i].docs = Tail(@)]
         /\ user' = Woken
         /\ UNCHANGED <<cursor, given, initial, closed>>
  BY <1>0 DEF DocArrives, Readable
<1>. UNCHANGED <<cursor, given, initial, closed>>
  BY <1>30
<1>1. /\ user \in {"idle", "waiting"} /\ user' \in {"idle", "next"}
      /\ user' # "idle" => user = "waiting"
  BY <1>30 DEF Locked, Woken
<1>31. /\ net' \in Seq(Reply) /\ Left(net, net', i) /\ OneFresh(net')
       /\ Due(net', iter.docsToReceive - 1 + (IF Fresh(net[i]) THEN net[i].n - 1 ELSE 0))
       /\ iter.docsToReceive >= 1
       /\ \/ Len(net[i].docs) = 1 /\ Removed(net, net', i)
          \/ /\ Len(net[i].docs) > 1
             /\ \E r \in Reply : /\ Changed(net, net', i, r)
                                 /\ r.docs = Tail(net[i].docs) /\ ~ Fresh(r)
  BY <1>30, ReadsOne
<1>2. /\ iter'.docData = Append(iter.docData, Head(net[i].docs))
      /\ iter'.docsToReceive =
           iter.docsToReceive - 1 + (IF Fresh(net[i]) THEN net[i].n - 1 ELSE 0)
      /\ iter'.cursorId = (IF Fresh(net[i]) THEN net[i].open ELSE iter.cursorId)
      /\ iter'.opLimit = iter.opLimit /\ iter'.limit = iter.limit /\ iter'.err = iter.err
      /\ iter'.timedout = iter.timedout
      /\ iter'.docsBeforeMore \in Int
      /\ ~ Fresh(net[i]) => iter'.docsBeforeMore = iter.docsBeforeMore
      /\ Fresh(net[i]) /\ iter'.docsBeforeMore >= 0 /\ iter.limit # 0 =>
           Len(iter.docData) + net[i].n < iter.limit
      /\ iter' \in [docData : Seq(1 .. Total), docsToReceive : Nat, docsBeforeMore : Int,
                    cursorId : BOOLEAN, opLimit : Int, limit : Nat, err : Errors,
                    timedout : BOOLEAN]
  BY <1>30, <1>31, CountsOne
<1>3. /\ net' \in Seq(Reply) /\ Left(net, net', i) /\ OneFresh(net')
      /\ Due(net', iter'.docsToReceive)
      /\ \/ Len(net[i].docs) = 1 /\ Removed(net, net', i)
         \/ /\ Len(net[i].docs) > 1
            /\ \E r \in Reply : /\ Changed(net, net', i, r)
                                /\ r.docs = Tail(net[i].docs) /\ ~ Fresh(r)
  <2>1. iter'.docsToReceive =
          iter.docsToReceive - 1 + (IF Fresh(net[i]) THEN net[i].n - 1 ELSE 0)
    BY <1>2
  <2>2. Due(net', iter'.docsToReceive)
    BY <1>31, <2>1
  <2>. QED
    BY <1>31, <2>2
<1>4. /\ net[i] \in Reply /\ net[i].docs \in Seq(1 .. Total) /\ net[i].n \in Nat
      /\ net[i].open \in BOOLEAN /\ Len(net[i].docs) \in Nat /\ Len(net[i].docs) # 0
      /\ Len(net[i].docs) <= net[i].n
      /\ net # <<>>
  <2>1. net # <<>>
    BY Fields
  <2>. QED
    BY <1>0, <1>30, <2>1, ReplyType
<1>5. /\ Head(net[i].docs) \in 1 .. Total /\ Head(net[i].docs) = net[i].docs[1]
      /\ Len(Tail(net[i].docs)) = Len(net[i].docs) - 1
      /\ \A d \in 1 .. Len(net[i].docs) - 1 : Tail(net[i].docs)[d] = net[i].docs[d + 1]
  <2>1. /\ Head(net[i].docs) \in 1 .. Total /\ Tail(net[i].docs) \in Seq(1 .. Total)
        /\ Len(Tail(net[i].docs)) = Len(net[i].docs) - 1
        /\ \A d \in 1 .. Len(Tail(net[i].docs)) : Tail(net[i].docs)[d] = net[i].docs[d + 1]
    BY <1>4, <1>30, HeadTailProperties
  <2>2. Head(net[i].docs) = net[i].docs[1]
    BY <1>4
  <2>. QED
    BY <2>1, <2>2
<1>6. /\ iter'.docData \in Seq(1 .. Total) /\ Len(iter'.docData) = Len(iter.docData) + 1
      /\ iter'.docData[Len(iter.docData) + 1] = Head(net[i].docs)
      /\ \A d \in 1 .. Len(iter.docData) : iter'.docData[d] = iter.docData[d]
  <2>1. iter.docData \in Seq(1 .. Total)
    BY Fields
  <2>2. Head(net[i].docs) \in 1 .. Total
    BY <1>5
  <2>3. LET longer == Append(iter.docData, Head(net[i].docs))
        IN  /\ longer \in Seq(1 .. Total) /\ Len(longer) = Len(iter.docData) + 1
            /\ longer[Len(iter.docData) + 1] = Head(net[i].docs)
            /\ \A d \in 1 .. Len(iter.docData) : longer[d] = iter.docData[d]
    BY <2>1, <2>2, AppendProperties
  <2>. QED
    BY <1>2, <2>3
<1>7. /\ iter.docsToReceive \in Nat /\ iter.docsBeforeMore \in Int /\ iter.limit \in Nat
      /\ Len(iter.docData) \in Nat /\ Len(given) \in Nat /\ Len(net) \in Nat
      /\ iter.cursorId \in BOOLEAN /\ iter.opLimit \in Int /\ iter.err \in Errors
      /\ iter.timedout \in BOOLEAN /\ (net = <<>> <=> Len(net) = 0)
  BY Fields
<1>8. /\ NoFresh(net) => NoFresh(net')
      /\ Fresh(net[i]) => NoFresh(net')
      /\ ~ Fresh(net[i]) => (NoFresh(net') <=> NoFresh(net))
  BY <1>3, LeftFresh
<1>9. \A j \in 1 .. Len(net') : Fresh(net'[j]) =>
        \E k \in 1 .. Len(net) : k # i /\ net'[j] = net[k]
  BY <1>3 DEF Left
<1>10. ASSUME NEW j \in 1 .. Len(net'), net'[j].at = "asked"
       PROVE  \E k \in 1 .. Len(net) : net[k].at = "asked" /\ net'[j] = net[k]
  <2>1. Fresh(net'[j])
    BY <1>3, <1>10, ReplyType
  <2>. QED
    BY <1>9, <1>10, <2>1
<1>11. ~ Fresh(net[i]) => ~ (~ NoFresh(net) /\ Len(net) = 1)
  <2>1. Len(net) = 1 => 1 \in 1 .. Len(net) /\ \A k \in 1 .. Len(net) : k = i
    OBVIOUS
  <2>. QED
    BY <2>1 DEF NoFresh
<1>12. Typed'
  BY <1>1, <1>2, <1>3 DEF Typed, Places
<1>13. Owing'
  BY <1>3 DEF Owing
<1>14. AskOk'
  <2>1. ~ NoFresh(net') => iter'.docsBeforeMore < 0
    BY <1>2, <1>8, <1>11 DEF AskOk
  <2>. QED
    BY <1>1, <2>1 DEF AskOk, Asks
<1>15. HardOk'
  <2>1. \A j \in 1 .. Len(net') : net'[j].at = "asked" => net'[j].limit = iter.opLimit
    BY <1>10 DEF HardOk
  <2>2. ASSUME Hard(iter.opLimit)
        PROVE  /\ NoFresh(net') /\ iter.err = "nil" => ~ iter'.cursorId
               /\ \A j \in 1 .. Len(net') : Fresh(net'[j]) =>
                    net'[j].at = "asked" \/ ~ net'[j].open
    <3>1. /\ NoFresh(net) /\ iter.err = "nil" => ~ iter.cursorId
          /\ \A k \in 1 .. Len(net) : Fresh(net[k]) => net[k].at = "asked" \/ ~ net[k].open
      BY <1>1, <2>2 DEF HardOk
    <3>2. Fresh(net[i]) => ~ net[i].open
      BY <1>30, <3>1
    <3>. QED
      BY <1>2, <1>8, <1>9, <3>1, <3>2
  <2>. QED
    BY <1>2, <2>1, <2>2 DEF HardOk
<1>16. CursorOk'
  <2>1. \A k \in 1 .. Len(net) : Fresh(net[k]) /\ net[k].at = "reply" /\ cursor.open => net[k].open
    BY DEF CursorOk
  <2>2. \A j \in 1 .. Len(net') : Fresh(net'[j]) /\ net'[j].at = "reply" /\ cursor.open
          => net'[j].open
    BY <1>9, <2>1
  <2>3. closed # "clean"
    BY <1>4 DEF CursorOk
  <2>4. CASE Fresh(net[i])
    <3>1. cursor.open => iter'.cursorId
      BY <1>2, <1>30, <2>1, <2>4
    <3>. QED
      BY <1>8, <2>2, <2>3, <2>4, <3>1 DEF CursorOk
  <2>5. CASE ~ Fresh(net[i])
    <3>1. closed = "no" /\ cursor.open => iter.cursorId \/ ~ NoFresh(net)
            \/ (iter.err \in {"dead", "unavailable"} /\ iter.limit = 0)
      BY <1>4 DEF CursorOk
    <3>2. closed = "no" /\ ~ NoFresh(net) /\ ~ iter.cursorId => iter.limit = 0
      BY <1>11, <2>5 DEF CursorOk
    <3>. QED
      BY <1>2, <1>8, <2>2, <2>3, <2>5, <3>1, <3>2 DEF CursorOk
  <2>. QED
    BY <2>4, <2>5
<1>17. initial.reserved => i = 1 /\ Len(net) <= 2 /\ (Len(net) = 2 => Fresh(net[2]))
  BY <1>30 DEF OrderOk
<1>18. ASSUME initial.reserved
       PROVE  Coming(net') = Coming(net) - 1 /\ Coming(net) \in Nat /\ Coming(net) >= 1
  <2>1. i = 1 /\ Len(net) <= 2
    BY <1>17, <1>18
  <2>2. Coming(net) \in Nat /\ Len(net[i].docs) <= Coming(net)
    BY <1>0, <2>1, ComingType
  <2>3. CASE Len(net[i].docs) = 1 /\ Removed(net, net', i)
    <3>1. Coming(net') = Coming(net) - Len(net[1].docs)
      BY <1>0, <1>3, <2>1, <2>3, ComingRemoved
    <3>. QED
      BY <2>1, <2>2, <2>3, <3>1
  <2>4. CASE \E r \in Reply : /\ Changed(net, net', i, r)
                              /\ r.docs = Tail(net[i].docs) /\ ~ Fresh(r)
    <3>1. PICK r \in Reply : Changed(net, net', i, r) /\ r.docs = Tail(net[i].docs)
      BY <2>4
    <3>2. Coming(net') = Coming(net) - Len(net[i].docs) + Len(r.docs)
      BY <1>0, <1>3, <2>1, <3>1, ComingChanged
    <3>3. Len(r.docs) = Len(net[i].docs) - 1
      BY <1>5, <3>1
    <3>4. ASSUME NEW c \in Nat, NEW m \in Nat, m # 0, m <= c
          PROVE  c - m + (m - 1) = c - 1 /\ c >= 1
      BY <3>4
    <3>. QED
      BY <1>4, <2>2, <3>2, <3>3, <3>4
  <2>. QED
    BY <1>3, <2>3, <2>4
<1>19. Had \in Nat /\ Had' = Had + 1
  BY <1>6, <1>7 DEF Had
<1>20. OrderOk'
  <2>. SUFFICES ASSUME initial.reserved PROVE OrderOk'
    BY DEF OrderOk
  <2>1. i = 1 /\ Len(net) <= 2 /\ (Len(net) = 2 => Fresh(net[2]))
    BY <1>17
  <2>2. cursor.next = Had + Coming(net) + 1
    BY <1>4 DEF OrderOk, Linked
  <2>3. cursor.next = Had' + Coming(net') + 1
    BY <1>18, <1>19, <2>2
  <2>4. /\ From(given, 0) /\ From(iter.docData, Len(given))
        /\ \A j \in 1 .. Len(net) : From(net[j].docs, Had + Behind(net, j))
    BY DEF OrderOk
  <2>5. \A d \in 1 .. Len(net[1].docs) : net[1].docs[d] = Had + d
    <3>1. From(net[1].docs, Had + 0)
      BY <2>1, <2>4 DEF Behind
    <3>2. Had + 0 = Had
      BY <1>19
    <3>3. From(net[1].docs, Had)
      BY <3>1, <3>2
    <3>. QED
      BY <3>3 DEF From
  <2>6. From(iter'.docData, Len(given))
    <3>1. iter'.docData[Len(iter.docData) + 1] = Len(given) + (Len(iter.docData) + 1)
      <4>1. 1 \in 1 .. Len(net[1].docs)
        BY <1>4, <2>1
      <4>2. Head(net[i].docs) = Had + 1
        BY <1>5, <2>1, <2>5, <4>1
      <4>3. Had + 1 = Len(given) + (Len(iter.docData) + 1)
        BY <1>7 DEF Had
      <4>. QED
        BY <1>6, <4>2, <4>3
    <3>2. \A d \in 1 .. Len(iter.docData) : iter'.docData[d] = Len(given) + d
      BY <1>6, <2>4 DEF From
    <3>3. \A d \in 1 .. Len(iter.docData) + 1 :
            d \in 1 .. Len(iter.docData) \/ d = Len(iter.docData) + 1
      BY <1>7
    <3>. QED
      BY <1>6, <3>1, <3>2, <3>3 DEF From
  <2>7. ASSUME Len(net) = 2
        PROVE  From(net[2].docs, Had + Len(net[1].docs)) /\ 2 \in 1 .. Len(net)
    <3>1. 2 \in 1 .. Len(net)
      BY <2>7
    <3>. QED
      BY <2>4, <3>1 DEF Behind
  <2>8. /\ Len(net') <= 2 /\ (Len(net') = 2 => Fresh(net'[2]))
        /\ \A j \in 1 .. Len(net') : From(net'[j].docs, Had' + Behind(net', j))
    <3>1. CASE Len(net[i].docs) = 1 /\ Removed(net, net', i)
      <4>1. Len(net') = Len(net) - 1 /\ \A j \in 1 .. Len(net') : net'[j] = net[j + 1]
        BY <2>1, <3>1 DEF Removed
      <4>2. Len(net') <= 1 /\ (1 \in 1 .. Len(net') => Len(net) = 2)
        BY <1>7, <2>1, <4>1
      <4>3. ASSUME NEW j \in 1 .. Len(net') PROVE From(net'[j].docs, Had' + Behind(net', j))
        <5>1. j = 1 /\ Len(net) = 2
          BY <1>7, <2>1, <4>1
        <5>2. net'[1] = net[2]
          BY <4>1, <5>1
        <5>3. Had + Len(net[1].docs) = Had' + 0
          BY <1>19, <2>1, <3>1
        <5>. QED
          BY <2>7, <5>1, <5>2, <5>3 DEF Behind
      <4>. QED
        BY <4>2, <4>3
    <3>2. CASE \E r \in Reply : /\ Changed(net, net', i, r)
                                /\ r.docs = Tail(net[i].docs) /\ ~ Fresh(r)
      <4>1. PICK r \in Reply : Changed(net, net', i, r) /\ r.docs = Tail(net[i].docs)
        BY <3>2
      <4>2. Len(net') = Len(net) /\ net'[1].docs = Tail(net[1].docs)
            /\ (Len(net) = 2 => net'[2] = net[2])
        <5>1. Len(net) = 2 => 2 \in 1 .. Len(net)
          OBVIOUS
        <5>. QED
          BY <2>1, <4>1, <5>1 DEF Changed
      <4>3. ASSUME NEW j \in 1 .. Len(net) PROVE From(net'[j].docs, Had' + Behind(net', j))
        <5>1. CASE j = 1
          <6>1. \A d \in 1 .. Len(net[1].docs) - 1 : d + 1 \in 1 .. Len(net[1].docs)
            BY <1>4, <2>1
          <6>2. \A d \in 1 .. Len(net[1].docs) - 1 :
                  Tail(net[1].docs)[d] = (Had + 1) + 0 + d
            BY <1>5, <1>19, <2>1, <2>5, <6>1
          <6>3. From(Tail(net[1].docs), (Had + 1) + 0)
            BY <1>5, <2>1, <6>2 DEF From
          <6>. QED
            BY <1>19, <4>2, <5>1, <6>3 DEF Behind
        <5>2. CASE j # 1
          <6>1. j = 2 /\ Len(net) = 2
            <7>1. ASSUME NEW l \in Nat, l <= 2, j \in 1 .. l PROVE j = 2 /\ l = 2
              BY <5>2, <7>1
            <7>. QED
              BY <1>7, <2>1, <7>1
          <6>2. Behind(net', 2) = Len(net[1].docs) - 1
            BY <1>5, <2>1, <4>2 DEF Behind
          <6>3. Had + Len(net[1].docs) = (Had + 1) + (Len(net[1].docs) - 1)
            BY <1>4, <1>19, <2>1, OneOver
          <6>. QED
            BY <1>19, <2>7, <4>2, <6>1, <6>2, <6>3
        <5>. QED
          BY <5>1, <5>2
      <4>. QED
        BY <2>1, <4>2, <4>3
    <3>. QED
      BY <1>3, <3>1, <3>2
  <2>. QED
    BY <2>3, <2>4, <2>6, <2>8 DEF OrderOk
<1>21. LimitOk'
  <2>1. user' # "panicked"
    BY <1>1
  <2>. SUFFICES ASSUME Fits(initial), initial.limit # 0 PROVE Bounded'
    BY <1>2, <2>1 DEF LimitOk, Unlimited
  <2>2. Bounded /\ initial.reserved
    BY DEF LimitOk, Fits
  <2>3. Coming(net') = Coming(net) - 1 /\ Coming(net) \in Nat /\ Coming(net) >= 1
    BY <1>18, <2>2
  <2>4. Kept' = Kept
    <3>1. Len(iter'.docData) = Len(iter.docData) + 1
      BY <1>6
    <3>2. (Len(iter.docData) + 1) + (Coming(net) - 1) = Len(iter.docData) + Coming(net)
      BY <1>7, <2>3, OneOver
    <3>. QED
      BY <2>3, <3>1, <3>2 DEF Kept
  <2>5. \A j \in 1 .. Len(net') : net'[j].at = "asked" =>
          /\ net'[j].limit # 0 /\ Kept' + Abs(net'[j].limit) <= iter'.limit
          /\ (net'[j].limit = 1 => Kept' + 1 = iter'.limit)
    <3>. SUFFICES ASSUME NEW j \in 1 .. Len(net'), net'[j].at = "asked"
                  PROVE  /\ net'[j].limit # 0 /\ Kept' + Abs(net'[j].limit) <= iter'.limit
                         /\ (net'[j].limit = 1 => Kept' + 1 = iter'.limit)
      OBVIOUS
    <3>1. PICK k \in 1 .. Len(net) : net[k].at = "asked" /\ net'[j] = net[k]
      BY <1>10
    <3>2. SizeOk(net[k].limit)
      BY <2>2, <3>1 DEF Bounded
    <3>3. iter'.limit = iter.limit
      BY <1>2
    <3>. QED
      BY <2>4, <3>1, <3>2, <3>3 DEF SizeOk
  <2>6. ASSUME iter.err = "nil", iter'.cursorId, NoFresh(net'), iter'.docsBeforeMore >= 0
        PROVE  Kept < iter.limit
    <3>0. iter.limit > 0
      BY <2>2, <2>6 DEF Bounded
    <3>1. CASE Fresh(net[i])
      <4>1. Len(iter.docData) + net[i].n < iter.limit
        BY <1>2, <1>7, <2>6, <3>0, <3>1
      <4>2. Len(net) = 1 /\ i = 1
        BY <1>17, <2>2, <3>1, OneAsked
      <4>3. Coming(net) = Len(net[i].docs)
        <5>1. Unread(net, 1) = Len(net[1].docs) /\ Unread(net, 2) = 0
          BY <4>2 DEF Unread
        <5>. QED
          BY <1>4, <4>2, <5>1 DEF Coming
      <4>4. Kept = Len(iter.docData) + net[i].n
        BY <3>1, <4>3 DEF Kept, Fresh
      <4>. QED
        BY <4>1, <4>4
    <3>2. CASE ~ Fresh(net[i])
      BY <1>2, <1>8, <2>2, <2>6, <3>2 DEF Bounded
    <3>. QED
      BY <3>1, <3>2
  <2>. HIDE DEF Kept
  <2>. QED
    BY <1>1, <1>2, <2>2, <2>4, <2>5, <2>6 DEF Bounded, SizeOk
<1>22. EndOk'
  <2>. SUFFICES ASSUME initial.reserved, Fits(initial), ~ initial.tail PROVE EndOk'
    BY DEF EndOk
  <2>1. \A k \in 1 .. Len(net) : Fresh(net[k]) /\ net[k].at = "reply" /\ ~ net[k].open => AllSent
    BY DEF EndOk
  <2>2. \A j \in 1 .. Len(net') : Fresh(net'[j]) /\ net'[j].at = "reply" /\ ~ net'[j].open
          => AllSent
    BY <1>9, <2>1
  <2>3. iter.err = "nil" /\ closed = "no" /\ NoFresh(net') /\ ~ iter'.cursorId => AllSent
    <3>1. CASE Fresh(net[i])
      BY <1>2, <1>30, <2>1, <3>1
    <3>2. CASE ~ Fresh(net[i])
      BY <1>2, <1>8, <3>2 DEF EndOk
    <3>. QED
      BY <3>1, <3>2
  <2>4. ~ (iter.err = "ErrNotFound" /\ closed = "no")
    <3>1. Coming(net) \in Nat /\ Coming(net) >= 1
      BY <1>18
    <3>. QED
      BY <3>1 DEF EndOk
  <2>5. AllSent' = AllSent
    BY DEF AllSent
  <2>. QED
    BY <1>2, <2>2, <2>3, <2>4, <2>5 DEF EndOk
<1>. QED
  BY <1>3, <1>12, <1>13, <1>14, <1>15, <1>16, <1>20, <1>21, <1>22 DEF IterInd

LEMMA EmptyReplyArrivesOk ==
  ASSUME IterInd, EmptyReplyArrives
  PROVE  IterInd'
<1>. Typed /\ AskOk /\ Owing /\ HardOk /\ CursorOk /\ OrderOk /\ LimitOk /\ EndOk /\ OneFresh(net)
  BY DEF IterInd
<1>0. net \in Seq(Reply) /\ DOMAIN net = 1 .. Len(net)
  BY LenProperties DEF Typed
<1>30. PICK i \in 1 .. Len(net) :
         /\ net[i].at = "reply" /\ (initial.reserved => i = 1)
         /\ net[i].n = 0 /\ ~ Locked
         /\ iter' = [iter EXCEPT !.docsToReceive = @ - 1,
                                 !.cursorId = net[i].open \/ @,
                                 !.err = IF net[i].open THEN @ ELSE "ErrNotFound"]
         /\ net' = RemoveAt(net, i)
         /\ user' = Woken
         /\ UNCHANGED <<cursor, given, initial, closed>>
  BY <1>0 DEF EmptyReplyArrives, Readable
<1>. UNCHANGED <<cursor, given, initial, closed>>
  BY <1>30
<1>1. /\ user \in {"idle", "waiting"} /\ user' \in {"idle", "next"}
      /\ user' # "idle" => user = "waiting"
  BY <1>30 DEF Locked, Woken
<1>2. /\ net[i] \in Reply /\ net[i].open \in BOOLEAN /\ Len(net[i].docs) = 0 /\ Fresh(net[i])
      /\ Owed(net[i]) = 1 /\ net # <<>> /\ ~ NoFresh(net)
  <2>1. Len(net[i].docs) = 0 /\ net[i] \in Reply /\ net[i].open \in BOOLEAN
    BY <1>0, <1>30, ReplyType
  <2>2. Fresh(net[i])
    BY <1>30, <2>1 DEF Fresh
  <2>3. net # <<>>
    BY Fields
  <2>. QED
    BY <2>1, <2>2, <2>3, OwedType DEF NoFresh
<1>3. /\ iter.docsToReceive \in Nat /\ iter.docsBeforeMore \in Int /\ iter.limit \in Nat
      /\ Len(iter.docData) \in Nat /\ Len(given) \in Nat /\ Len(net) \in Nat
      /\ iter.cursorId \in BOOLEAN /\ iter.err \in Errors
      /\ (iter.docData = <<>> <=> Len(iter.docData) = 0)
  BY Fields
<1>4. Due(net, iter.docsToReceive) /\ iter.docsToReceive >= 1
  <2>1. Due(net, iter.docsToReceive)
    BY <1>2 DEF Owing, Linked
  <2>2. iter.docsToReceive >= Len(net)
    BY <1>0, <2>1, DueAtLeast
  <2>. QED
    BY <1>3, <2>1, <2>2
<1>5. iter' \in [docData : Seq(1 .. Total), docsToReceive : Nat, docsBeforeMore : Int,
                 cursorId : BOOLEAN, opLimit : Int, limit : Nat, err : Errors,
                 timedout : BOOLEAN]
  <2>1. /\ iter.docsToReceive - 1 \in Nat /\ (net[i].open \/ iter.cursorId) \in BOOLEAN
        /\ (IF net[i].open THEN iter.err ELSE "ErrNotFound") \in Errors
    <3>1. iter.docsToReceive - 1 \in Nat
      BY <1>3, <1>4
    <3>2. (net[i].open \/ iter.cursorId) \in BOOLEAN
      OBVIOUS
    <3>3. (IF net[i].open THEN iter.err ELSE "ErrNotFound") \in Errors
      BY <1>3 DEF Errors
    <3>. QED
      BY <3>1, <3>2, <3>3
  <2>. QED
    BY <1>30, <2>1 DEF Typed
<1>6. /\ iter'.docData = iter.docData /\ iter'.docsToReceive = iter.docsToReceive - 1
      /\ iter'.docsBeforeMore = iter.docsBeforeMore
      /\ iter'.cursorId = (net[i].open \/ iter.cursorId)
      /\ iter'.opLimit = iter.opLimit /\ iter'.limit = iter.limit
      /\ iter'.err = IF net[i].open THEN iter.err ELSE "ErrNotFound"
  BY <1>30 DEF Typed
<1>7. net' \in Seq(Reply) /\ Removed(net, net', i)
  <2>1. RemoveAt(net, i) \in Seq(Reply) /\ Removed(net, RemoveAt(net, i), i)
    BY <1>0, RemoveAtRemoves
  <2>. QED
    BY <1>30, <2>1
<1>8. OneFresh(net') /\ NoFresh(net')
  <2>1. Left(net, net', i)
    BY <1>0, <1>7, RemovedLeaves
  <2>. QED
    BY <1>0, <1>2, <1>7, <2>1, LeftFresh, RemovedOne
<1>9. \A j \in 1 .. Len(net') : net'[j].at # "asked" /\ ~ Fresh(net'[j])
  BY <1>7, <1>8, ReplyType DEF NoFresh
<1>10. Typed'
  BY <1>1, <1>5, <1>7 DEF Typed, Places
<1>11. Owing'
  <2>1. Due(net', iter.docsToReceive - Owed(net[i]))
    BY <1>0, <1>4, <1>7, DueRemoved
  <2>. QED
    BY <1>2, <1>6, <2>1 DEF Owing
<1>12. AskOk'
  BY <1>1, <1>8 DEF AskOk, Asks
<1>13. HardOk'
  <2>1. Hard(iter.opLimit) => ~ net[i].open
    BY <1>1, <1>2, <1>30 DEF HardOk
  <2>2. Hard(iter.opLimit) => iter'.err # "nil"
    BY <1>6, <2>1
  <2>. QED
    BY <1>6, <1>9, <2>2 DEF HardOk
<1>14. CursorOk'
  <2>1. cursor.open => iter'.cursorId
    BY <1>2, <1>6, <1>30 DEF CursorOk
  <2>2. closed # "clean"
    BY <1>2 DEF CursorOk
  <2>. QED
    BY <1>8, <1>9, <2>1, <2>2 DEF CursorOk
<1>15. ASSUME initial.reserved
       PROVE  i = 1 /\ Len(net) = 1 /\ Len(net') = 0 /\ Coming(net) = 0 /\ Coming(net') = 0
  <2>1. i = 1 /\ Len(net) = 1
    BY <1>2, <1>15, <1>30, OneAsked
  <2>2. Len(net') = 0
    BY <1>7, <2>1 DEF Removed
  <2>3. Unread(net, 1) = 0 /\ Unread(net, 2) = 0
    BY <1>2, <2>1 DEF Unread
  <2>4. Unread(net', 1) = 0 /\ Unread(net', 2) = 0
    BY <2>2 DEF Unread
  <2>. QED
    BY <2>1, <2>2, <2>3, <2>4 DEF Coming
<1>16. OrderOk'
  <2>. SUFFICES ASSUME initial.reserved PROVE OrderOk'
    BY DEF OrderOk
  <2>1. Len(net') = 0 /\ Coming(net) = 0 /\ Coming(net') = 0
    BY <1>15
  <2>2. /\ From(given, 0) /\ From(iter.docData, Len(given))
        /\ cursor.next = Had + Coming(net) + 1
    BY <1>2 DEF OrderOk, Linked
  <2>. QED
    BY <1>6, <2>1, <2>2 DEF OrderOk, Had
<1>17. LimitOk'
  <2>1. user' # "panicked"
    BY <1>1
  <2>. SUFFICES ASSUME Fits(initial), initial.limit # 0 PROVE Bounded'
    BY <1>6, <2>1 DEF LimitOk, Unlimited
  <2>2. Bounded /\ initial.reserved
    BY DEF LimitOk, Fits
  <2>3. Coming(net) = 0 /\ Coming(net') = 0 /\ Len(net) = 1
    BY <1>15, <2>2
  <2>4. Kept' = Kept /\ Kept = Len(iter.docData)
    BY <1>3, <1>6, <2>3 DEF Kept
  <2>5. iter'.err = "nil" => iter.err = "nil"
    BY <1>6
  <2>6. iter.docsBeforeMore >= 0 /\ iter.limit > 0 => Kept < iter.limit
    <3>1. iter.docsBeforeMore >= 0 => iter.docData = <<>>
      BY <1>2, <1>3 DEF AskOk
    <3>. QED
      BY <1>3, <2>4, <3>1
  <2>. HIDE DEF Kept
  <2>. QED
    BY <1>1, <1>6, <1>9, <2>2, <2>4, <2>5, <2>6 DEF Bounded
<1>18. EndOk'
  <2>. SUFFICES ASSUME initial.reserved, Fits(initial), ~ initial.tail PROVE EndOk'
    BY DEF EndOk
  <2>1. /\ Len(net') = 0 /\ Coming(net) = 0 /\ Coming(net') = 0
        /\ Had' = Had /\ Target' = Target /\ AllSent' = AllSent
    BY <1>6, <1>15 DEF Had, Target, AllSent
  <2>2. ASSUME iter'.err = "nil" PROVE iter'.cursorId
    BY <1>6, <2>2
  <2>3. ASSUME iter'.err = "ErrNotFound", closed = "no" PROVE Had = Target
    <3>1. CASE net[i].open
      BY <1>6, <2>3, <3>1 DEF EndOk
    <3>2. CASE ~ net[i].open
      <4>1. AllSent
        BY <1>2, <1>30, <3>2 DEF EndOk
      <4>2. cursor.next = Had + 1
        <5>1. cursor.next = Had + Coming(net) + 1
          BY <1>2 DEF OrderOk, Linked
        <5>2. Had \in Nat
          BY <1>3 DEF Had
        <5>. QED
          BY <2>1, <5>1, <5>2
      <4>3. initial.limit \in Nat /\ Total \in Nat /\ cursor.next \in 1 .. Total + 1
        BY QueryType, Fields
      <4>4. Had \in Nat
        BY <1>3 DEF Had
      <4>5. initial.limit > 0 => Had <= initial.limit
        <5>. SUFFICES ASSUME initial.limit > 0 PROVE Had <= initial.limit
          OBVIOUS
        <5>1. iter.limit + Len(given) = initial.limit /\ Kept <= iter.limit
          BY <4>3 DEF LimitOk, Bounded
        <5>2. Kept = Len(iter.docData)
          BY <1>3, <2>1 DEF Kept
        <5>. QED
          BY <1>3, <5>1, <5>2 DEF Had
      <4>. HIDE DEF Had
      <4>. QED
        BY <4>1, <4>2, <4>3, <4>4, <4>5 DEF AllSent, Target, Lesser
    <3>. QED
      BY <3>1, <3>2
  <2>. QED
    BY <2>1, <2>2, <2>3 DEF EndOk
<1>. QED
  BY <1>8, <1>10, <1>11, <1>12, <1>13, <1>14, <1>16, <1>17, <1>18 DEF IterInd

----------------------------------------------------------------------------
(* The invariant of every iterator                                         *)

LEMMA StartsWell ==
  ASSUME IterInit
  PROVE  IterInd
<1>. DEFINE q == Asked(initial.opLimit)
<1>1. /\ initial \in Queries
      /\ iter = [docData |-> <<>>, docsToReceive |-> 1, docsBeforeMore |-> 0,
                 cursorId |-> FALSE, opLimit |-> initial.opLimit,
                 limit |-> initial.limit, err |-> "nil", timedout |-> FALSE]
      /\ user = "idle" /\ net = <<q>> /\ cursor = [next |-> 1, open |-> FALSE]
      /\ given = <<>> /\ closed = "no"
  BY DEF IterInit
<1>2. /\ initial.limit \in Nat /\ initial.opLimit \in Int /\ initial.opLimit # 1
      /\ Total \in Nat
  BY <1>1, IterAssumption
<1>3. /\ q.at = "asked" /\ q.limit = initial.opLimit /\ q.docs = <<>> /\ q.n = 0
      /\ Len(q.docs) = 0 /\ q \in Reply /\ Fresh(q) /\ Owed(q) = 1
  <2>1. /\ q.at = "asked" /\ q.limit = initial.opLimit /\ q.docs = <<>> /\ q.n = 0
        /\ q.open = FALSE /\ Len(q.docs) = 0
    BY DEF Asked
  <2>2. q \in Reply
    BY <1>2, <2>1 DEF Reply, Asked
  <2>. HIDE DEF q
  <2>. QED
    BY <2>1, <2>2 DEF Fresh, Owed
<1>. HIDE DEF q
<1>4. net \in Seq(Reply) /\ Len(net) = 1 /\ net[1] = q
  BY <1>1, <1>3
<1>5. iter.docData = <<>> /\ Len(iter.docData) = 0 /\ Len(given) = 0
      /\ iter.docData \in Seq(1 .. Total) /\ given \in Seq(1 .. Total)
  BY <1>1
<1>6. /\ iter.docsToReceive = 1 /\ iter.docsBeforeMore = 0 /\ iter.cursorId = FALSE
      /\ iter.opLimit = initial.opLimit /\ iter.limit = initial.limit /\ iter.err = "nil"
      /\ cursor.next = 1 /\ cursor.open = FALSE
  BY <1>1
<1>7. Typed
  BY <1>1, <1>2, <1>4, <1>5 DEF Typed, Errors, Places
<1>8. OneFresh(net) /\ ~ NoFresh(net)
  BY <1>3, <1>4 DEF OneFresh, NoFresh
<1>9. Owing
  <2>0. PICK none \in Seq(Reply) : Len(none) = 0
    <3>1. <<>> \in Seq(Reply) /\ Len(<<>>) = 0
      OBVIOUS
    <3>. QED
      BY <3>1
  <2>1. Added(none, net, q)
    BY <1>4, <2>0 DEF Added
  <2>2. PICK v : Due(none, v)
    BY DueExists
  <2>3. v = 0
    BY <2>0, <2>2, DueAtLeast
  <2>4. Due(net, 0 + Owed(q))
    BY <1>4, <2>1, <2>2, <2>3, DueAdded
  <2>. QED
    BY <1>3, <1>6, <2>4 DEF Owing
<1>10. AskOk
  BY <1>1, <1>4, <1>5 DEF AskOk, Asks
<1>11. HardOk
  BY <1>3, <1>4, <1>6 DEF HardOk
<1>12. CursorOk
  BY <1>1, <1>4, <1>5, <1>6 DEF CursorOk
<1>13. Coming(net) = 0
  <2>1. Unread(net, 1) = 0 /\ Unread(net, 2) = 0
    BY <1>3, <1>4 DEF Unread
  <2>. QED
    BY <2>1 DEF Coming
<1>14. OrderOk
  <2>1. From(given, 0) /\ From(iter.docData, Len(given)) /\ From(q.docs, Had + Behind(net, 1))
    BY <1>3, <1>5 DEF From
  <2>2. \A i \in 1 .. Len(net) : From(net[i].docs, Had + Behind(net, i))
    BY <1>4, <2>1
  <2>3. cursor.next = Had + Coming(net) + 1
    BY <1>5, <1>6, <1>13 DEF Had
  <2>. QED
    BY <1>4, <2>1, <2>2, <2>3 DEF OrderOk
<1>15. LimitOk
  <2>. SUFFICES ASSUME Fits(initial), initial.limit # 0 PROVE Bounded
    BY <1>1, <1>6 DEF LimitOk, Unlimited
  <2>1. Kept = 0
    BY <1>5, <1>13 DEF Kept
  <2>2. initial.opLimit \in 1 .. initial.limit \/ initial.opLimit = - initial.limit
    BY DEF Fits
  <2>3. SizeOk(initial.opLimit)
    BY <1>2, <1>6, <2>1, <2>2 DEF SizeOk, Abs
  <2>4. \A i \in 1 .. Len(net) : net[i].at = "asked" => SizeOk(net[i].limit)
    BY <1>3, <1>4, <2>3
  <2>. QED
    BY <1>1, <1>2, <1>5, <1>6, <1>8, <2>1, <2>2, <2>4 DEF Bounded
<1>16. EndOk
  BY <1>3, <1>4, <1>6, <1>8 DEF EndOk
<1>. QED
  BY <1>7, <1>8, <1>9, <1>10, <1>11, <1>12, <1>14, <1>15, <1>16 DEF IterInd

LEMMA StepsWell ==
  ASSUME IterInd, [IterNext]_iterVars
  PROVE  IterInd'
<1>1. CASE UNCHANGED iterVars
  BY <1>1 DEF iterVars, IterInd, Typed, Owing, Linked, AskOk, HardOk, CursorOk, OrderOk, Had,
              LimitOk, Unlimited, Bounded, Kept, SizeOk, EndOk, AllSent, Target
<1>2. CASE IterNext
  <2>1. CASE ServerReplies
    BY <2>1, ServerRepliesOk
  <2>2. CASE DocArrives
    BY <2>2, DocArrivesOk
  <2>3. CASE EmptyReplyArrives
    BY <2>3, EmptyReplyArrivesOk
  <2>4. CASE ConnectionLost
    BY <2>4, ConnectionLostOk
  <2>5. CASE Starts \/ Waits \/ TimesOut \/ AsksMore
    BY <2>5, StartsOk
  <2>6. CASE TakesLast
    BY <2>6, TakesLastOk
  <2>7. CASE Takes
    BY <2>7, TakesOk
  <2>8. CASE Spoils
    BY <2>8, SpoilsOk
  <2>9. CASE Exhausted
    BY <2>9, ExhaustedOk
  <2>10. CASE AcquiresSocket
    BY <2>10, AcquiresSocketOk
  <2>11. CASE QueriesMore
    BY <2>11, QueriesMoreOk
  <2>12. CASE CloseIter
    BY <2>12, CloseOk
  <2>. QED
    BY <1>2, <2>1, <2>2, <2>3, <2>4, <2>5, <2>6, <2>7, <2>8, <2>9, <2>10, <2>11, <2>12
       DEF IterNext
<1>. QED
  BY <1>1, <1>2

LEMMA FlattenShort ==
  ASSUME NEW S, NEW s \in Seq(Seq(S)), Len(s) <= 2
  PROVE  /\ FlattenSeq(s) \in Seq(S)
         /\ Len(s) = 0 => Len(FlattenSeq(s)) = 0
         /\ Len(s) = 1 => FlattenSeq(s) = s[1]
         /\ Len(s) = 2 => FlattenSeq(s) = s[1] \o s[2]
<1>. PICK n \in Nat : n = Len(s)
  BY LenProperties
<1>1. CASE n = 0
  <2>1. FlattenSeq(s) = s /\ s = <<>>
    BY <1>1, EmptySeq DEF FlattenSeq
  <2>. QED
    BY <1>1, <2>1
<1>2. CASE n \in {1, 2}
  <2>. DEFINE Turn(f, i) == IF i = 1 THEN s[i] ELSE f[i - 1] \o s[i]
              Flattens(f) == f = [i \in 1 .. n |-> Turn(f, i)]
              flatten == CHOOSE f : Flattens(f)
  <2>1. FlattenSeq(s) = flatten[n]
    BY <1>2 DEF FlattenSeq
  <2>2. \E f : Flattens(f)
    <3>. DEFINE f == [i \in 1 .. n |-> IF i = 1 THEN s[1] ELSE s[1] \o s[2]]
    <3>1. \A i \in 1 .. n : i = 1 \/ i = 2
      BY <1>2
    <3>2. ASSUME NEW i \in 1 .. n PROVE f[i] = Turn(f, i)
      <4>1. CASE i = 1
        BY <4>1
      <4>2. CASE i = 2
        <5>1. 1 \in 1 .. n /\ 2 - 1 = 1
          BY <1>2
        <5>2. f[1] = s[1]
          BY <5>1
        <5>3. f[2] = s[1] \o s[2]
          <6>1. 2 \in 1 .. n /\ 2 # 1
            BY <4>2
          <6>. QED
            BY <6>1
        <5>. HIDE DEF f
        <5>. QED
          BY <4>2, <5>1, <5>2, <5>3
      <4>. QED
        BY <3>1, <4>1, <4>2
    <3>3. f = [i \in 1 .. n |-> f[i]]
      OBVIOUS
    <3>. HIDE DEF f, Turn
    <3>4. Flattens(f)
      BY <3>2, <3>3
    <3>. QED
      BY <3>4
  <2>3. Flattens(flatten)
    <3>. HIDE DEF Flattens
    <3>. QED
      BY <2>2
  <2>. HIDE DEF flatten
  <2>4. \A i \in 1 .. n : flatten[i] = Turn(flatten, i)
    <3>. HIDE DEF Turn
    <3>. QED
      BY <2>3
  <2>. HIDE DEF Flattens
  <2>5. 1 \in 1 .. n /\ s[1] \in Seq(S) /\ flatten[1] = s[1]
    <3>1. 1 \in 1 .. n
      BY <1>2
    <3>2. flatten[1] = Turn(flatten, 1)
      BY <2>4, <3>1
    <3>. QED
      BY <3>1, <3>2, ElementOfSeq
  <2>6. CASE n = 1
    BY <2>1, <2>5, <2>6
  <2>7. CASE n = 2
    <3>1. 2 \in 1 .. n
      BY <2>7
    <3>2. s[2] \in Seq(S)
      BY <3>1, ElementOfSeq
    <3>3. flatten[2] = Turn(flatten, 2)
      BY <2>4, <3>1
    <3>4. flatten[2] = s[1] \o s[2]
      <4>1. 2 # 1 /\ 2 - 1 = 1
        OBVIOUS
      <4>2. flatten[2] = flatten[2 - 1] \o s[2]
        BY <3>3, <4>1
      <4>. HIDE DEF Turn
      <4>. QED
        BY <2>5, <4>1, <4>2
    <3>5. s[1] \o s[2] \in Seq(S)
      BY <2>5, <3>2, ConcatProperties
    <3>. QED
      BY <2>1, <2>7, <3>4, <3>5
  <2>. QED
    BY <1>2, <2>6, <2>7
<1>3. n = 0 \/ n \in {1, 2}
  <2>1. n <= 2
    OBVIOUS
  <2>. QED
    BY <2>1
<1>. QED
  BY <1>1, <1>2, <1>3

LEMMA FromConcat ==
  ASSUME NEW S, NEW s \in Seq(S), NEW t \in Seq(S), NEW a \in Nat,
         From(s, a), From(t, a + Len(s))
  PROVE  s \o t \in Seq(S) /\ Len(s \o t) = Len(s) + Len(t) /\ From(s \o t, a)
<1>. PICK m \in Nat, n \in Nat : m = Len(s) /\ n = Len(t)
  BY LenProperties
<1>1. /\ s \o t \in Seq(S) /\ Len(s \o t) = m + n
      /\ \A i \in 1 .. m + n : (s \o t)[i] = IF i <= m THEN s[i] ELSE t[i - m]
  BY ConcatProperties
<1>2. ASSUME NEW i \in 1 .. m + n PROVE (s \o t)[i] = a + i
  <2>1. CASE i <= m
    <3>1. i \in 1 .. m
      BY <2>1
    <3>. QED
      BY <1>1, <2>1, <3>1 DEF From
  <2>2. CASE ~ (i <= m)
    <3>1. i - m \in 1 .. n /\ a + m + (i - m) = a + i
      BY <2>2
    <3>2. t[i - m] = a + m + (i - m)
      BY <3>1 DEF From
    <3>. QED
      BY <1>1, <2>2, <3>1, <3>2
  <2>. QED
    BY <2>1, <2>2
<1>. QED
  BY <1>1, <1>2 DEF From

LEMMA InvOrder ==
  ASSUME IterInd
  PROVE  InOrder
<1>. SUFFICES ASSUME initial.reserved
              PROVE  LET way == given \o iter.docData
                                  \o FlattenSeq([i \in DOMAIN net |-> net[i].docs])
                     IN  way = [i \in 1..Len(way) |-> i]
  BY DEF InOrder
<1>. DEFINE s == [i \in DOMAIN net |-> net[i].docs]
            flat == FlattenSeq(s)
            front == given \o iter.docData
            way == front \o flat
<1>1. /\ Typed /\ Len(net) <= 2 /\ From(given, 0) /\ From(iter.docData, Len(given))
      /\ \A i \in 1 .. Len(net) : From(net[i].docs, Had + Behind(net, i))
  BY DEF IterInd, OrderOk
<1>2. /\ net \in Seq(Reply) /\ given \in Seq(1 .. Total) /\ iter.docData \in Seq(1 .. Total)
      /\ Len(given) \in Nat /\ Len(iter.docData) \in Nat
  BY <1>1, Fields DEF Typed
<1>. PICK n \in Nat : n = Len(net)
  BY <1>2, LenProperties
<1>3. DOMAIN net = 1 .. n
  BY <1>2, LenProperties
<1>4. \A i \in 1 .. n : net[i].docs \in Seq(1 .. Total)
  BY <1>2, ReplyType
<1>5. s \in Seq(Seq(1 .. Total)) /\ Len(s) = n /\ \A i \in 1 .. n : s[i] = net[i].docs
  BY <1>3, <1>4
<1>. HIDE DEF s
<1>6. /\ flat \in Seq(1 .. Total)
      /\ n = 0 => Len(flat) = 0
      /\ n = 1 => flat = s[1]
      /\ n = 2 => flat = s[1] \o s[2]
  BY <1>1, <1>5, FlattenShort
<1>. HIDE DEF flat
<1>7. Had \in Nat /\ Had = Len(given) + Len(iter.docData)
  BY <1>2 DEF Had
<1>8. From(flat, Had)
  <2>1. CASE n = 0
    BY <1>6, <2>1 DEF From
  <2>2. n # 0 => From(s[1], Had) /\ s[1] \in Seq(1 .. Total)
    <3>. SUFFICES ASSUME n # 0 PROVE From(s[1], Had) /\ s[1] \in Seq(1 .. Total)
      OBVIOUS
    <3>1. 1 \in 1 .. n
      OBVIOUS
    <3>2. From(net[1].docs, Had + 0)
      BY <1>1, <3>1 DEF Behind
    <3>. QED
      BY <1>4, <1>5, <1>7, <3>1, <3>2
  <2>3. CASE n = 1
    BY <1>6, <2>2, <2>3
  <2>4. CASE n = 2
    <3>1. 1 \in 1 .. n /\ 2 \in 1 .. n
      BY <2>4
    <3>2. From(net[2].docs, Had + Len(net[1].docs))
      BY <1>1, <3>1 DEF Behind
    <3>3. From(s[2], Had + Len(s[1])) /\ s[2] \in Seq(1 .. Total)
      BY <1>4, <1>5, <3>1, <3>2
    <3>4. From(s[1] \o s[2], Had)
      <4>1. From(s[1], Had) /\ s[1] \in Seq(1 .. Total)
        BY <2>2, <2>4
      <4>2. PICK h \in Nat : h = Had
        BY <1>7
      <4>3. PICK a \in Seq(1 .. Total), b \in Seq(1 .. Total) : a = s[1] /\ b = s[2]
        BY <3>3, <4>1
      <4>4. From(a, h) /\ From(b, h + Len(a))
        BY <3>3, <4>1, <4>2, <4>3
      <4>5. From(a \o b, h)
        BY <4>4, FromConcat
      <4>. QED
        BY <4>2, <4>3, <4>5
    <3>. QED
      BY <1>6, <2>4, <3>4
  <2>. QED
    BY <1>1, <2>1, <2>3, <2>4
<1>9. front \in Seq(1 .. Total) /\ Len(front) = Had /\ From(front, 0)
  <2>1. From(iter.docData, 0 + Len(given))
    BY <1>1, <1>2
  <2>. QED
    BY <1>1, <1>2, <1>7, <2>1, FromConcat
<1>. HIDE DEF front
<1>10. way \in Seq(1 .. Total) /\ From(way, 0)
  <2>1. From(flat, 0 + Len(front))
    BY <1>7, <1>8, <1>9
  <2>. QED
    BY <1>6, <1>9, <2>1, FromConcat
<1>11. way = [i \in 1 .. Len(way) |-> i]
  <2>. HIDE DEF way
  <2>. PICK w \in Nat : w = Len(way)
    BY <1>10, LenProperties
  <2>1. way = [i \in 1 .. w |-> way[i]]
    BY <1>10
  <2>2. \A i \in 1 .. w : way[i] = i
    BY <1>10 DEF From
  <2>. QED
    BY <2>1, <2>2
<1>. QED
  BY <1>11 DEF s, flat, front

LEMMA InvHolds ==
  ASSUME IterInd
  PROVE  IterInv
<1>. Typed /\ Owing /\ CursorOk /\ LimitOk /\ EndOk
  BY DEF IterInd
<1>1. IterTypeOK
  BY DEF Typed, IterTypeOK, Errors, Places
<1>2. OwesExact
  <2>. SUFFICES ASSUME iter.err = "nil"
                PROVE  iter.docsToReceive = OwedSum(net)
    BY DEF OwesExact, OwedSum
  <2>1. Due(net, iter.docsToReceive) /\ net \in Seq(Reply)
    BY DEF Owing, Linked, Typed
  <2>. QED
    BY <2>1, FoldOwes
<1>3. WithinLimit
  <2>. SUFFICES ASSUME Fits(initial), initial.limit > 0 PROVE Len(given) <= initial.limit
    BY DEF LimitOk, WithinLimit
  <2>1. iter.limit + Len(given) = initial.limit
    BY QueryType DEF LimitOk, Bounded
  <2>. QED
    BY <2>1, Fields, QueryType
<1>4. Complete
  <2>. SUFFICES ASSUME initial.reserved, Fits(initial), ~ initial.tail,
                       iter.err = "ErrNotFound", closed = "no", iter.docData = <<>>
                PROVE  Len(given) = Target
    BY DEF Complete, Target
  <2>1. Had = Target
    BY DEF EndOk
  <2>2. Len(given) \in Nat /\ Len(iter.docData) = 0
    BY Fields
  <2>. QED
    BY <2>1, <2>2 DEF Had
<1>5. CursorFreed
  BY DEF CursorOk, CursorFreed
<1>. QED
  BY <1>1, <1>2, <1>3, <1>4, <1>5, InvOrder DEF IterInv

\* An iterator hands out every document once and in order, waits for exactly
\* the documents that still come, keeps to the limit of its query, reports the
\* end only when all were given and leaves no cursor open (Next, getMore and
\* Close of Iter and its replyFunc, session.go).
THEOREM IterCorrect == IterSpec => []IterInv
<1>1. IterInit => IterInd
  BY StartsWell
<1>2. IterInd /\ [IterNext]_iterVars => IterInd'
  BY StepsWell
<1>3. IterInd => IterInv
  BY InvHolds
<1>. QED
  BY <1>1, <1>2, <1>3, PTL DEF IterSpec
=============================================================================
