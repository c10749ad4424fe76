---------------------------- MODULE GridasProofs ----------------------------
(***************************************************************************)
(* Theorems about Gridas, for any numbers of requests and goroutines, any  *)
(* capacity of the channel and any bounds: its inductive invariant IInv;   *)
(* on top of it what a process promises about its requests, the errors     *)
(* collection and a stop; and that it implements StoreAndForward.          *)
(***************************************************************************)
EXTENDS Gridas, SequenceTheorems, TLAPS

USE DEF dbVars, procVars, workVars, historyVars

----------------------------------------------------------------------------
(* Types                                                                   *)

LEMMA TypeInit == ASSUME Init PROVE TypeOK
<1> USE DEF Init
<1>1. DbType
  <2>1. replyColl \in [Pet -> Seq(Kinds)]
    BY EmptySeq
  <2>. QED
    BY <2>1 DEF DbType
<1>2. ChannelType
  BY EmptySeq, ConstantsAssumption DEF ChannelType
<1>3. MainType
  BY DEF MainType, MainStates
<1>4. ServeType
  BY DEF ServeType, ServeStates
<1>5. RelayType
  <2>1. \A c \in Consumers : ~Relaying(c)
    BY DEF Relaying, Working
  <2>2. relay \in [Consumers -> RelayStates] /\ result \in [Consumers -> Kinds]
    BY DEF RelayStates, Kinds
  <2>. QED
    BY <2>1, <2>2, ConstantsAssumption DEF RelayType
<1>6. HistoryType
  BY DEF HistoryType
<1>. QED
  BY <1>1, <1>2, <1>3, <1>4, <1>5, <1>6 DEF TypeOK

\* Halt leaves types as they are.
LEMMA TypeHalt ==
  ASSUME TypeOK, Halt, HistoryType',
         UNCHANGED <<petColl, replyColl, errColl, answer>>
  PROVE  TypeOK'
<1> USE DEF Halt, TypeOK
<1>1. DbType'
  BY DEF DbType
<1>2. ChannelType'
  BY EmptySeq, ConstantsAssumption DEF ChannelType
<1>3. MainType'
  BY DEF MainType, MainStates
<1>4. ServeType'
  BY DEF ServeType, ServeStates
<1>5. RelayType'
  <2>1. \A c \in Consumers : ~Relaying(c)'
    BY DEF Relaying, Working
  <2>2. relay' \in [Consumers -> RelayStates] /\ result' \in [Consumers -> Kinds]
    BY DEF RelayStates, Kinds
  <2>. QED
    BY <2>1, <2>2, ConstantsAssumption DEF RelayType
<1>. QED
  BY <1>1, <1>2, <1>3, <1>4, <1>5

\* A petition received by a goroutine leaves the types as they are.
LEMMA TypeReceive ==
  ASSUME TypeOK, NEW c \in Consumers, NEW p \in Pet, Receive(c, p),
         UNCHANGED <<retry, result>>
  PROVE  RelayType'
  BY DEF Receive, TypeOK, RelayType, RelayStates, Working, Relaying

\* So does a petition sent to the channel.
LEMMA TypeSend ==
  ASSUME TypeOK, NEW p \in Pet, Send(p), UNCHANGED <<retry, result>>
  PROVE  ChannelType' /\ RelayType'
<1>1. CASE UNCHANGED reqChan
  BY <1>1, TypeReceive DEF Send, TypeOK, ChannelType
<1>2. CASE /\ Len(reqChan) < QueueSize
           /\ reqChan' = Append(reqChan, p)
           /\ UNCHANGED <<relay, job, late>>
  <2>1. RelayType'
    BY <1>2 DEF TypeOK, RelayType, Relaying
  <2>2. ChannelType'
    BY <1>2, ConstantsAssumption, AppendProperties DEF TypeOK, ChannelType
  <2>. QED
    BY <2>1, <2>2
<1>. QED
  BY <1>1, <1>2 DEF Send

\* Every step leaves the types as they are.
LEMMA TypeStep == ASSUME TypeOK, [Next]_vars PROVE TypeOK'
<1> USE DEF TypeOK
<1>1. CASE Start
  <2>1. RelayType'
    BY <1>1 DEF Start, RelayType, Relaying, RelayStates, Working
  <2>2. MainType' /\ HistoryType'
    BY <1>1 DEF Start, MainType, MainStates, HistoryType
  <2>. QED
    BY <1>1, <2>1, <2>2 DEF Start, DbType, ChannelType, ServeType
<1>2. ASSUME NEW p \in Pet, Reenqueue(p) PROVE TypeOK'
  <2>1. ChannelType' /\ RelayType'
    BY <1>2, TypeSend DEF Reenqueue
  <2>. QED
    BY <1>2, <2>1
    DEF Reenqueue, DbType, MainType, ServeType, HistoryType
<1>3. CASE RecoverReturns
  <2>1. MainType'
    BY <1>3 DEF RecoverReturns, MainType, MainStates
  <2>. QED
    BY <1>3, <2>1
    DEF RecoverReturns, DbType, ChannelType, ServeType, RelayType, Relaying,
        HistoryType
<1>4. CASE RecoverFails
  <2>1. HistoryType'
    BY <1>4 DEF RecoverFails, HistoryType
  <2>. QED
    BY <1>4, <2>1, TypeHalt DEF RecoverFails
<1>5. ASSUME NEW p \in Pet, Arrive(p) PROVE TypeOK'
  <2>1. ServeType'
    BY <1>5 DEF Arrive, Refuse, ServeType, ServeStates
  <2>. QED
    BY <1>5, <2>1
    DEF Arrive, DbType, ChannelType, MainType, RelayType, Relaying,
        HistoryType
<1>6. ASSUME NEW p \in Pet, ServeHTTP(p) PROVE TypeOK'
  <2>1. CASE InsertPetition(p)
    <3>1. ServeType'
      BY <2>1 DEF InsertPetition, Refuse, ServeType, ServeStates
    <3>2. DbType' /\ HistoryType'
      BY <2>1 DEF InsertPetition, Operation, DbType, HistoryType
    <3>. QED
      BY <2>1, <3>1, <3>2
      DEF InsertPetition, ChannelType, MainType, RelayType, Relaying
  <2>2. CASE Enqueue(p)
    <3>1. ChannelType' /\ RelayType'
      BY <2>2, TypeSend DEF Enqueue
    <3>2. ServeType'
      BY <2>2 DEF Enqueue, ServeType, ServeStates
    <3>. QED
      BY <2>2, <3>1, <3>2 DEF Enqueue, DbType, MainType, HistoryType
  <2>3. CASE AnswerBusy(p)
    <3>1. ServeType'
      BY <2>3 DEF AnswerBusy, ServeType, ServeStates
    <3>. QED
      BY <2>3, <3>1
      DEF AnswerBusy, DbType, ChannelType, MainType, RelayType, Relaying,
          HistoryType
  <2>4. CASE RemoveRefused(p)
    <3>1. ServeType'
      BY <2>4 DEF RemoveRefused, ServeType, ServeStates
    <3>2. DbType' /\ HistoryType'
      BY <2>4 DEF RemoveRefused, Operation, DbType, HistoryType
    <3>. QED
      BY <2>4, <3>1, <3>2
      DEF RemoveRefused, ChannelType, MainType, RelayType, Relaying
  <2>. QED
    BY <1>6, <2>1, <2>2, <2>3, <2>4 DEF ServeHTTP
<1>7. ASSUME NEW c \in Consumers, Relay(c) PROVE TypeOK'
  <2> USE DEF Goto
  <2>1. CASE OuterSelect(c) \/ WaitEnds(c) \/ MakeReply(c)
    <3>1. RelayType'
      BY <2>1
      DEF OuterSelect, WaitEnds, MakeReply, RelayType, Relaying, RelayStates,
          Working
    <3>. QED
      BY <2>1, <3>1
      DEF OuterSelect, WaitEnds, MakeReply, DbType, ChannelType, MainType,
          ServeType, HistoryType
  <2>2. CASE Take(c)
    <3>1. Head(reqChan) \in Pet /\ ChannelType'
      BY <2>2, ConstantsAssumption, HeadTailProperties
      DEF Take, ChannelType
    <3>2. RelayType'
      BY <2>2, <3>1, TypeReceive DEF Take
    <3>. QED
      BY <2>2, <3>1, <3>2 DEF Take, DbType, MainType, ServeType, HistoryType
  <2>3. CASE Attempt(c)
    <3>1. RelayType'
      BY <2>3, ConstantsAssumption
      DEF Attempt, RelayType, Relaying, RelayStates, Working, Kinds
    <3>2. HistoryType'
      <4>1. attempts' = [attempts EXCEPT ![job[c]] = @ + 1]
        BY <2>3 DEF Attempt
      <4>2. job[c] \in Pet /\ attempts[job[c]] + 1 \in Nat
        BY <2>3 DEF Attempt, RelayType, Relaying, Working, HistoryType
      <4>3. attempts' \in [Pet -> Nat]
        BY <4>1, <4>2 DEF HistoryType
      <4>. QED
        BY <2>3, <4>3 DEF Attempt, HistoryType
    <3>. QED
      BY <2>3, <3>1, <3>2 DEF Attempt, DbType, ChannelType, MainType, ServeType
  <2>4. CASE InsertError(c)
    <3>1. job[c] \in Pet /\ result[c] \in Kinds
      BY <2>4 DEF InsertError, RelayType, Relaying, Working
    <3>2. errColl' = errColl
          \/ errColl' = [errColl EXCEPT ![job[c]] = @ \cup {result[c]}]
      BY <2>4 DEF InsertError
    <3>3. errColl' \in [Pet -> SUBSET Kinds]
      <4>1. errColl \in [Pet -> SUBSET Kinds]
        BY DEF DbType
      <4>2. errColl[job[c]] \cup {result[c]} \in SUBSET Kinds
        BY <3>1, <4>1
      <4>. QED
        BY <3>1, <3>2, <4>1, <4>2
    <3>4. DbType' /\ HistoryType'
      BY <2>4, <3>3 DEF InsertError, Operation, DbType, HistoryType
    <3>5. RelayType'
      BY <2>4 DEF InsertError, RelayType, Relaying, RelayStates, Working
    <3>. QED
      BY <2>4, <3>4, <3>5 DEF InsertError, ChannelType, MainType, ServeType
  <2>5. CASE InsertReply(c)
    <3>1. job[c] \in Pet /\ result[c] \in Kinds
      BY <2>5 DEF InsertReply, RelayType, Relaying, Working
    <3>2. Append(replyColl[job[c]], result[c]) \in Seq(Kinds)
      BY <3>1, AppendProperties DEF DbType
    <3>3. DbType' /\ HistoryType'
      BY <2>5, <3>1, <3>2 DEF InsertReply, Operation, DbType, HistoryType
    <3>4. RelayType'
      BY <2>5 DEF InsertReply, RelayType, Relaying, RelayStates, Working
    <3>. QED
      BY <2>5, <3>3, <3>4 DEF InsertReply, ChannelType, MainType, ServeType
  <2>6. CASE RemovePetition(c)
    <3>1. RelayType'
      BY <2>6, ConstantsAssumption
      DEF RemovePetition, RelayType, Relaying, RelayStates, Working, Kinds
    <3>2. DbType' /\ HistoryType'
      BY <2>6 DEF RemovePetition, Operation, DbType, HistoryType
    <3>. QED
      BY <2>6, <3>1, <3>2 DEF RemovePetition, ChannelType, MainType, ServeType
  <2>. QED
    BY <1>7, <2>1, <2>2, <2>3, <2>4, <2>5, <2>6 DEF Relay
<1>8. ASSUME NEW c \in Consumers, ReplyPanics(c) PROVE TypeOK'
  <2>1. HistoryType'
    BY <1>8 DEF ReplyPanics, HistoryType
  <2>. QED
    BY <1>8, <2>1, TypeHalt DEF ReplyPanics
<1>9. CASE StopListener \/ StopConsumer
  <2>1. MainType'
    BY <1>9 DEF StopListener, StopConsumer, MainType
  <2>. QED
    BY <1>9, <2>1
    DEF StopListener, StopConsumer, DbType, ChannelType, ServeType, RelayType,
        Relaying, HistoryType
<1>10. CASE Exit \/ Crash
  <2>1. HistoryType'
    BY <1>10 DEF Exit, Crash, HistoryType
  <2>. QED
    BY <1>10, <2>1, TypeHalt DEF Exit, Crash
<1>11. CASE UNCHANGED vars
  BY <1>11
  DEF vars, DbType, ChannelType, MainType, ServeType, RelayType, Relaying,
      HistoryType
<1>. QED
  BY <1>1, <1>2, <1>3, <1>4, <1>5, <1>6, <1>7, <1>8, <1>9, <1>10, <1>11
  DEF Next, Recover, Retired

----------------------------------------------------------------------------
(* The inductive invariant: steps that several actions have in common      *)

LEMMA MishapsType == ASSUME TypeOK PROVE Mishaps \in Nat
  BY DEF Mishaps, TypeOK, HistoryType

\* An operation on the database is at most one mishap.
LEMMA OneFault ==
  ASSUME TypeOK, faults' \in {faults, faults + 1}, crashes' = crashes
  PROVE  /\ Mishaps' \in {Mishaps, Mishaps + 1}
         /\ faults' = faults + 1 => Mishaps' = Mishaps + 1
<1>1. \A c, f \in Nat : c + (f + 1) = (c + f) + 1
  OBVIOUS
<1>2. CASE faults' = faults
  BY <1>2 DEF Mishaps, TypeOK, HistoryType
<1>3. CASE faults' = faults + 1
  BY <1>1, <1>3 DEF Mishaps, TypeOK, HistoryType
<1>. QED
  BY <1>2, <1>3

LEMMA InvInit == ASSUME Init PROVE IInv
<1>1. TypeOK
  BY TypeInit
<1>2. /\ main = "down" /\ ~stopping /\ ~endChan /\ seen = {}
      /\ petColl = {} /\ unsaved = {} /\ crashes = 0 /\ faults = 0
      /\ \A p \in Pet : serve[p] = "idle" /\ answer[p] = 0
      /\ \A c \in Consumers : relay[c] = "off" /\ late[c] = 0
  BY DEF Init
<1>3. \A p \in Pet : replyColl[p] = <<>>
  BY DEF Init
<1>4. reqChan = <<>>
  BY DEF Init
<1>5. Len(reqChan) = 0
  BY <1>1, <1>4, EmptySeq DEF TypeOK, ChannelType
<1>6. \A p \in Pet : ~Queued(p) /\ ~Worked(p)
  <2>1. \A i \in 1..Len(reqChan) : FALSE
    BY <1>5
  <2>. QED
    BY <1>2, <2>1 DEF Queued, Worked, Relaying, Working
<1>7. NoDoubleDispatch
  BY <1>2, <1>5 DEF NoDoubleDispatch, Relaying, Working
<1>8. PhaseInv /\ FreshInv /\ InFlightStored /\ HandOverInv
  BY <1>2, <1>3, <1>4, <1>6 DEF PhaseInv, FreshInv, InFlightStored, HandOverInv
<1>9. RemoveInv /\ AcceptedNotLost /\ LateInv
  BY <1>2 DEF RemoveInv, AcceptedNotLost, LateInv
<1>10. ReplyInv
  <2> SUFFICES ASSUME NEW p \in Pet
               PROVE  /\ Len(replyColl[p]) <= 1 + Mishaps
                      /\ Len(replyColl[p]) <= Mishaps
    BY DEF ReplyInv
  <2>1. replyColl[p] = <<>>
    BY <1>3
  <2>2. Len(replyColl[p]) = 0
    BY <2>1, EmptySeq
  <2>3. Mishaps \in Nat
    BY <1>1, MishapsType
  <2>. QED
    BY <2>2, <2>3
<1>. QED
  BY <1>1, <1>7, <1>8, <1>9, <1>10 DEF IInv

\* A step without a new reply keeps ReplyInv if it stores only petitions that
\* have no reply, and if a goroutine that was about to remove a petition still
\* is, has removed it, or was hindered by a crash or a fault.
LEMMA NoReplyStep ==
  ASSUME IInv, TypeOK', replyColl' = replyColl,
         Mishaps' \in {Mishaps, Mishaps + 1},
         \A p \in Pet : p \in petColl' => p \in petColl \/ replyColl[p] = <<>>,
         \/ Mishaps' = Mishaps + 1
         \/ \A c \in Consumers :
              relay[c] = "remove" =>
                  \/ relay'[c] = "remove" /\ job'[c] = job[c]
                  \/ job[c] \notin petColl'
  PROVE  ReplyInv'
<1> SUFFICES ASSUME NEW p \in Pet
             PROVE  /\ Len(replyColl[p]) <= 1 + Mishaps'
                    /\ \/ Len(replyColl[p]) <= Mishaps'
                       \/ p \notin petColl'
                       \/ \E c \in Consumers : relay'[c] = "remove" /\ job'[c] = p
  BY DEF ReplyInv
<1>1. Mishaps \in Nat /\ Len(replyColl[p]) \in Nat
  BY MishapsType, LenProperties DEF IInv, TypeOK, DbType
<1>2. /\ Len(replyColl[p]) <= 1 + Mishaps
      /\ \/ Len(replyColl[p]) <= Mishaps
         \/ p \notin petColl
         \/ \E c \in Consumers : relay[c] = "remove" /\ job[c] = p
  BY DEF IInv, ReplyInv
<1>3. CASE Mishaps' = Mishaps + 1
  BY <1>1, <1>2, <1>3
<1>4. CASE Mishaps' = Mishaps
  <2>1. CASE p \in petColl' /\ replyColl[p] = <<>>
    BY <1>1, <1>4, <2>1, EmptySeq
  <2>2. CASE p \notin petColl'
    BY <1>2, <1>4, <2>2
  <2>3. CASE p \in petColl' /\ p \in petColl
    BY <1>1, <1>2, <1>4, <2>3
  <2>. QED
    BY <2>1, <2>2, <2>3
<1>. QED
  BY <1>3, <1>4

\* The end of the process keeps the invariant if it is counted as a crash or
\* as a fault, or if no goroutine was about to remove its petition.
LEMMA InvHalt ==
  ASSUME IInv, TypeOK', Halt, UNCHANGED <<petColl, replyColl, unsaved, answer>>,
         \/ Mishaps' = Mishaps + 1
         \/ Mishaps' = Mishaps /\ \A c \in Consumers : relay[c] # "remove"
  PROVE  IInv'
<1> USE DEF Halt, IInv
<1>1. \A p \in Pet : ~Queued(p)' /\ ~Worked(p)'
  BY DEF Queued, Worked, Relaying, Working
<1>2. \A p \in Pet : serve'[p] \in {"idle", "done"}
  OBVIOUS
<1>3. PhaseInv' /\ LateInv' /\ AcceptedNotLost'
  BY <1>2 DEF PhaseInv, LateInv, AcceptedNotLost, Replied
<1>4. FreshInv' /\ InFlightStored' /\ HandOverInv' /\ RemoveInv'
  BY <1>1, <1>2 DEF FreshInv, InFlightStored, HandOverInv, RemoveInv
<1>5. NoDoubleDispatch'
  BY DEF NoDoubleDispatch, Relaying, Working
<1>6. ReplyInv'
  BY NoReplyStep
<1>. QED
  BY <1>3, <1>4, <1>5, <1>6

\* A goroutine of the consumer goes on to another line of relay() or of
\* process(), its petition and the collection of petitions being what they
\* were.
LEMMA InvMove ==
  ASSUME IInv, TypeOK',
         UNCHANGED <<petColl, replyColl, reqChan, main, seen, endChan,
                     stopping, serve, answer, job, late, unsaved>>,
         Mishaps' \in {Mishaps, Mishaps + 1},
         \A c \in Consumers :
             /\ Relaying(c)' <=> Relaying(c)
             /\ relay'[c] = "off" <=> relay[c] = "off"
             /\ relay'[c] = "remove" <=> relay[c] = "remove"
             /\ relay'[c] = "wait" => late[c] = 0
  PROVE  IInv'
<1> USE DEF IInv
<1>1. \A p \in Pet : (Queued(p)' <=> Queued(p)) /\ (Worked(p)' <=> Worked(p))
  BY DEF Queued, Worked
<1>2. PhaseInv' /\ LateInv' /\ AcceptedNotLost'
  BY DEF PhaseInv, LateInv, AcceptedNotLost, Replied
<1>3. FreshInv' /\ InFlightStored' /\ HandOverInv' /\ RemoveInv'
  BY <1>1 DEF FreshInv, InFlightStored, HandOverInv, RemoveInv, Replied
<1>4. NoDoubleDispatch'
  BY <1>1 DEF NoDoubleDispatch, Queued
<1>5. ReplyInv'
  BY NoReplyStep
<1>. QED
  BY <1>2, <1>3, <1>4, <1>5

\* What a goroutine that receives a petition changes.
LEMMA Received ==
  ASSUME IInv, NEW c \in Consumers, NEW p \in Pet, relay[c] = "wait",
         Receive(c, p), UNCHANGED endChan
  PROVE  /\ Relaying(c)' => job'[c] = p
         /\ \A d \in Consumers \ {c} : relay'[d] = relay[d] /\ job'[d] = job[d]
         /\ relay'[c] \notin {"off", "remove", "wait"}
         /\ LateInv'
<1> USE DEF IInv, TypeOK, RelayType
<1>1. /\ \A d \in Consumers \ {c} :
           relay'[d] = relay[d] /\ job'[d] = job[d] /\ late'[d] = late[d]
      /\ relay'[c] \in {"loop", "request"}
      /\ Relaying(c)' => job'[c] = p
      /\ late'[c] = IF endChan THEN late[c] + 1 ELSE late[c]
  BY DEF Receive, Relaying, Working
<1>2. late[c] = 0
  BY DEF LateInv
<1>3. \A d \in Consumers : late'[d] <= 1
  BY <1>1, <1>2 DEF LateInv
<1>4. LateInv'
  BY <1>1, <1>2, <1>3 DEF LateInv
<1>. QED
  BY <1>1, <1>4

\* A petition that nobody has, sent to the channel, is then in one place.
LEMMA Sent ==
  ASSUME IInv, NEW p \in Pet, ~Queued(p), ~Worked(p), Send(p),
         UNCHANGED endChan
  PROVE  /\ \A q \in Pet : Queued(q)' \/ Worked(q)'
                               => Queued(q) \/ Worked(q) \/ q = p
         /\ NoDoubleDispatch'
         /\ \A c \in Consumers :
              /\ relay'[c] = "off" <=> relay[c] = "off"
              /\ relay'[c] = "remove" <=> relay[c] = "remove"
              /\ relay[c] = "remove" => job'[c] = job[c]
         /\ LateInv'
<1> USE DEF IInv
<1>1. CASE /\ reqChan' = Append(reqChan, p)
           /\ UNCHANGED <<relay, job, late>>
  <2>1. /\ reqChan \in Seq(Pet) /\ Len(reqChan) \in Nat
        /\ Len(reqChan') = Len(reqChan) + 1
        /\ \A i \in 1..Len(reqChan) : reqChan'[i] = reqChan[i]
        /\ reqChan'[Len(reqChan) + 1] = p
    BY <1>1, AppendProperties, LenProperties DEF TypeOK, ChannelType
  <2>2. \A i \in 1..Len(reqChan') : i \in 1..Len(reqChan) \/ reqChan'[i] = p
    BY <2>1
  <2>3. \A q \in Pet : Queued(q)' => Queued(q) \/ q = p
    BY <2>1, <2>2 DEF Queued
  <2>4. \A q \in Pet : Worked(q)' <=> Worked(q)
    BY <1>1 DEF Worked, Relaying
  <2>5. \A i, j \in 1..Len(reqChan') : reqChan'[i] = reqChan'[j] => i = j
    <3> SUFFICES ASSUME NEW i \in 1..Len(reqChan'), NEW j \in 1..Len(reqChan'),
                        reqChan'[i] = reqChan'[j]
                 PROVE  i = j
      OBVIOUS
    <3>1. CASE i \in 1..Len(reqChan) /\ j \in 1..Len(reqChan)
      BY <2>1, <3>1 DEF NoDoubleDispatch
    <3>2. CASE i \notin 1..Len(reqChan) /\ j \notin 1..Len(reqChan)
      BY <2>1, <3>2
    <3>3. CASE i \in 1..Len(reqChan) /\ j \notin 1..Len(reqChan)
      BY <2>1, <2>2, <3>3 DEF Queued
    <3>4. CASE i \notin 1..Len(reqChan) /\ j \in 1..Len(reqChan)
      BY <2>1, <2>2, <3>4 DEF Queued
    <3>. QED
      BY <3>1, <3>2, <3>3, <3>4
  <2>6. ASSUME NEW c \in Consumers, Relaying(c)'
        PROVE  /\ ~Queued(job[c])'
               /\ \A d \in Consumers \ {c} : Relaying(d)' => job[d] # job[c]
    <3>1. Relaying(c) /\ job[c] \in Pet
      BY <1>1, <2>6 DEF Relaying, TypeOK, RelayType
    <3>2. job[c] # p
      BY <3>1 DEF Worked
    <3>. QED
      BY <1>1, <2>3, <3>1, <3>2 DEF NoDoubleDispatch, Relaying
  <2>7. NoDoubleDispatch'
    BY <1>1, <2>5, <2>6 DEF NoDoubleDispatch, Queued
  <2>8. LateInv'
    BY <1>1 DEF LateInv
  <2>. QED
    BY <1>1, <2>3, <2>4, <2>7, <2>8
<1>2. ASSUME NEW c \in Consumers, relay[c] = "wait", Receive(c, p),
             UNCHANGED reqChan
      PROVE  /\ \A q \in Pet : Queued(q)' \/ Worked(q)'
                                   => Queued(q) \/ Worked(q) \/ q = p
             /\ NoDoubleDispatch'
             /\ \A d \in Consumers :
                  /\ relay'[d] = "off" <=> relay[d] = "off"
                  /\ relay'[d] = "remove" <=> relay[d] = "remove"
                  /\ relay[d] = "remove" => job'[d] = job[d]
             /\ LateInv'
  <2>1. /\ Relaying(c)' => job'[c] = p
        /\ \A d \in Consumers \ {c} : relay'[d] = relay[d] /\ job'[d] = job[d]
        /\ relay'[c] \notin {"off", "remove", "wait"}
        /\ LateInv'
    BY <1>2, Received
  <2>2. \A q : Queued(q)' <=> Queued(q)
    BY <1>2 DEF Queued
  <2>3. \A q \in Pet : Worked(q)' => Worked(q) \/ q = p
    BY <2>1 DEF Worked, Relaying
  <2>4. ASSUME NEW d \in Consumers, Relaying(d)'
        PROVE  /\ ~Queued(job'[d])
               /\ \A e \in Consumers \ {d} : Relaying(e)' => job'[e] # job'[d]
    BY <2>1, <2>4 DEF NoDoubleDispatch, Worked, Relaying
  <2>5. NoDoubleDispatch'
    BY <1>2, <2>2, <2>4 DEF NoDoubleDispatch, Queued
  <2>. QED
    BY <1>2, <2>1, <2>2, <2>3, <2>5
<1>. QED
  BY <1>1, <1>2 DEF Send

----------------------------------------------------------------------------
(* The inductive invariant: the steps of main() and of the recoverer       *)

LEMMA StartInv == ASSUME IInv, TypeOK', Start PROVE IInv'
<1> USE DEF IInv, Start
<1>1. \A p \in Pet : ~Queued(p)' /\ ~Worked(p)'
  <2>1. reqChan = <<>>
    BY DEF PhaseInv
  <2>2. \A i \in 1..Len(reqChan) : FALSE
    BY <2>1, EmptySeq
  <2>. QED
    BY <2>2 DEF Queued, Worked, Relaying, Working
<1>2. \A c \in Consumers : relay[c] = "off" /\ relay'[c] = "loop"
  BY DEF PhaseInv
<1>3. PhaseInv' /\ LateInv' /\ AcceptedNotLost'
  BY <1>2 DEF PhaseInv, LateInv, AcceptedNotLost, Replied
<1>4. FreshInv' /\ InFlightStored' /\ HandOverInv' /\ RemoveInv'
  BY <1>1, <1>2
  DEF PhaseInv, FreshInv, InFlightStored, HandOverInv, RemoveInv
<1>5. NoDoubleDispatch'
  BY <1>2 DEF NoDoubleDispatch, Relaying, Working
<1>6. ReplyInv'
  BY <1>2 DEF ReplyInv, Mishaps
<1>. QED
  BY <1>3, <1>4, <1>5, <1>6

LEMMA ReenqueueInv ==
  ASSUME IInv, TypeOK', NEW p \in Pet, Reenqueue(p) PROVE IInv'
<1> USE DEF IInv, Reenqueue
<1>1. p \in petColl /\ ~Queued(p) /\ ~Worked(p)
  BY DEF HandOverInv
<1>2. /\ \A q \in Pet : Queued(q)' \/ Worked(q)'
                            => Queued(q) \/ Worked(q) \/ q = p
      /\ NoDoubleDispatch'
      /\ \A c \in Consumers :
           /\ relay'[c] = "off" <=> relay[c] = "off"
           /\ relay'[c] = "remove" <=> relay[c] = "remove"
           /\ relay[c] = "remove" => job'[c] = job[c]
      /\ LateInv'
  BY <1>1, Sent
<1>3. \A q \in Pet : serve[q] \in {"idle", "done"}
  BY DEF PhaseInv
<1>4. PhaseInv' /\ FreshInv' /\ InFlightStored' /\ HandOverInv'
  BY <1>1, <1>2, <1>3
  DEF PhaseInv, FreshInv, InFlightStored, HandOverInv
<1>5. RemoveInv' /\ AcceptedNotLost' /\ ReplyInv'
  BY <1>2 DEF RemoveInv, AcceptedNotLost, ReplyInv, Mishaps, Replied
<1>. QED
  BY <1>2, <1>4, <1>5

LEMMA MainInv ==
  ASSUME IInv, TypeOK', RecoverReturns \/ StopListener \/ StopConsumer
  PROVE  IInv'
<1> USE DEF IInv, RecoverReturns, StopListener, StopConsumer
<1>1. \A p \in Pet : (Queued(p)' <=> Queued(p)) /\ (Worked(p)' <=> Worked(p))
  BY DEF Queued, Worked, Relaying
<1>2. PhaseInv' /\ LateInv' /\ AcceptedNotLost'
  BY DEF PhaseInv, LateInv, AcceptedNotLost, Replied, TypeOK, MainType
<1>3. FreshInv' /\ InFlightStored' /\ HandOverInv' /\ RemoveInv'
  BY <1>1 DEF FreshInv, InFlightStored, HandOverInv, RemoveInv, Replied
<1>4. NoDoubleDispatch'
  BY <1>1 DEF NoDoubleDispatch, Queued, Relaying
<1>5. ReplyInv'
  BY DEF ReplyInv, Mishaps
<1>. QED
  BY <1>2, <1>3, <1>4, <1>5

----------------------------------------------------------------------------
(* The inductive invariant: the steps of the listener                      *)

LEMMA ArriveInv ==
  ASSUME IInv, TypeOK', NEW p \in Pet, Arrive(p) PROVE IInv'
<1> USE DEF IInv
<1>1. /\ serve[p] = "idle" /\ main = "serving"
      /\ \/ serve'[p] = "done" /\ answer'[p] \in {400, 503}
         \/ serve'[p] = "insert" /\ answer'[p] = answer[p]
      /\ \A q \in Pet \ {p} : serve'[q] = serve[q] /\ answer'[q] = answer[q]
      /\ UNCHANGED <<dbVars, reqChan, procVars, workVars, historyVars, faults>>
  BY DEF Arrive, Refuse, TypeOK, ServeType
<1>2. \A q \in Pet : (Queued(q)' <=> Queued(q)) /\ (Worked(q)' <=> Worked(q))
  BY <1>1 DEF Queued, Worked, Relaying
<1>3. PhaseInv' /\ LateInv' /\ ReplyInv'
  BY <1>1 DEF PhaseInv, LateInv, ReplyInv, Mishaps
<1>4. FreshInv' /\ AcceptedNotLost' /\ RemoveInv'
  BY <1>1 DEF FreshInv, AcceptedNotLost, RemoveInv, Replied
<1>5. InFlightStored' /\ HandOverInv'
  BY <1>1, <1>2 DEF InFlightStored, HandOverInv
<1>6. NoDoubleDispatch'
  BY <1>1, <1>2 DEF NoDoubleDispatch, Queued, Relaying
<1>. QED
  BY <1>3, <1>4, <1>5, <1>6

LEMMA InsertPetitionInv ==
  ASSUME IInv, TypeOK', NEW p \in Pet, InsertPetition(p) PROVE IInv'
<1> USE DEF IInv
<1>1. /\ serve[p] = "insert"
      /\ \/ /\ serve'[p] = "enqueue" /\ answer'[p] = answer[p]
            /\ petColl' = petColl \cup {p}
         \/ /\ serve'[p] = "done" /\ answer'[p] = 500
            /\ petColl' \in {petColl, petColl \cup {p}}
      /\ \A q \in Pet \ {p} : serve'[q] = serve[q] /\ answer'[q] = answer[q]
      /\ faults' \in {faults, faults + 1}
      /\ UNCHANGED <<replyColl, reqChan, procVars, workVars, historyVars>>
  BY DEF InsertPetition, Operation, Outcomes, Applied, Refuse, TypeOK,
         ServeType
<1>2. main = "serving"
  BY <1>1 DEF PhaseInv
<1>3. ~Queued(p) /\ ~Worked(p) /\ replyColl[p] = <<>> /\ p \notin petColl
  BY <1>1 DEF FreshInv, InFlightStored
<1>4. \A q \in Pet : (Queued(q)' <=> Queued(q)) /\ (Worked(q)' <=> Worked(q))
  BY <1>1 DEF Queued, Worked, Relaying
<1>5. PhaseInv' /\ LateInv'
  BY <1>1, <1>2 DEF PhaseInv, LateInv
<1>6. FreshInv' /\ AcceptedNotLost' /\ RemoveInv'
  BY <1>1, <1>2 DEF FreshInv, AcceptedNotLost, RemoveInv, Replied
<1>7. InFlightStored' /\ HandOverInv'
  BY <1>1, <1>2, <1>3, <1>4 DEF InFlightStored, HandOverInv
<1>8. NoDoubleDispatch'
  BY <1>1, <1>4 DEF NoDoubleDispatch, Queued, Relaying
<1>9. ReplyInv'
  <2>1. Mishaps' \in {Mishaps, Mishaps + 1}
    BY <1>1, OneFault
  <2>. QED
    BY <1>1, <1>3, <2>1, NoReplyStep
<1>. QED
  BY <1>5, <1>6, <1>7, <1>8, <1>9

LEMMA EnqueueInv ==
  ASSUME IInv, TypeOK', NEW p \in Pet, Enqueue(p) PROVE IInv'
<1> USE DEF IInv
<1>1. /\ serve[p] = "enqueue" /\ serve'[p] = "done"
      /\ \A q \in Pet \ {p} : serve'[q] = serve[q] /\ answer'[q] = answer[q]
      /\ Send(p)
      /\ UNCHANGED <<dbVars, procVars, historyVars, faults>>
  BY DEF Enqueue, TypeOK, ServeType
<1>2. p \in petColl /\ ~Queued(p) /\ ~Worked(p) /\ main = "serving"
  BY <1>1 DEF InFlightStored, HandOverInv, PhaseInv
<1>3. /\ \A q \in Pet : Queued(q)' \/ Worked(q)'
                            => Queued(q) \/ Worked(q) \/ q = p
      /\ NoDoubleDispatch'
      /\ \A c \in Consumers :
           /\ relay'[c] = "off" <=> relay[c] = "off"
           /\ relay'[c] = "remove" <=> relay[c] = "remove"
           /\ relay[c] = "remove" => job'[c] = job[c]
      /\ LateInv'
  BY <1>1, <1>2, Sent
<1>4. PhaseInv' /\ FreshInv' /\ AcceptedNotLost'
  BY <1>1, <1>2, <1>3 DEF PhaseInv, FreshInv, AcceptedNotLost, Replied
<1>5. InFlightStored' /\ HandOverInv'
  BY <1>1, <1>2, <1>3 DEF InFlightStored, HandOverInv
<1>6. RemoveInv' /\ ReplyInv'
  BY <1>1, <1>3 DEF RemoveInv, ReplyInv, Mishaps, Replied
<1>. QED
  BY <1>3, <1>4, <1>5, <1>6

LEMMA AnswerBusyInv ==
  ASSUME IInv, TypeOK', NEW p \in Pet, AnswerBusy(p) PROVE IInv'
<1> USE DEF IInv
<1>1. /\ serve[p] = "enqueue" /\ serve'[p] = "remove" /\ answer'[p] = 500
      /\ \A q \in Pet \ {p} : serve'[q] = serve[q] /\ answer'[q] = answer[q]
      /\ UNCHANGED <<dbVars, reqChan, procVars, workVars, historyVars, faults>>
  BY DEF AnswerBusy, TypeOK, ServeType
<1>2. \A q \in Pet : (Queued(q)' <=> Queued(q)) /\ (Worked(q)' <=> Worked(q))
  BY <1>1 DEF Queued, Worked, Relaying
<1>3. PhaseInv' /\ LateInv' /\ ReplyInv'
  BY <1>1 DEF PhaseInv, LateInv, ReplyInv, Mishaps
<1>4. FreshInv' /\ AcceptedNotLost' /\ RemoveInv'
  BY <1>1 DEF FreshInv, AcceptedNotLost, RemoveInv, Replied
<1>5. InFlightStored' /\ HandOverInv'
  BY <1>1, <1>2 DEF InFlightStored, HandOverInv
<1>6. NoDoubleDispatch'
  BY <1>1, <1>2 DEF NoDoubleDispatch, Queued, Relaying
<1>. QED
  BY <1>3, <1>4, <1>5, <1>6

LEMMA RemoveRefusedInv ==
  ASSUME IInv, TypeOK', NEW p \in Pet, RemoveRefused(p) PROVE IInv'
<1> USE DEF IInv
<1>1. /\ serve[p] = "remove" /\ serve'[p] = "done"
      /\ \A q \in Pet \ {p} : serve'[q] = serve[q]
      /\ petColl' \in {petColl, petColl \ {p}}
      /\ faults' \in {faults, faults + 1}
      /\ UNCHANGED <<replyColl, reqChan, procVars, answer, workVars,
                     historyVars>>
  BY DEF RemoveRefused, Operation, Outcomes, Applied, TypeOK, ServeType
<1>2. ~Queued(p) /\ ~Worked(p) /\ answer[p] = 500 /\ main = "serving"
  BY <1>1 DEF HandOverInv, RemoveInv, PhaseInv
<1>3. \A q \in Pet : (Queued(q)' <=> Queued(q)) /\ (Worked(q)' <=> Worked(q))
  BY <1>1 DEF Queued, Worked, Relaying
<1>4. PhaseInv' /\ LateInv'
  BY <1>1 DEF PhaseInv, LateInv
<1>5. FreshInv' /\ AcceptedNotLost' /\ RemoveInv'
  BY <1>1, <1>2 DEF FreshInv, AcceptedNotLost, RemoveInv, Replied
<1>6. InFlightStored' /\ HandOverInv'
  BY <1>1, <1>2, <1>3 DEF InFlightStored, HandOverInv
<1>7. NoDoubleDispatch'
  BY <1>1, <1>3 DEF NoDoubleDispatch, Queued, Relaying
<1>8. ReplyInv'
  <2>1. Mishaps' \in {Mishaps, Mishaps + 1}
    BY <1>1, OneFault
  <2>. QED
    BY <1>1, <2>1, NoReplyStep
<1>. QED
  BY <1>4, <1>5, <1>6, <1>7, <1>8

----------------------------------------------------------------------------
(* The inductive invariant: the steps of the consumer                      *)

LEMMA TakeInv ==
  ASSUME IInv, TypeOK', NEW c \in Consumers, Take(c) PROVE IInv'
<1> USE DEF IInv
<1> DEFINE p == Head(reqChan)
<1>1. /\ reqChan \in Seq(Pet) /\ reqChan # <<>> /\ Len(reqChan) \in Nat \ {0}
      /\ p \in Pet /\ p = reqChan[1]
      /\ reqChan' = Tail(reqChan) /\ Len(reqChan') = Len(reqChan) - 1
      /\ \A i \in 1..Len(reqChan') : reqChan'[i] = reqChan[i + 1]
  BY HeadTailProperties, EmptySeq DEF Take, TypeOK, ChannelType
<1>2. /\ relay[c] = "wait" /\ Receive(c, p)
      /\ UNCHANGED <<dbVars, procVars, serve, answer, historyVars, faults>>
  BY DEF Take
<1>3. /\ Relaying(c)' => job'[c] = p
      /\ \A d \in Consumers \ {c} : relay'[d] = relay[d] /\ job'[d] = job[d]
      /\ relay'[c] \notin {"off", "remove", "wait"}
      /\ LateInv'
  BY <1>1, <1>2, Received
<1>4. Queued(p)
  BY <1>1 DEF Queued
<1>5. \A q \in Pet : Queued(q)' => Queued(q) /\ q # p
  BY <1>1 DEF Queued, NoDoubleDispatch
<1>6. \A q \in Pet : Worked(q)' => Worked(q) \/ q = p
  BY <1>3 DEF Worked, Relaying
<1>7. NoDoubleDispatch'
  <2>1. \A i, j \in 1..Len(reqChan') : reqChan'[i] = reqChan'[j] => i = j
    BY <1>1 DEF NoDoubleDispatch
  <2>2. ASSUME NEW d \in Consumers, Relaying(d)'
        PROVE  /\ ~Queued(job[d])'
               /\ \A e \in Consumers \ {d} : Relaying(e)' => job'[e] # job'[d]
    <3>1. job'[d] \in Pet
      BY <2>2 DEF TypeOK, RelayType
    <3>2. CASE d = c
      <4>1. job'[d] = p
        BY <1>3, <2>2, <3>2
      <4>2. ~Queued(job[d])'
        BY <1>5, <3>1, <4>1 DEF Queued
      <4>3. \A e \in Consumers \ {d} : Relaying(e)' => job'[e] # p
        BY <1>3, <1>4, <3>2 DEF NoDoubleDispatch, Relaying
      <4>. QED
        BY <4>1, <4>2, <4>3
    <3>3. CASE d # c
      <4>1. Relaying(d) /\ job'[d] = job[d] /\ job[d] \in Pet
        BY <1>3, <2>2, <3>3 DEF Relaying, TypeOK, RelayType
      <4>2. job[d] # p
        BY <1>4, <4>1 DEF NoDoubleDispatch
      <4>3. ~Queued(job[d])'
        BY <1>5, <3>1, <4>1 DEF NoDoubleDispatch, Queued
      <4>4. ASSUME NEW e \in Consumers \ {d}, Relaying(e)'
            PROVE  job'[e] # job'[d]
        BY <1>3, <4>1, <4>2, <4>4 DEF NoDoubleDispatch, Relaying
      <4>. QED
        BY <4>3, <4>4
    <3>. QED
      BY <3>2, <3>3
  <2>. QED
    BY <2>1, <2>2 DEF NoDoubleDispatch
<1>8. main # "down" /\ p \in petColl
  BY <1>1, <1>2, <1>4 DEF PhaseInv, InFlightStored
<1>9. PhaseInv' /\ FreshInv' /\ AcceptedNotLost'
  BY <1>2, <1>3, <1>8 DEF PhaseInv, FreshInv, AcceptedNotLost, Replied
<1>10. InFlightStored' /\ HandOverInv'
  BY <1>2, <1>4, <1>5, <1>6 DEF InFlightStored, HandOverInv
<1>11. RemoveInv' /\ ReplyInv'
  BY <1>2, <1>3 DEF RemoveInv, ReplyInv, Mishaps, Replied
<1>. QED
  BY <1>3, <1>7, <1>9, <1>10, <1>11

LEMMA MovesInv ==
  ASSUME IInv, TypeOK', NEW c \in Consumers,
         OuterSelect(c) \/ WaitEnds(c) \/ Attempt(c) \/ MakeReply(c)
                        \/ InsertError(c)
  PROVE  IInv'
<1>1. /\ relay[c] \in {"loop", "wait", "request", "reply", "errors"}
      /\ \A d \in Consumers \ {c} : relay'[d] = relay[d]
      /\ relay[c] \in {"loop", "wait"} => relay'[c] \in {"wait", "done"}
      /\ relay'[c] = "wait" => ~endChan
      /\ relay[c] \notin {"loop", "wait"} =>
           relay'[c] \in {"request", "reply", "errors", "replies"}
      /\ UNCHANGED <<petColl, replyColl, reqChan, main, seen, endChan,
                     stopping, serve, answer, job, late, unsaved, crashes>>
      /\ faults' \in {faults, faults + 1}
  BY DEF IInv, TypeOK, RelayType, RelayStates, Working, OuterSelect, WaitEnds,
         Attempt, MakeReply, InsertError, Operation, Goto
<1>2. \A d \in Consumers : relay'[d] = "wait" => late[d] = 0
  BY <1>1 DEF IInv, LateInv
<1>3. \A d \in Consumers :
        /\ Relaying(d)' <=> Relaying(d)
        /\ relay'[d] = "off" <=> relay[d] = "off"
        /\ relay'[d] = "remove" <=> relay[d] = "remove"
  BY <1>1 DEF Relaying, Working
<1>4. Mishaps' \in {Mishaps, Mishaps + 1}
  BY <1>1, OneFault DEF IInv
<1>. QED
  BY <1>1, <1>2, <1>3, <1>4, InvMove

LEMMA InsertReplyInv ==
  ASSUME IInv, TypeOK', NEW c \in Consumers, InsertReply(c) PROVE IInv'
<1> USE DEF IInv
<1> DEFINE p == job[c]
<1>1. /\ relay[c] = "replies" /\ relay'[c] = "remove" /\ p \in Pet
      /\ \A d \in Consumers \ {c} : relay'[d] = relay[d]
      /\ UNCHANGED <<petColl, reqChan, procVars, serve, answer, job, late,
                     crashes>>
  BY DEF InsertReply, Goto, TypeOK, RelayType, Relaying, Working
<1>2. \/ /\ replyColl' = [replyColl EXCEPT ![p] = Append(@, result[c])]
         /\ unsaved' = unsaved
         /\ faults' \in {faults, faults + 1}
      \/ /\ replyColl' = replyColl
         /\ unsaved' = unsaved \cup {p}
         /\ faults' = faults + 1
  BY DEF InsertReply, Operation, Outcomes, Applied
<1>3. /\ result[c] \in Kinds
      /\ replyColl \in [Pet -> Seq(Kinds)]
      /\ Mishaps \in Nat
      /\ \A q \in Pet : Len(replyColl[q]) \in Nat
  BY MishapsType, LenProperties DEF TypeOK, DbType, RelayType
<1>4. /\ Append(replyColl[p], result[c]) # <<>>
      /\ Len(Append(replyColl[p], result[c])) = Len(replyColl[p]) + 1
  BY <1>1, <1>3, AppendProperties
<1>5. /\ \A q \in Pet \ {p} : replyColl'[q] = replyColl[q]
      /\ \A q \in Pet : Replied(q) => Replied(q)'
      /\ Replied(p)' \/ p \in unsaved'
      /\ \A q \in Pet : q \in unsaved' => q \in unsaved \/ q = p
  BY <1>1, <1>2, <1>3, <1>4 DEF Replied
<1>6. Worked(p) /\ p \in petColl
  BY <1>1 DEF Worked, Relaying, Working, InFlightStored
<1>7. \A d \in Consumers : Relaying(d)' <=> Relaying(d)
  BY <1>1 DEF Relaying, Working
<1>8. \A q \in Pet : (Queued(q)' <=> Queued(q)) /\ (Worked(q)' <=> Worked(q))
  BY <1>1, <1>7 DEF Queued, Worked
<1>9. PhaseInv' /\ LateInv'
  BY <1>1 DEF PhaseInv, LateInv
<1>10. FreshInv'
  BY <1>1, <1>5, <1>6 DEF FreshInv, Replied
<1>11. InFlightStored' /\ HandOverInv'
  BY <1>1, <1>8 DEF InFlightStored, HandOverInv
<1>12. NoDoubleDispatch'
  BY <1>1, <1>7, <1>8 DEF NoDoubleDispatch, Queued
<1>13. RemoveInv'
  <2>1. \A d \in Consumers : relay'[d] = "remove" => job[d] \in Pet
    BY <1>1, <1>7 DEF TypeOK, RelayType, Relaying, Working
  <2>2. \A q \in Pet : q \in unsaved => q \in unsaved'
    BY <1>2
  <2>. QED
    BY <1>1, <1>5, <2>1, <2>2 DEF RemoveInv
<1>14. AcceptedNotLost'
  <2>1. \A q \in Pet : q \in unsaved => q \in unsaved'
    BY <1>2
  <2>. QED
    BY <1>1, <1>5, <2>1 DEF AcceptedNotLost
<1>15. ReplyInv'
  <2>1. ~\E d \in Consumers : relay[d] = "remove" /\ job[d] = p
    BY <1>1 DEF NoDoubleDispatch, Relaying, Working
  <2>2. Len(replyColl[p]) <= Mishaps
    BY <1>1, <1>6, <2>1 DEF ReplyInv
  <2>3. Mishaps' \in {Mishaps, Mishaps + 1}
    BY <1>1, <1>2, OneFault
  <2>4. Len(replyColl'[p]) <= 1 + Mishaps'
    <3>1. CASE replyColl' = replyColl
      BY <1>1, <1>3, <2>2, <2>3, <3>1
    <3>2. CASE replyColl' = [replyColl EXCEPT ![p] = Append(@, result[c])]
      <4>1. Len(replyColl'[p]) = Len(replyColl[p]) + 1
        BY <1>1, <1>3, <1>4, <3>2
      <4>. QED
        BY <1>1, <1>3, <2>2, <2>3, <4>1
    <3>. QED
      BY <1>2, <3>1, <3>2
  <2>5. ASSUME NEW q \in Pet
        PROVE  /\ Len(replyColl'[q]) <= 1 + Mishaps'
               /\ \/ Len(replyColl'[q]) <= Mishaps'
                  \/ q \notin petColl'
                  \/ \E d \in Consumers : relay'[d] = "remove" /\ job'[d] = q
    <3>1. CASE q = p
      BY <1>1, <2>4, <3>1
    <3>2. CASE q # p
      <4>1. /\ Len(replyColl[q]) <= 1 + Mishaps
            /\ \/ Len(replyColl[q]) <= Mishaps
               \/ q \notin petColl
               \/ \E d \in Consumers : relay[d] = "remove" /\ job[d] = q
        BY DEF ReplyInv
      <4>2. replyColl'[q] = replyColl[q] /\ Len(replyColl[q]) \in Nat
        BY <1>3, <1>5, <3>2
      <4>3. (\E d \in Consumers : relay[d] = "remove" /\ job[d] = q)
              => \E d \in Consumers : relay'[d] = "remove" /\ job'[d] = q
        BY <1>1
      <4>4. Len(replyColl[q]) <= 1 + Mishaps'
        BY <1>3, <2>3, <4>1, <4>2
      <4>5. Len(replyColl[q]) <= Mishaps => Len(replyColl[q]) <= Mishaps'
        BY <1>3, <2>3, <4>2
      <4>6. petColl' = petColl
        BY <1>1
      <4>. QED
        BY <4>1, <4>2, <4>3, <4>4, <4>5, <4>6
    <3>. QED
      BY <3>1, <3>2
  <2>. QED
    BY <2>5 DEF ReplyInv
<1>. QED
  BY <1>9, <1>10, <1>11, <1>12, <1>13, <1>14, <1>15

LEMMA RemovePetitionInv ==
  ASSUME IInv, TypeOK', NEW c \in Consumers, RemovePetition(c) PROVE IInv'
<1> USE DEF IInv
<1> DEFINE p == job[c]
<1>1. /\ relay[c] = "remove" /\ relay'[c] = "loop" /\ p \in Pet
      /\ \A d \in Consumers \ {c} : relay'[d] = relay[d] /\ job'[d] = job[d]
      /\ \/ petColl' = petColl \ {p} /\ faults' \in {faults, faults + 1}
         \/ petColl' = petColl /\ faults' = faults + 1
      /\ UNCHANGED <<replyColl, reqChan, procVars, serve, answer, late,
                     historyVars>>
  BY DEF RemovePetition, Operation, Outcomes, Applied, Goto, TypeOK, RelayType,
         Relaying, Working
<1>2. Worked(p) /\ ~Queued(p)
  BY <1>1 DEF Worked, Relaying, Working, NoDoubleDispatch
<1>3. serve[p] \notin {"enqueue", "remove"}
  BY <1>1, <1>2 DEF HandOverInv
<1>4. \A q \in Pet : Queued(q)' <=> Queued(q)
  BY <1>1 DEF Queued
<1>5. \A q \in Pet : Worked(q)' => Worked(q) /\ q # p
  BY <1>1 DEF Worked, Relaying, Working, NoDoubleDispatch
<1>6. PhaseInv' /\ LateInv'
  BY <1>1 DEF PhaseInv, LateInv
<1>7. FreshInv' /\ RemoveInv'
  BY <1>1 DEF FreshInv, RemoveInv, Replied
<1>8. InFlightStored' /\ HandOverInv'
  BY <1>1, <1>2, <1>3, <1>4, <1>5 DEF InFlightStored, HandOverInv
<1>9. NoDoubleDispatch'
  BY <1>1 DEF NoDoubleDispatch, Queued, Relaying, Working
<1>10. AcceptedNotLost'
  BY <1>1 DEF RemoveInv, AcceptedNotLost, Replied
<1>11. ReplyInv'
  <2>1. Mishaps' \in {Mishaps, Mishaps + 1}
    BY <1>1, OneFault
  <2>2. petColl' = petColl \ {p} \/ Mishaps' = Mishaps + 1
    BY <1>1, OneFault
  <2>. QED
    BY <1>1, <2>1, <2>2, NoReplyStep
<1>. QED
  BY <1>6, <1>7, <1>8, <1>9, <1>10, <1>11

----------------------------------------------------------------------------
(* The theorems                                                            *)

\* Every step keeps the inductive invariant.
LEMMA InvStep == ASSUME IInv, [Next]_vars PROVE IInv'
<1>1. TypeOK'
  BY TypeStep DEF IInv
<1>2. CASE Start
  BY <1>1, <1>2, StartInv
<1>3. CASE Recover
  BY <1>1, <1>3, ReenqueueInv, MainInv DEF Recover
<1>4. ASSUME NEW p \in Pet, Arrive(p) \/ ServeHTTP(p) PROVE IInv'
  BY <1>1, <1>4, ArriveInv, InsertPetitionInv, EnqueueInv, AnswerBusyInv,
     RemoveRefusedInv
  DEF ServeHTTP
<1>5. ASSUME NEW c \in Consumers, Relay(c) PROVE IInv'
  BY <1>1, <1>5, TakeInv, MovesInv, InsertReplyInv, RemovePetitionInv
  DEF Relay
<1>6. CASE StopListener \/ StopConsumer
  BY <1>1, <1>6, MainInv
<1>7. ASSUME RecoverFails \/ Crash \/ Exit
             \/ \E c \in Consumers : ReplyPanics(c)
      PROVE  IInv'
  <2>1. crashes \in Nat /\ faults \in Nat
    BY DEF IInv, TypeOK, HistoryType
  <2>2. Halt /\ UNCHANGED <<petColl, replyColl, unsaved, answer>>
    BY <1>7 DEF RecoverFails, Crash, Exit, ReplyPanics
  <2>3. CASE RecoverFails \/ Crash \/ \E c \in Consumers : ReplyPanics(c)
    <3>1. Mishaps' = Mishaps + 1
      BY <2>1, <2>3 DEF RecoverFails, Crash, ReplyPanics, Mishaps
    <3>. QED
      BY <1>1, <2>2, <3>1, InvHalt
  <2>4. CASE Exit
    <3>1. Mishaps' = Mishaps /\ \A c \in Consumers : relay[c] # "remove"
      BY <2>4 DEF Exit, Mishaps
    <3>. QED
      BY <1>1, <2>2, <3>1, InvHalt
  <2>. QED
    BY <1>7, <2>3, <2>4
<1>8. CASE UNCHANGED vars
  <2>1. \A c \in Consumers : Relaying(c)' <=> Relaying(c)
    BY <1>8 DEF vars, Relaying
  <2>2. Mishaps' = Mishaps
    BY <1>8 DEF vars, Mishaps
  <2>3. \A c \in Consumers : relay'[c] = "wait" => late[c] = 0
    BY <1>8 DEF vars, IInv, LateInv
  <2>. QED
    BY <1>1, <1>8, <2>1, <2>2, <2>3, InvMove DEF vars
<1>. QED
  BY <1>2, <1>3, <1>4, <1>5, <1>6, <1>7, <1>8 DEF Next, Retired

\* The inductive invariant holds in every state of every execution.
THEOREM Invariance == Spec => []IInv
<1>1. Init => IInv
  BY InvInit
<1>2. IInv /\ [Next]_vars => IInv'
  BY InvStep
<1>. QED
  BY <1>1, <1>2, PTL DEF Spec

\* Every variable keeps its type.
THEOREM TypeCorrect == Spec => []TypeOK
<1>1. IInv => TypeOK
  BY DEF IInv
<1>. QED
  BY <1>1, Invariance, PTL

\* A petition in the channel, in process() or between the Insert and the
\* select of ServeHTTP is always in the collection of petitions.
THEOREM Stored == Spec => []InFlightStored
<1>1. IInv => InFlightStored
  BY DEF IInv
<1>. QED
  BY <1>1, Invariance, PTL

\* A petition is never twice in the channel and the goroutines.
THEOREM SingleDispatch == Spec => []NoDoubleDispatch
<1>1. IInv => NoDoubleDispatch
  BY DEF IInv
<1>. QED
  BY <1>1, Invariance, PTL

\* A petition whose id was given to the client is stored, or has a reply, or
\* the insert of its reply failed.
THEOREM NotLost == Spec => []AcceptedNotLost
<1>1. IInv => AcceptedNotLost
  BY DEF IInv
<1>. QED
  BY <1>1, Invariance, PTL

\* A petition has at most one reply more than there were crashes and faults.
THEOREM FewDuplicates == Spec => []DuplicateBound
<1>1. IInv => DuplicateBound
  BY DEF IInv, ReplyInv, DuplicateBound
<1>. QED
  BY <1>1, Invariance, PTL

\* A goroutine takes at most one petition after the stop.
THEOREM FewLate == Spec => []LateBound
<1>1. IInv => LateBound
  BY DEF IInv, LateInv, LateBound
<1>. QED
  BY <1>1, Invariance, PTL

----------------------------------------------------------------------------
(* The promises: AttemptBound, ErrorsRecorded, CleanStop, RefusedForgotten *)

HIDE DEF dbVars, procVars, workVars, historyVars

\* The requests a petition costs when it is relayed n times.
Bound(n) == (Retries + 1) * n

\* Before it has reached the collection a petition was never sent; while
\* nobody works on it, it was relayed once per mishap at most; and doRequest
\* has made as many requests as it has counted retries.
AttemptInv ==
    \A p \in Pet :
        /\ serve[p] \in {"idle", "insert"} => attempts[p] = 0
        /\ p \in petColl /\ ~Worked(p) => attempts[p] <= Bound(Mishaps)
        /\ \A c \in Consumers :
             relay[c] = "request" /\ job[c] = p =>
                 attempts[p] <= Bound(Mishaps) + retry[c]
        /\ attempts[p] <= Bound(Mishaps + 1)

\* An erroneous reply that is about to be inserted has been recorded, and
\* none was lost, if the database reported no error.
ErrorsInv ==
    faults = 0 =>
        /\ \A p \in Pet : \A i \in 1..Len(replyColl[p]) :
             Erroneous(replyColl[p][i]) => replyColl[p][i] \in errColl[p]
        /\ \A c \in Consumers :
             relay[c] = "replies" /\ Erroneous(result[c]) =>
                 result[c] \in errColl[job[c]]
        /\ unsaved = {}

\* In its first run the process has sent nothing that it still owes an
\* answer, or that it refused.
RefusedInv ==
    /\ runs = 0 =>
         /\ main = "down"
         /\ petColl = {}
         /\ \A p \in Pet : serve[p] = "idle" /\ attempts[p] = 0
    /\ runs = 1 /\ main # "down" /\ faults = 0 =>
         \A p \in Pet :
             /\ serve[p] # "done" => attempts[p] = 0
             /\ serve[p] = "done" /\ answer[p] # 200 =>
                  p \notin petColl /\ attempts[p] = 0

PromisesInv == AttemptInv /\ ErrorsInv /\ RefusedInv

LEMMA BoundIsNat == \A n \in Nat : Bound(n) \in Nat
BY ConstantsAssumption DEF Bound

LEMMA BoundNext == \A n \in Nat : Bound(n + 1) = Bound(n) + Retries + 1
<1> SUFFICES ASSUME NEW n \in Nat PROVE Bound(n + 1) = Bound(n) + Retries + 1
  OBVIOUS
<1>1. Retries \in Nat
  BY ConstantsAssumption
<1>2. \A r \in Nat : (r + 1) * (n + 1) = (r + 1) * n + r + 1
  OBVIOUS
<1>. QED
  BY <1>1, <1>2 DEF Bound

\* One mishap more allows more.
LEMMA BoundGrows ==
  ASSUME TypeOK, Mishaps' \in {Mishaps, Mishaps + 1}
  PROVE  /\ Bound(Mishaps) \in Nat /\ Bound(Mishaps + 1) \in Nat
         /\ Bound(Mishaps) <= Bound(Mishaps + 1)
         /\ Bound(Mishaps') \in Nat /\ Bound(Mishaps' + 1) \in Nat
         /\ Bound(Mishaps) <= Bound(Mishaps')
         /\ Bound(Mishaps + 1) <= Bound(Mishaps' + 1)
         /\ Mishaps' = Mishaps + 1 => Bound(Mishaps') = Bound(Mishaps + 1)
<1>1. Mishaps \in Nat /\ Mishaps + 1 \in Nat /\ Retries \in Nat
  BY MishapsType, ConstantsAssumption
<1>2. \A n \in Nat : Bound(n) <= Bound(n + 1)
  <2> SUFFICES ASSUME NEW n \in Nat PROVE Bound(n) <= Bound(n + 1)
    OBVIOUS
  <2>1. Bound(n) \in Nat /\ Bound(n + 1) = Bound(n) + Retries + 1
    BY BoundIsNat, BoundNext
  <2>. QED
    BY <1>1, <2>1
<1>. QED
  BY <1>1, <1>2, BoundIsNat

LEMMA PromisesInit == ASSUME Init PROVE PromisesInv
<1>1. TypeOK
  BY TypeInit
<1>2. AttemptInv
  <2>1. Mishaps \in Nat /\ Bound(Mishaps) \in Nat /\ Bound(Mishaps + 1) \in Nat
    BY <1>1, MishapsType, BoundIsNat
  <2>2. /\ \A p \in Pet : attempts[p] = 0
        /\ \A c \in Consumers : relay[c] # "request"
    BY DEF Init
  <2>3. 0 <= Bound(Mishaps) /\ 0 <= Bound(Mishaps + 1)
    BY <2>1
  <2>4. \A p \in Pet : attempts[p] <= Bound(Mishaps) /\ attempts[p] <= Bound(Mishaps + 1)
    BY <2>2, <2>3
  <2>. QED
    BY <2>2, <2>4 DEF AttemptInv
<1>3. ErrorsInv
  BY <1>1, LenProperties DEF Init, ErrorsInv
<1>4. RefusedInv
  BY DEF Init, RefusedInv
<1>. QED
  BY <1>2, <1>3, <1>4 DEF PromisesInv

----------------------------------------------------------------------------
(* AttemptInv: steps without a request                                     *)

\* A petition that nobody works on after the step was nobody's before it, or
\* the step is a mishap; a goroutine in doRequest was there, or has started
\* on a petition that was nobody's.
LEMMA NoAttempt ==
  ASSUME IInv, TypeOK', AttemptInv, UNCHANGED attempts,
         Mishaps' \in {Mishaps, Mishaps + 1},
         \A p \in Pet : serve'[p] \in {"idle", "insert"} => serve[p] \in {"idle", "insert"},
         \/ Mishaps' = Mishaps + 1
         \/ \A p \in Pet : p \in petColl' /\ ~Worked(p)' =>
              \/ serve[p] \in {"idle", "insert"}
              \/ p \in petColl /\ ~Worked(p),
         \A c \in Consumers : relay'[c] = "request" =>
              \/ relay[c] = "request" /\ job'[c] = job[c] /\ retry'[c] = retry[c]
              \/ job'[c] \in petColl /\ ~Worked(job'[c])
  PROVE  AttemptInv'
<1> DEFINE M == Mishaps
<1>1. /\ Bound(M) \in Nat /\ Bound(M + 1) \in Nat
      /\ Bound(M) <= Bound(M + 1)
      /\ Bound(M') \in Nat /\ Bound(M' + 1) \in Nat
      /\ Bound(M) <= Bound(M')
      /\ Bound(M + 1) <= Bound(M' + 1)
      /\ M' = M + 1 => Bound(M') = Bound(M + 1)
  BY BoundGrows DEF IInv
<1>2. \A p \in Pet : attempts[p] \in Nat /\ attempts'[p] = attempts[p]
  BY DEF IInv, TypeOK, HistoryType
<1>3. \A c \in Consumers : retry[c] \in Nat /\ retry'[c] \in Nat
  BY ConstantsAssumption DEF IInv, TypeOK, RelayType
<1>4. ASSUME NEW p \in Pet
      PROVE  /\ serve'[p] \in {"idle", "insert"} => attempts'[p] = 0
             /\ attempts'[p] <= Bound(M' + 1)
  BY <1>1, <1>2 DEF AttemptInv
<1>5. ASSUME NEW p \in Pet, p \in petColl', ~Worked(p)'
      PROVE  attempts'[p] <= Bound(M')
  <2>1. CASE M' = M + 1
    BY <1>1, <1>2, <2>1 DEF AttemptInv
  <2>2. CASE serve[p] \in {"idle", "insert"}
    BY <1>1, <1>2, <2>2 DEF AttemptInv
  <2>3. CASE p \in petColl /\ ~Worked(p)
    <3>1. attempts[p] <= Bound(M)
      BY <2>3 DEF AttemptInv
    <3>. QED
      BY <1>1, <1>2, <3>1
  <2>. QED
    BY <1>5, <2>1, <2>2, <2>3
<1>6. ASSUME NEW p \in Pet, NEW c \in Consumers, relay'[c] = "request", job'[c] = p
      PROVE  attempts'[p] <= Bound(M') + retry'[c]
  <2>1. CASE relay[c] = "request" /\ job'[c] = job[c] /\ retry'[c] = retry[c]
    <3>1. attempts[p] <= Bound(M) + retry[c]
      BY <1>6, <2>1 DEF AttemptInv
    <3>. QED
      BY <1>1, <1>2, <1>3, <2>1, <3>1
  <2>2. CASE p \in petColl /\ ~Worked(p)
    <3>1. attempts[p] <= Bound(M)
      BY <2>2 DEF AttemptInv
    <3>. QED
      BY <1>1, <1>2, <1>3, <3>1
  <2>. QED
    BY <1>6, <2>1, <2>2
<1>. QED
  BY <1>4, <1>5, <1>6 DEF AttemptInv
----------------------------------------------------------------------------
(* AttemptInv: a request                                                   *)

LEMMA AttemptKept ==
  ASSUME IInv, TypeOK', AttemptInv, NEW c \in Consumers, Attempt(c)
  PROVE  AttemptInv'
<1> DEFINE p == job[c]
<1>1. /\ relay[c] = "request" /\ p \in Pet /\ attempts[p] \in Nat /\ Retries \in Nat
      /\ retry[c] \in 0..Retries
  BY ConstantsAssumption DEF Attempt, IInv, TypeOK, RelayType, HistoryType, Relaying, Working
<1>2. /\ \A q \in Pet : attempts'[q] = IF q = p THEN attempts[p] + 1 ELSE attempts[q]
      /\ UNCHANGED <<petColl, serve, job, Mishaps>>
      /\ \A d \in Consumers \ {c} : relay'[d] = relay[d] /\ retry'[d] = retry[d]
      /\ \/ retry'[c] = retry[c] + 1
         \/ relay'[c] = "reply"
      /\ relay'[c] \in Working
  <2>1. \A q \in Pet : attempts'[q] = IF q = p THEN attempts[p] + 1 ELSE attempts[q]
    BY <1>1 DEF Attempt, IInv, TypeOK, HistoryType
  <2>2. UNCHANGED <<petColl, serve, job, Mishaps>>
    BY DEF Attempt, dbVars, Mishaps
  <2>3. \/ /\ retry' = [retry EXCEPT ![c] = retry[c] + 1] /\ relay' = relay
        \/ /\ relay' = [relay EXCEPT ![c] = "reply"] /\ retry' = retry
    BY DEF Attempt, Goto
  <2>. QED
    BY <1>1, <2>1, <2>2, <2>3 DEF IInv, TypeOK, RelayType, Working
<1>3. \A q \in Pet : Worked(q)' <=> Worked(q)
  BY <1>1, <1>2 DEF Worked, Relaying, Working
<1>4. /\ Bound(Mishaps) \in Nat /\ Bound(Mishaps + 1) \in Nat
      /\ Bound(Mishaps + 1) = Bound(Mishaps) + Retries + 1
  BY MishapsType, BoundIsNat, BoundNext DEF IInv
<1>5. attempts[p] <= Bound(Mishaps) + retry[c]
  BY <1>1 DEF AttemptInv
<1>6. Worked(p) /\ p \in petColl /\ serve[p] \notin {"idle", "insert"}
  BY <1>1 DEF Worked, Relaying, Working, IInv, InFlightStored, FreshInv
<1>7. \A d \in Consumers \ {c} : relay[d] = "request" => job[d] # p
  BY <1>1 DEF IInv, NoDoubleDispatch, Relaying, Working
<1>8. attempts'[p] <= Bound(Mishaps + 1)
  BY <1>1, <1>2, <1>4, <1>5
<1>9. retry'[c] = retry[c] + 1 => attempts'[p] <= Bound(Mishaps) + retry'[c]
  BY <1>1, <1>2, <1>4, <1>5
<1>10. ASSUME NEW q \in Pet
       PROVE  /\ serve'[q] \in {"idle", "insert"} => attempts'[q] = 0
              /\ q \in petColl' /\ ~Worked(q)' => attempts'[q] <= Bound(Mishaps)
              /\ attempts'[q] <= Bound(Mishaps + 1)
  BY <1>2, <1>3, <1>6, <1>8 DEF AttemptInv
<1>11. ASSUME NEW q \in Pet, NEW d \in Consumers, relay'[d] = "request", job'[d] = q
       PROVE  attempts'[q] <= Bound(Mishaps) + retry'[d]
  <2>1. CASE d = c
    BY <1>2, <1>9, <1>11, <2>1
  <2>2. CASE d # c
    <3>1. relay[d] = "request" /\ job[d] = q /\ q # p
      BY <1>2, <1>7, <1>11, <2>2
    <3>. QED
      BY <1>2, <2>2, <3>1 DEF AttemptInv
  <2>. QED
    BY <2>1, <2>2
<1>12. Bound(Mishaps)' = Bound(Mishaps) /\ Bound(Mishaps + 1)' = Bound(Mishaps + 1)
  BY <1>2
<1>. QED
  BY <1>10, <1>11, <1>12 DEF AttemptInv

----------------------------------------------------------------------------
(* AttemptInv: the other steps                                             *)

\* The process is gone: nobody works on anything.
LEMMA AttemptHalt ==
  ASSUME IInv, TypeOK', AttemptInv, Halt, UNCHANGED <<attempts, petColl>>,
         \/ Mishaps' = Mishaps + 1
         \/ Mishaps' = Mishaps /\ \A c \in Consumers : ~Relaying(c)
  PROVE  AttemptInv'
<1>1. \A c \in Consumers : relay'[c] # "request"
  BY DEF Halt
<1>2. \A p \in Pet : serve'[p] \in {"idle", "insert"} => serve[p] \in {"idle", "insert"}
  BY DEF Halt
<1>3. \A p \in Pet : (\A c \in Consumers : ~Relaying(c)) => ~Worked(p)
  BY DEF Worked
<1>4. Mishaps' \in {Mishaps, Mishaps + 1}
  OBVIOUS
<1>. QED
  BY <1>1, <1>2, <1>3, <1>4, NoAttempt

\* p, which nobody has, goes to the channel or to a waiting goroutine.
LEMMA AttemptSend ==
  ASSUME IInv, TypeOK', AttemptInv, NEW p \in Pet, p \in petColl, ~Worked(p), Send(p),
         UNCHANGED <<attempts, petColl, retry, Mishaps>>,
         \A q \in Pet : serve'[q] \in {"idle", "insert"} => serve[q] \in {"idle", "insert"}
  PROVE  AttemptInv'
<1>1. CASE UNCHANGED <<relay, job>>
  <2>1. \A q \in Pet : Worked(q)' <=> Worked(q)
    BY <1>1 DEF Worked, Relaying
  <2>. QED
    BY <1>1, <2>1, NoAttempt
<1>2. ASSUME NEW c \in Consumers, relay[c] = "wait", Receive(c, p)
      PROVE  AttemptInv'
  <2>1. /\ \A d \in Consumers \ {c} : relay'[d] = relay[d] /\ job'[d] = job[d]
        /\ relay'[c] = "request" => job'[c] = p
    BY <1>2 DEF Receive, IInv, TypeOK, RelayType
  <2>2. \A q \in Pet : Worked(q) => Worked(q)'
    BY <1>2, <2>1 DEF Worked, Relaying, Working
  <2>. QED
    BY <2>1, <2>2, NoAttempt
<1>. QED
  BY <1>1, <1>2 DEF Send

\* The requests of the clients, and main.
LEMMA AttemptServe ==
  ASSUME IInv, TypeOK', AttemptInv,
         \/ \E p \in Pet : Arrive(p) \/ InsertPetition(p) \/ AnswerBusy(p) \/ RemoveRefused(p)
         \/ RecoverReturns \/ StopListener \/ StopConsumer
  PROVE  AttemptInv'
<1>1. /\ UNCHANGED <<attempts, relay, job, retry, crashes>>
      /\ faults' \in {faults, faults + 1}
  BY DEF Arrive, InsertPetition, AnswerBusy, RemoveRefused, RecoverReturns, StopListener,
         StopConsumer, Operation, workVars, historyVars
<1>2. \A p \in Pet : serve'[p] \in {"idle", "insert"} => serve[p] \in {"idle", "insert"}
  BY DEF IInv, TypeOK, ServeType, Arrive, Refuse, InsertPetition, AnswerBusy, RemoveRefused,
         RecoverReturns, StopListener, StopConsumer
<1>3. \A p \in Pet : p \in petColl' => p \in petColl \/ serve[p] = "insert"
  BY DEF Arrive, InsertPetition, AnswerBusy, RemoveRefused, RecoverReturns, StopListener,
         StopConsumer, dbVars
<1>4. \A p \in Pet : Worked(p)' <=> Worked(p)
  BY <1>1 DEF Worked, Relaying
<1>5. Mishaps' \in {Mishaps, Mishaps + 1}
  BY <1>1, OneFault DEF IInv
<1>. QED
  BY <1>1, <1>2, <1>3, <1>4, <1>5, NoAttempt

\* The lines of relay() and process() that make no request.
LEMMA AttemptRelay ==
  ASSUME IInv, TypeOK', AttemptInv, NEW c \in Consumers,
         OuterSelect(c) \/ WaitEnds(c) \/ MakeReply(c) \/ InsertError(c) \/ InsertReply(c)
  PROVE  AttemptInv'
<1>1. /\ UNCHANGED <<attempts, petColl, serve, job, retry, crashes>>
      /\ faults' \in {faults, faults + 1}
      /\ \A d \in Consumers \ {c} : relay'[d] = relay[d]
      /\ relay'[c] # "request"
      /\ relay'[c] \in Working <=> relay[c] \in Working
  <2>1. UNCHANGED <<attempts, petColl, serve, job, retry, crashes>>
    BY DEF OuterSelect, WaitEnds, MakeReply, InsertError, InsertReply, dbVars, historyVars
  <2>2. faults' \in {faults, faults + 1}
    BY DEF OuterSelect, WaitEnds, MakeReply, InsertError, InsertReply, Operation
  <2>3. PICK place \in {"wait", "done", "errors", "replies", "remove"} :
          /\ relay' = [relay EXCEPT ![c] = place]
          /\ place \in Working <=> relay[c] \in Working
    BY DEF OuterSelect, WaitEnds, MakeReply, InsertError, InsertReply, Goto, Working
  <2>. QED
    BY <2>1, <2>2, <2>3 DEF IInv, TypeOK, RelayType
<1>2. \A p \in Pet : Worked(p)' <=> Worked(p)
  BY <1>1 DEF Worked, Relaying
<1>3. Mishaps' \in {Mishaps, Mishaps + 1}
  BY <1>1, OneFault DEF IInv
<1>. QED
  BY <1>1, <1>2, <1>3, NoAttempt

\* process() is over: the petition is gone, or its Remove is a mishap.
LEMMA AttemptRemove ==
  ASSUME IInv, TypeOK', AttemptInv, NEW c \in Consumers, RemovePetition(c)
  PROVE  AttemptInv'
<1>1. PICK o \in Outcomes :
        /\ Operation(o)
        /\ petColl' = IF Applied(o) THEN petColl \ {job[c]} ELSE petColl
  BY DEF RemovePetition
<1>2. /\ UNCHANGED <<attempts, serve, crashes>>
      /\ \A d \in Consumers \ {c} : /\ relay'[d] = relay[d]
                                    /\ job'[d] = job[d] /\ retry'[d] = retry[d]
      /\ relay'[c] = "loop"
  BY DEF IInv, TypeOK, RelayType, RemovePetition, Goto, historyVars
<1>3. faults' \in {faults, faults + 1}
  BY <1>1 DEF Operation
<1>4. Mishaps' \in {Mishaps, Mishaps + 1} /\ (faults' = faults + 1 => Mishaps' = Mishaps + 1)
  BY <1>2, <1>3, OneFault DEF IInv
<1>5. \A p \in Pet \ {job[c]} : Worked(p) => Worked(p)'
  BY <1>2 DEF Worked, Relaying
<1>6. \/ Mishaps' = Mishaps + 1
      \/ job[c] \notin petColl' /\ petColl' \subseteq petColl
  BY <1>1, <1>4 DEF Operation, Applied, Outcomes
<1>. QED
  BY <1>2, <1>4, <1>5, <1>6, NoAttempt

LEMMA AttemptStep == ASSUME IInv, IInv', AttemptInv, [Next]_vars PROVE AttemptInv'
<1> USE DEF IInv
<1>1. CASE Start
  <2>1. /\ UNCHANGED <<attempts, petColl, serve, Mishaps>>
        /\ \A c \in Consumers : relay'[c] # "request" /\ ~Relaying(c)
    BY <1>1 DEF Start, PhaseInv, Relaying, Working, dbVars, Mishaps
  <2>2. \A p \in Pet : ~Worked(p)
    BY <2>1 DEF Worked
  <2>. QED
    BY <2>1, <2>2, NoAttempt
<1>2. ASSUME NEW p \in Pet, Reenqueue(p)
      PROVE  AttemptInv'
  <2>1. p \in petColl /\ ~Worked(p) /\ Send(p)
    BY <1>2 DEF Reenqueue, HandOverInv
  <2>2. UNCHANGED <<attempts, petColl, serve, retry, Mishaps>>
    BY <1>2 DEF Reenqueue, dbVars, historyVars, Mishaps
  <2>. QED
    BY <2>1, <2>2, AttemptSend
<1>3. ASSUME NEW p \in Pet, Enqueue(p)
      PROVE  AttemptInv'
  <2>1. p \in petColl /\ ~Worked(p) /\ Send(p)
    BY <1>3 DEF Enqueue, HandOverInv, InFlightStored
  <2>2. /\ UNCHANGED <<attempts, petColl, retry, Mishaps>>
        /\ \A q \in Pet : serve'[q] \in {"idle", "insert"} => serve[q] \in {"idle", "insert"}
    BY <1>3 DEF Enqueue, dbVars, historyVars, Mishaps, TypeOK, ServeType
  <2>. QED
    BY <2>1, <2>2, AttemptSend
<1>4. ASSUME NEW c \in Consumers, Take(c)
      PROVE  AttemptInv'
  <2> DEFINE p == Head(reqChan)
  <2>1. relay[c] = "wait" /\ Receive(c, p) /\ p \in Pet /\ Queued(p)
    BY <1>4, HeadTailProperties, EmptySeq, LenProperties DEF Take, TypeOK, ChannelType, Queued
  <2>2. p \in petColl /\ ~Worked(p)
    BY <2>1 DEF InFlightStored, NoDoubleDispatch, Worked
  <2>3. UNCHANGED <<attempts, petColl, serve, retry, Mishaps>>
    BY <1>4 DEF Take, dbVars, historyVars, Mishaps
  <2>4. /\ \A d \in Consumers \ {c} : relay'[d] = relay[d] /\ job'[d] = job[d]
        /\ relay'[c] = "request" => job'[c] = p
    BY <2>1 DEF Receive, TypeOK, RelayType
  <2>5. \A q \in Pet : Worked(q) => Worked(q)'
    BY <2>1, <2>4 DEF Worked, Relaying, Working
  <2>. QED
    BY <2>2, <2>3, <2>4, <2>5, NoAttempt
<1>5. CASE Exit
  <2>1. \A c \in Consumers : ~Relaying(c)
    BY <1>5 DEF Exit, Relaying, Working
  <2>2. UNCHANGED <<attempts, petColl, Mishaps>> /\ Halt
    BY <1>5 DEF Exit, dbVars, historyVars, Mishaps
  <2>. QED
    BY <2>1, <2>2, AttemptHalt
<1>6. CASE RecoverFails \/ Crash \/ \E c \in Consumers : ReplyPanics(c)
  <2>1. UNCHANGED <<attempts, petColl>> /\ Halt
    BY <1>6 DEF RecoverFails, Crash, ReplyPanics, dbVars, historyVars
  <2>2. CASE RecoverFails
    BY <2>1, <2>2, OneFault, AttemptHalt DEF RecoverFails, historyVars
  <2>3. CASE crashes' = crashes + 1 /\ faults' = faults
    <3>1. \A m, f \in Nat : (m + 1) + f = (m + f) + 1
      OBVIOUS
    <3>2. Mishaps' = Mishaps + 1
      BY <2>3, <3>1 DEF Mishaps, TypeOK, HistoryType
    <3>. QED
      BY <2>1, <3>2, AttemptHalt
  <2>. QED
    BY <1>6, <2>2, <2>3 DEF Crash, ReplyPanics
<1>7. CASE UNCHANGED vars
  BY <1>7 DEF vars, AttemptInv, Worked, Relaying, Mishaps, workVars, historyVars, dbVars
<1>8. CASE Next
  BY <1>1, <1>2, <1>3, <1>4, <1>5, <1>6, <1>7, <1>8, AttemptServe, AttemptRelay,
     AttemptRemove, AttemptKept
     DEF Next, Recover, ServeHTTP, Relay, Retired
<1>. QED
  BY <1>7, <1>8
----------------------------------------------------------------------------
(* ErrorsInv                                                               *)

\* The responses collection is untouched, no record of an error is removed,
\* and a goroutine comes to its insert with a good reply or a recorded one.
LEMMA NoReply ==
  ASSUME IInv, ErrorsInv, UNCHANGED <<replyColl, unsaved>>,
         faults' = 0 => faults = 0,
         faults' = 0 => \A p \in Pet : errColl[p] \subseteq errColl'[p],
         faults' = 0 => \A c \in Consumers : relay'[c] = "replies" =>
           \/ relay[c] = "replies" /\ job'[c] = job[c] /\ result'[c] = result[c]
           \/ ~Erroneous(result'[c])
           \/ result'[c] \in errColl'[job'[c]]
  PROVE  ErrorsInv'
<1> SUFFICES ASSUME faults' = 0 PROVE ErrorsInv'
  BY DEF ErrorsInv
<1>1. \A c \in Consumers : relay[c] = "replies" => job[c] \in Pet
  BY DEF IInv, TypeOK, RelayType, Relaying, Working
<1>2. \A p \in Pet : \A i \in 1..Len(replyColl[p]) :
        Erroneous(replyColl[p][i]) => replyColl[p][i] \in errColl'[p]
  BY DEF ErrorsInv
<1>3. \A c \in Consumers : relay'[c] = "replies" /\ Erroneous(result'[c]) =>
        result'[c] \in errColl'[job'[c]]
  BY <1>1 DEF ErrorsInv
<1>. QED
  BY <1>2, <1>3 DEF ErrorsInv

LEMMA ErrorsInsertError ==
  ASSUME IInv, ErrorsInv, NEW c \in Consumers, InsertError(c) PROVE ErrorsInv'
<1> USE DEF IInv, TypeOK, HistoryType, DbType, RelayType
<1>1. PICK o \in Outcomes :
        /\ Operation(o)
        /\ errColl' = IF Applied(o)
                        THEN [errColl EXCEPT ![job[c]] = @ \cup {result[c]}] ELSE errColl
  BY DEF InsertError
<1>2. /\ UNCHANGED <<replyColl, unsaved, job, result>>
      /\ \A d \in Consumers \ {c} : relay'[d] = relay[d]
      /\ job[c] \in Pet
  BY DEF InsertError, Goto, Relaying, Working, historyVars
<1>3. faults' = 0 => faults = 0 /\ o = "ok"
  BY <1>1 DEF Operation
<1>4. faults' = 0 =>
        /\ \A p \in Pet : errColl[p] \subseteq errColl'[p]
        /\ result[c] \in errColl'[job[c]]
  BY <1>1, <1>2, <1>3 DEF Applied
<1>. QED
  BY <1>2, <1>3, <1>4, NoReply

LEMMA ErrorsInsertReply ==
  ASSUME IInv, ErrorsInv, NEW c \in Consumers, InsertReply(c) PROVE ErrorsInv'
<1> USE DEF IInv, TypeOK, HistoryType, DbType, RelayType
<1> SUFFICES ASSUME faults' = 0 PROVE ErrorsInv'
  BY DEF ErrorsInv
<1> DEFINE p == job[c]
           r == result[c]
<1>1. PICK o \in Outcomes :
        /\ Operation(o)
        /\ replyColl' = IF Applied(o)
                          THEN [replyColl EXCEPT ![p] = Append(@, r)] ELSE replyColl
        /\ unsaved' = IF Applied(o) THEN unsaved ELSE unsaved \cup {p}
  BY DEF InsertReply
<1>2. faults = 0 /\ o = "ok"
  BY <1>1 DEF Operation
<1>3. /\ relay[c] = "replies" /\ p \in Pet /\ r \in Kinds
      /\ UNCHANGED <<errColl, job, result>>
      /\ \A d \in Consumers : relay'[d] = "replies" => relay[d] = "replies"
  BY DEF InsertReply, Goto, Relaying, Working
<1>4. /\ \A q \in Pet : replyColl'[q] = IF q = p THEN Append(replyColl[p], r) ELSE replyColl[q]
      /\ unsaved' = unsaved
  BY <1>1, <1>2, <1>3 DEF Applied
<1>5. Erroneous(r) => r \in errColl[p]
  BY <1>2, <1>3 DEF ErrorsInv
<1>6. /\ Len(replyColl'[p]) = Len(replyColl[p]) + 1
      /\ replyColl'[p][Len(replyColl[p]) + 1] = r
      /\ \A i \in 1..Len(replyColl[p]) : replyColl'[p][i] = replyColl[p][i]
      /\ Len(replyColl[p]) \in Nat
  <2> DEFINE before == replyColl[p]
  <2>1. before \in Seq(Kinds) /\ Len(before) \in Nat
    BY <1>3, LenProperties
  <2>2. /\ Len(Append(before, r)) = Len(before) + 1
        /\ Append(before, r)[Len(before) + 1] = r
        /\ \A i \in 1..Len(before) : Append(before, r)[i] = before[i]
    BY <1>3, <2>1, AppendProperties
  <2>3. replyColl'[p] = Append(before, r)
    BY <1>3, <1>4
  <2>. QED
    BY <2>1, <2>2, <2>3
<1>7. \A q \in Pet : \A i \in 1..Len(replyColl'[q]) :
        Erroneous(replyColl'[q][i]) => replyColl'[q][i] \in errColl[q]
  <2> SUFFICES ASSUME NEW q \in Pet, NEW i \in 1..Len(replyColl'[q]),
                      Erroneous(replyColl'[q][i])
               PROVE  replyColl'[q][i] \in errColl[q]
    OBVIOUS
  <2>1. CASE q # p
    BY <1>2, <1>4, <2>1 DEF ErrorsInv
  <2>2. CASE q = p /\ i \in 1..Len(replyColl[p])
    BY <1>2, <1>3, <1>6, <2>2 DEF ErrorsInv
  <2>3. CASE q = p /\ i = Len(replyColl[p]) + 1
    BY <1>5, <1>6, <2>3
  <2>. QED
    BY <1>6, <2>1, <2>2, <2>3
<1>8. \A d \in Consumers : relay'[d] = "replies" /\ Erroneous(result'[d]) =>
        result'[d] \in errColl'[job'[d]]
  BY <1>2, <1>3 DEF ErrorsInv
<1>9. unsaved' = {}
  BY <1>2, <1>4 DEF ErrorsInv
<1>. QED
  BY <1>3, <1>7, <1>8, <1>9 DEF ErrorsInv

LEMMA ErrorsStep == ASSUME IInv, ErrorsInv, [Next]_vars PROVE ErrorsInv'
<1> USE DEF dbVars, workVars, historyVars
<1>1. faults \in Nat /\ \A o : Operation(o) => (faults' = 0 => faults = 0)
  BY DEF IInv, TypeOK, HistoryType, Operation
<1>2. ASSUME Halt, UNCHANGED <<replyColl, errColl, unsaved>>, faults' = 0 => faults = 0
      PROVE  ErrorsInv'
  BY <1>2, NoReply DEF Halt
<1>3. CASE \/ Start \/ RecoverReturns \/ StopListener \/ StopConsumer
           \/ \E p \in Pet : Arrive(p) \/ AnswerBusy(p)
           \/ UNCHANGED vars
  <2>1. /\ UNCHANGED <<replyColl, errColl, unsaved, faults, job, result>>
        /\ \A c \in Consumers : relay'[c] = "replies" => relay[c] = "replies"
    BY <1>3 DEF Start, RecoverReturns, StopListener, StopConsumer, Arrive, AnswerBusy, vars
  <2>. QED
    BY <2>1, NoReply
<1>4. CASE \E p \in Pet : InsertPetition(p) \/ RemoveRefused(p)
  BY <1>1, <1>4, NoReply DEF InsertPetition, RemoveRefused
<1>5. ASSUME NEW c \in Consumers, NEW p \in Pet, Receive(c, p),
             UNCHANGED <<replyColl, errColl, unsaved, faults, result>>
      PROVE  ErrorsInv'
  <2>1. \A d \in Consumers : relay'[d] = "replies" =>
          relay[d] = "replies" /\ job'[d] = job[d]
    BY <1>5 DEF Receive, IInv, TypeOK, RelayType
  <2>. QED
    BY <1>5, <2>1, NoReply
<1>6. CASE \E p \in Pet : Reenqueue(p) \/ Enqueue(p)
  <2>1. PICK p \in Pet : Send(p) /\ UNCHANGED <<replyColl, errColl, unsaved, faults, result>>
    BY <1>6 DEF Reenqueue, Enqueue
  <2>2. CASE UNCHANGED <<relay, job>>
    BY <2>1, <2>2, NoReply
  <2>. QED
    BY <1>5, <2>1, <2>2 DEF Send
<1>7. ASSUME NEW c \in Consumers, Take(c)
      PROVE  ErrorsInv'
  <2>1. Head(reqChan) \in Pet
    BY <1>7, HeadTailProperties, EmptySeq DEF Take, IInv, TypeOK, ChannelType
  <2>. QED
    BY <1>5, <1>7, <2>1 DEF Take
<1>8. ASSUME NEW c \in Consumers, OuterSelect(c) \/ WaitEnds(c) \/ Attempt(c)
      PROVE  ErrorsInv'
  <2>1. /\ UNCHANGED <<replyColl, errColl, unsaved, faults, job>>
        /\ \A d \in Consumers : relay'[d] = "replies" =>
             relay[d] = "replies" /\ result'[d] = result[d]
    <3>1. CASE OuterSelect(c) \/ WaitEnds(c)
      BY <3>1 DEF OuterSelect, WaitEnds, Goto, IInv, TypeOK, RelayType
    <3>2. CASE Attempt(c)
      <4>1. \A d \in Consumers \ {c} : relay'[d] = relay[d] /\ result'[d] = result[d]
        BY <3>2 DEF Attempt, Goto, IInv, TypeOK, RelayType
      <4>2. relay'[c] \in {"request", "reply"}
        BY <3>2 DEF Attempt, Goto, IInv, TypeOK, RelayType
      <4>. QED
        BY <3>2, <4>1, <4>2 DEF Attempt
    <3>. QED
      BY <1>8, <3>1, <3>2
  <2>. QED
    BY <2>1, NoReply
<1>9. ASSUME NEW c \in Consumers, MakeReply(c)
      PROVE  ErrorsInv'
  <2>1. /\ UNCHANGED <<replyColl, errColl, unsaved, faults, job, result>>
        /\ \A d \in Consumers : relay'[d] = "replies" =>
             relay[d] = "replies" \/ ~Erroneous(result[d])
    BY <1>9 DEF MakeReply, Goto, IInv, TypeOK, RelayType
  <2>. QED
    BY <2>1, NoReply
<1>10. ASSUME NEW c \in Consumers, RemovePetition(c)
       PROVE  ErrorsInv'
  <2>1. /\ UNCHANGED <<replyColl, errColl, unsaved>> /\ (faults' = 0 => faults = 0)
        /\ \A d \in Consumers : relay'[d] = "replies" =>
             relay[d] = "replies" /\ job'[d] = job[d] /\ result'[d] = result[d]
    BY <1>1, <1>10 DEF RemovePetition, Goto, IInv, TypeOK, RelayType
  <2>. QED
    BY <2>1, NoReply
<1>11. CASE Exit \/ Crash \/ RecoverFails \/ \E c \in Consumers : ReplyPanics(c)
  <2>1. Halt /\ UNCHANGED <<replyColl, errColl, unsaved>> /\ faults' \in {faults, faults + 1}
    BY <1>11 DEF Exit, Crash, RecoverFails, ReplyPanics
  <2>. QED
    BY <1>1, <1>2, <2>1
<1>. QED
  BY <1>3, <1>4, <1>6, <1>7, <1>8, <1>9, <1>10, <1>11, ErrorsInsertError, ErrorsInsertReply
     DEF Next, Recover, ServeHTTP, Relay, Retired
----------------------------------------------------------------------------
(* RefusedInv                                                              *)

\* No request is made, the collection does not grow, and what becomes done
\* was answered 200, is in no collection, or dies with the process.
LEMMA NothingSent ==
  ASSUME IInv, RefusedInv, UNCHANGED <<attempts, runs>>, runs # 0,
         faults' = 0 => faults = 0,
         main' # "down" => main # "down",
         runs = 1 /\ main' # "down" /\ faults' = 0 =>
           \A p \in Pet :
             /\ p \in petColl' => p \in petColl \/ serve'[p] # "done"
             /\ \/ serve'[p] = serve[p] /\ answer'[p] = answer[p]
                \/ serve[p] # "done" /\ serve'[p] # "done"
                \/ serve[p] # "done" /\ (answer'[p] = 200 \/ p \notin petColl')
  PROVE  RefusedInv'
BY DEF RefusedInv

\* A process that does anything was started.
LEMMA Started == ASSUME IInv, RefusedInv, main # "down" PROVE runs # 0
BY DEF RefusedInv

LEMMA RefusedAttempt ==
  ASSUME IInv, RefusedInv, NEW c \in Consumers, Attempt(c) PROVE RefusedInv'
<1> USE DEF IInv
<1> DEFINE p == job[c]
<1>1. relay[c] = "request" /\ p \in Pet /\ Worked(p)
  BY DEF Attempt, TypeOK, RelayType, Relaying, Working, Worked
<1>2. main # "down" /\ p \in petColl
  BY <1>1 DEF PhaseInv, InFlightStored
<1>3. serve[p] = "done"
  BY <1>1, <1>2 DEF HandOverInv, FreshInv, TypeOK, ServeType, ServeStates
<1>4. \A q \in Pet \ {p} : attempts'[q] = attempts[q]
  BY <1>1 DEF Attempt, TypeOK, HistoryType
<1>5. UNCHANGED <<petColl, main, serve, answer, runs, faults>> /\ runs # 0
  BY <1>2, Started DEF Attempt, dbVars, procVars
<1>. QED
  BY <1>1, <1>2, <1>3, <1>4, <1>5 DEF RefusedInv

LEMMA RefusedStep == ASSUME IInv, RefusedInv, [Next]_vars PROVE RefusedInv'
<1> USE DEF dbVars, procVars, workVars, historyVars
<1>1. faults \in Nat /\ \A o : Operation(o) =>
        (faults' = 0 => faults = 0 /\ (o \in Outcomes => o = "ok"))
  BY DEF IInv, TypeOK, HistoryType, Operation
<1>2. CASE Start
  <2>1. runs \in Nat /\ runs' = runs + 1 /\ UNCHANGED <<petColl, serve, attempts>>
    BY <1>2 DEF Start, IInv, TypeOK, HistoryType
  <2>. QED
    BY <2>1 DEF RefusedInv
<1>3. CASE \/ RecoverReturns \/ StopListener \/ StopConsumer
           \/ \E p \in Pet : Reenqueue(p) \/ AnswerBusy(p)
           \/ \E c \in Consumers : \/ OuterSelect(c) \/ Take(c) \/ WaitEnds(c) \/ MakeReply(c)
                                   \/ InsertError(c) \/ InsertReply(c)
  <2>1. main # "down" /\ UNCHANGED <<attempts, runs, petColl>>
    BY <1>3 DEF RecoverReturns, StopListener, StopConsumer, Reenqueue, AnswerBusy, OuterSelect,
                Take, WaitEnds, MakeReply, InsertError, InsertReply, IInv, PhaseInv
  <2>2. faults' = 0 => faults = 0
    BY <1>1, <1>3 DEF RecoverReturns, StopListener, StopConsumer, Reenqueue, AnswerBusy,
                      OuterSelect, Take, WaitEnds, MakeReply, InsertError, InsertReply
  <2>3. \A p \in Pet : \/ serve'[p] = serve[p] /\ answer'[p] = answer[p]
                       \/ serve[p] # "done" /\ serve'[p] # "done"
    BY <1>3 DEF RecoverReturns, StopListener, StopConsumer, Reenqueue, AnswerBusy, OuterSelect,
                Take, WaitEnds, MakeReply, InsertError, InsertReply, IInv, TypeOK, ServeType
  <2>. QED
    BY <2>1, <2>2, <2>3, Started, NothingSent
<1>4. ASSUME NEW p \in Pet, Arrive(p)
      PROVE  RefusedInv'
  <2>1. /\ main = "serving" /\ serve[p] = "idle" /\ p \notin petColl
        /\ UNCHANGED <<attempts, runs, petColl, main, faults>>
    BY <1>4 DEF Arrive, IInv, FreshInv
  <2>2. \A q \in Pet \ {p} : serve'[q] = serve[q] /\ answer'[q] = answer[q]
    BY <1>4 DEF Arrive, Refuse, IInv, TypeOK, ServeType
  <2>. QED
    BY <2>1, <2>2, Started, NothingSent
<1>5. ASSUME NEW p \in Pet, InsertPetition(p)
      PROVE  RefusedInv'
  <2>1. PICK o \in Outcomes :
          /\ Operation(o)
          /\ petColl' = IF Applied(o) THEN petColl \cup {p} ELSE petColl
          /\ o = "ok" => serve' = [serve EXCEPT ![p] = "enqueue"]
    BY <1>5 DEF InsertPetition
  <2>2. /\ main # "down" /\ serve[p] = "insert" /\ UNCHANGED <<attempts, runs, main>>
        /\ \A q \in Pet \ {p} : serve'[q] = serve[q] /\ answer'[q] = answer[q]
    BY <1>5 DEF InsertPetition, Refuse, IInv, PhaseInv, TypeOK, ServeType
  <2>3. faults' = 0 => faults = 0 /\ serve'[p] = "enqueue"
    BY <1>1, <2>1 DEF IInv, TypeOK, ServeType
  <2>. QED
    BY <2>1, <2>2, <2>3, Started, NothingSent
<1>6. ASSUME NEW p \in Pet, Enqueue(p)
      PROVE  RefusedInv'
  <2>1. /\ main # "down" /\ serve[p] = "enqueue" /\ answer'[p] = 200
        /\ UNCHANGED <<attempts, runs, petColl, main, faults>>
        /\ \A q \in Pet \ {p} : serve'[q] = serve[q] /\ answer'[q] = answer[q]
    BY <1>6 DEF Enqueue, IInv, PhaseInv, TypeOK, ServeType
  <2>. QED
    BY <2>1, Started, NothingSent
<1>7. ASSUME NEW p \in Pet, RemoveRefused(p)
      PROVE  RefusedInv'
  <2>1. PICK o \in Outcomes :
          Operation(o) /\ petColl' = IF Applied(o) THEN petColl \ {p} ELSE petColl
    BY <1>7 DEF RemoveRefused
  <2>2. /\ main # "down" /\ serve[p] = "remove" /\ UNCHANGED <<attempts, runs, main, answer>>
        /\ \A q \in Pet \ {p} : serve'[q] = serve[q]
    BY <1>7 DEF RemoveRefused, IInv, PhaseInv, TypeOK, ServeType
  <2>3. /\ faults' = 0 => faults = 0 /\ p \notin petColl'
        /\ petColl' \subseteq petColl
    BY <1>1, <2>1 DEF Applied
  <2>. QED
    BY <2>2, <2>3, Started, NothingSent
<1>8. ASSUME NEW c \in Consumers, RemovePetition(c)
      PROVE  RefusedInv'
  <2>1. /\ main # "down" /\ UNCHANGED <<attempts, runs, main, serve, answer>>
        /\ petColl' \subseteq petColl /\ (faults' = 0 => faults = 0)
    BY <1>1, <1>8 DEF RemovePetition, IInv, PhaseInv
  <2>. QED
    BY <2>1, Started, NothingSent
<1>9. CASE Exit \/ Crash \/ RecoverFails \/ \E c \in Consumers : ReplyPanics(c)
  <2>1. Halt /\ UNCHANGED <<runs, attempts>> /\ faults' \in {faults, faults + 1} /\ main # "down"
    BY <1>9 DEF Exit, Crash, RecoverFails, ReplyPanics, IInv, PhaseInv
  <2>2. main' = "down" /\ (faults' = 0 => faults = 0)
    BY <1>1, <2>1 DEF Halt
  <2>. QED
    BY <2>1, <2>2, Started, NothingSent
<1>10. CASE UNCHANGED vars
  BY <1>10 DEF RefusedInv, vars
<1>. QED
  BY <1>2, <1>3, <1>4, <1>5, <1>6, <1>7, <1>8, <1>9, <1>10, RefusedAttempt
     DEF Next, Recover, ServeHTTP, Relay, Retired

----------------------------------------------------------------------------
LEMMA PromisesHold == Spec => [](IInv /\ PromisesInv)
<1>1. Init => IInv /\ PromisesInv
  BY InvInit, PromisesInit
<1>2. IInv /\ PromisesInv /\ [Next]_vars => (IInv /\ PromisesInv)'
  <2> SUFFICES ASSUME IInv, PromisesInv, [Next]_vars PROVE (IInv /\ PromisesInv)'
    OBVIOUS
  <2>1. IInv'
    BY InvStep
  <2>. QED
    BY <2>1, AttemptStep, ErrorsStep, RefusedStep DEF PromisesInv
<1>. QED
  BY <1>1, <1>2, PTL DEF Spec

\* A target host never sees more than Retries + 1 requests each time its
\* petition is relayed, and a petition is relayed once more for each crash
\* and each error of the database at most (doRequest and Recover).
THEOREM FewAttempts == Spec => []AttemptBound
<1>1. IInv /\ PromisesInv => AttemptBound
  <2> SUFFICES ASSUME IInv, PromisesInv, NEW p \in Pet
               PROVE  attempts[p] <= (Retries + 1) * (1 + Mishaps)
    BY DEF AttemptBound
  <2>1. Mishaps \in Nat
    BY MishapsType DEF IInv
  <2>2. 1 + Mishaps = Mishaps + 1
    BY <2>1
  <2>. QED
    BY <2>2 DEF PromisesInv, AttemptInv, Bound
<1>. QED
  BY <1>1, PromisesHold, PTL

\* Without database errors every erroneous reply that a client can ask for is
\* in the errors collection too, whenever the process died (process()).
THEOREM EveryErrorRecorded == Spec => []ErrorsRecorded
<1>1. PromisesInv => ErrorsRecorded
  BY DEF PromisesInv, ErrorsInv, ErrorsRecorded
<1>. QED
  BY <1>1, PromisesHold, PTL

\* A stop without crashes and database errors neither loses nor repeats: what
\* is left was never sent, and what was accepted otherwise has one reply.
THEOREM StopsClean == Spec => []CleanStop
<1>1. IInv /\ PromisesInv => CleanStop
  <2> SUFFICES ASSUME IInv, PromisesInv, crashes = 0, faults = 0, main = "down", NEW p \in Pet
               PROVE  /\ p \in petColl => attempts[p] = 0 /\ ~Replied(p)
                      /\ answer[p] = 200 /\ p \notin petColl => Len(replyColl[p]) = 1
    BY DEF CleanStop
  <2> USE DEF IInv
  <2>1. Mishaps = 0 /\ Bound(0) = 0
    BY ConstantsAssumption DEF Mishaps, Bound
  <2>2. ~Worked(p) /\ \A c \in Consumers : relay[c] # "remove"
    BY DEF PhaseInv, Worked, Relaying, Working
  <2>3. /\ attempts[p] \in Nat /\ replyColl[p] \in Seq(Kinds)
        /\ Len(replyColl[p]) \in Nat
        /\ replyColl[p] = <<>> <=> Len(replyColl[p]) = 0
    BY LenProperties, EmptySeq DEF TypeOK, HistoryType, DbType
  <2>4. p \in petColl => attempts[p] = 0
    BY <2>1, <2>2, <2>3 DEF PromisesInv, AttemptInv
  <2>5. p \in petColl => Len(replyColl[p]) = 0
    BY <2>1, <2>2, <2>3 DEF ReplyInv
  <2>6. answer[p] = 200 /\ p \notin petColl => replyColl[p] # <<>>
    BY DEF PromisesInv, ErrorsInv, AcceptedNotLost, Replied
  <2>7. Len(replyColl[p]) <= 1
    BY <2>1 DEF ReplyInv
  <2>8. \A n \in Nat : n <= 1 /\ n # 0 => n = 1
    OBVIOUS
  <2>9. Replied(p) => Len(replyColl[p]) = 1
    BY <2>3, <2>7, <2>8 DEF Replied
  <2>10. p \in petColl => ~Replied(p)
    BY <2>3, <2>5 DEF Replied
  <2>. QED
    BY <2>4, <2>6, <2>9, <2>10 DEF Replied
<1>. QED
  BY <1>1, PromisesHold, PTL

\* In the first run a request that was refused, and whose ServeHTTP is over,
\* has left nothing to relay, unless the database reported an error.
THEOREM RefusedLeaveNothing == Spec => []RefusedForgotten
<1>1. PromisesInv => RefusedForgotten
  BY DEF PromisesInv, RefusedInv, RefusedForgotten
<1>. QED
  BY <1>1, PromisesHold, PTL

----------------------------------------------------------------------------
(* Gridas implements StoreAndForward: every step is a step of the promise  *)
(* made to the clients, or leaves it as it is.                             *)

USE DEF dbVars, procVars, workVars, historyVars

\* A step of the abstract specification, or none.
PromiseStep == Promise!Next \/ UNCHANGED Promise!vars

LEMMA InitRefines == ASSUME Init PROVE Promise!Init
<1>1. \A p \in Pet : StageOf(p) = "fresh"
  BY DEF Init, StageOf
<1>2. Stage = [p \in Pet |-> "fresh"]
  BY <1>1 DEF Stage
<1>3. Excused = {}
  BY DEF Init, Excused
<1>4. replyColl = [p \in Pet |-> <<>>]
  BY DEF Init
<1>. QED
  BY <1>2, <1>3, <1>4 DEF Promise!Init

\* The promise speaks of five variables.
LEMMA Stutters ==
  ASSUME UNCHANGED <<petColl, replyColl, unsaved, serve, answer>>
  PROVE  PromiseStep
<1>1. Stage' = Stage /\ Excused' = Excused
  BY DEF Stage, StageOf, Excused
<1>. QED
  BY <1>1 DEF PromiseStep, Promise!vars

\* What the stages are, by the program counter of ServeHTTP.
LEMMA Stages ==
  ASSUME IInv, NEW p \in Pet
  PROVE  /\ StageOf(p) = "held" <=> p \in petColl
         /\ StageOf(p) = "fresh" <=> serve[p] \in {"idle", "insert"}
  BY DEF StageOf, IInv, FreshInv

\* The end of the process drops the requests that were about to be stored.
LEMMA HaltRefines ==
  ASSUME IInv, Halt, UNCHANGED <<petColl, replyColl, unsaved, answer>>
  PROVE  PromiseStep
<1> DEFINE S == {p \in Pet : serve[p] = "insert"}
<1>1. \A p \in S : StageOf(p) = "fresh"
  BY Stages
<1>2. \A p \in Pet : StageOf(p)' = IF p \in S THEN "dropped" ELSE StageOf(p)
  BY DEF Halt, StageOf, IInv, FreshInv, TypeOK, ServeType, ServeStates
<1>3. /\ Excused' = Excused \cup {}
      /\ replyColl' = replyColl
      /\ Stage' = [p \in Pet |-> IF p \in S THEN "dropped" ELSE Stage[p]]
      /\ \A p \in S : Stage[p] = "fresh"
  BY <1>1, <1>2 DEF Excused, Stage
<1>4. Promise!Refuse(S)
  BY <1>3 DEF Promise!Refuse
<1>5. S \in SUBSET Pet
  OBVIOUS
<1>. QED
  BY <1>4, <1>5 DEF PromiseStep, Promise!Next

\* A request refused at once is dropped, another one stays fresh.
LEMMA ArriveRefines == ASSUME IInv, NEW p \in Pet, Arrive(p) PROVE PromiseStep
<1>1. /\ serve[p] = "idle" /\ answer[p] = 0 /\ p \notin petColl
      /\ \/ serve'[p] = "done" /\ answer'[p] \in {400, 503}
         \/ serve'[p] = "insert" /\ answer' = answer
      /\ \A q \in Pet \ {p} : serve'[q] = serve[q] /\ answer'[q] = answer[q]
      /\ UNCHANGED <<petColl, replyColl, unsaved>>
  <2>1. serve \in [Pet -> ServeStates] /\ \E S : answer \in [Pet -> S]
    BY DEF IInv, TypeOK, ServeType
  <2>2. serve[p] = "idle" /\ answer[p] = 0 /\ p \notin petColl
    BY DEF Arrive, IInv, FreshInv
  <2>3. UNCHANGED <<petColl, replyColl, unsaved>>
    BY DEF Arrive
  <2>4. \/ /\ serve' = [serve EXCEPT ![p] = "insert"]
           /\ answer' = answer
        \/ /\ serve' = [serve EXCEPT ![p] = "done"]
           /\ \E code \in {400, 503} : answer' = [answer EXCEPT ![p] = code]
    BY DEF Arrive, Refuse
  <2>. QED
    BY <2>1, <2>2, <2>3, <2>4
<1>2. Excused' = Excused
  BY <1>1 DEF Excused
<1>3. \A q \in Pet \ {p} : StageOf(q)' = StageOf(q)
  BY <1>1 DEF StageOf
<1>4. CASE serve'[p] = "insert"
  <2>1. StageOf(p)' = StageOf(p)
    BY <1>1, <1>4 DEF StageOf
  <2>2. Stage' = Stage
    BY <1>3, <2>1 DEF Stage
  <2>. QED
    BY <1>1, <1>2, <2>2 DEF PromiseStep, Promise!vars
<1>5. CASE serve'[p] = "done"
  <2>1. StageOf(p) = "fresh" /\ StageOf(p)' = "dropped"
    BY <1>1, <1>5 DEF StageOf
  <2>2. /\ Stage' = [q \in Pet |-> IF q \in {p} THEN "dropped" ELSE Stage[q]]
        /\ \A q \in {p} : Stage[q] = "fresh"
    BY <1>3, <2>1 DEF Stage
  <2>3. Excused' = Excused \cup {}
    BY <1>2
  <2>4. Promise!Refuse({p})
    BY <1>1, <2>2, <2>3 DEF Promise!Refuse
  <2>. QED
    BY <2>4 DEF PromiseStep, Promise!Next
<1>. QED
  BY <1>1, <1>4, <1>5

\* The Insert holds the petition, also when it reports an error after its
\* effect; when it has no effect the request is dropped.
LEMMA InsertPetitionRefines ==
  ASSUME IInv, NEW p \in Pet, InsertPetition(p) PROVE PromiseStep
<1>1. /\ serve[p] = "insert" /\ answer[p] = 0 /\ p \notin petColl
      /\ \/ serve'[p] = "enqueue" /\ answer'[p] = 0 /\ p \in petColl'
         \/ serve'[p] = "done" /\ answer'[p] = 500
      /\ \A q \in Pet \ {p} : /\ serve'[q] = serve[q] /\ answer'[q] = answer[q]
                              /\ q \in petColl' <=> q \in petColl
      /\ UNCHANGED <<replyColl, unsaved>>
  <2>1. serve \in [Pet -> ServeStates] /\ \E S : answer \in [Pet -> S]
    BY DEF IInv, TypeOK, ServeType
  <2>2. serve[p] = "insert" /\ answer[p] = 0 /\ p \notin petColl
    BY DEF InsertPetition, IInv, FreshInv
  <2>3. UNCHANGED <<replyColl, unsaved>>
    BY DEF InsertPetition
  <2>4. petColl' = petColl \cup {p} \/ petColl' = petColl
    BY DEF InsertPetition
  <2>5. \/ /\ serve' = [serve EXCEPT ![p] = "enqueue"]
           /\ answer' = answer
           /\ petColl' = petColl \cup {p}
        \/ /\ serve' = [serve EXCEPT ![p] = "done"]
           /\ answer' = [answer EXCEPT ![p] = 500]
    BY DEF InsertPetition, Applied, Refuse
  <2>. QED
    BY <2>1, <2>2, <2>3, <2>4, <2>5
<1>2. \A q \in Pet \ {p} : StageOf(q)' = StageOf(q)
  BY <1>1 DEF StageOf
<1>3. StageOf(p) = "fresh"
  BY <1>1 DEF StageOf
<1>4. Excused' = Excused \/ Excused' = Excused \cup {p}
  BY <1>1 DEF Excused
<1>5. CASE p \in petColl'
  <2>1. StageOf(p)' = "held"
    BY <1>5 DEF StageOf
  <2>2. Stage' = [Stage EXCEPT ![p] = "held"] /\ Stage[p] = "fresh"
    BY <1>2, <1>3, <2>1 DEF Stage
  <2>3. Promise!Hold(p)
    BY <1>1, <1>4, <2>2 DEF Promise!Hold
  <2>. QED
    BY <2>3 DEF PromiseStep, Promise!Next
<1>6. CASE p \notin petColl'
  <2>1. StageOf(p)' = "dropped"
    BY <1>1, <1>6 DEF StageOf
  <2>2. /\ Stage' = [q \in Pet |-> IF q \in {p} THEN "dropped" ELSE Stage[q]]
        /\ \A q \in {p} : Stage[q] = "fresh"
    BY <1>2, <1>3, <2>1 DEF Stage
  <2>3. \E E \in SUBSET {p} : Excused' = Excused \cup E
    <3>1. CASE Excused' = Excused
      <4>1. Excused' = Excused \cup {}
        BY <3>1
      <4>. QED
        BY <4>1
    <3>2. CASE Excused' = Excused \cup {p}
      BY <3>2
    <3>. QED
      BY <1>4, <3>1, <3>2
  <2>4. Promise!Refuse({p})
    BY <1>1, <2>2, <2>3 DEF Promise!Refuse
  <2>. QED
    BY <2>4 DEF PromiseStep, Promise!Next
<1>. QED
  BY <1>5, <1>6

\* The answer with the id changes nothing of the promise.
LEMMA EnqueueRefines ==
  ASSUME IInv, NEW p \in Pet, Enqueue(p) PROVE PromiseStep
<1>1. /\ serve[p] = "enqueue" /\ answer[p] = 0 /\ p \in petColl
      /\ answer'[p] = 200
      /\ \A q \in Pet \ {p} : serve'[q] = serve[q] /\ answer'[q] = answer[q]
      /\ UNCHANGED <<petColl, replyColl, unsaved>>
  <2>1. serve \in [Pet -> ServeStates] /\ \E S : answer \in [Pet -> S]
    BY DEF IInv, TypeOK, ServeType
  <2>2. serve[p] = "enqueue" /\ answer[p] = 0 /\ p \in petColl
    BY DEF Enqueue, IInv, RemoveInv, InFlightStored
  <2>3. /\ serve' = [serve EXCEPT ![p] = "done"]
        /\ answer' = [answer EXCEPT ![p] = 200]
        /\ UNCHANGED <<petColl, replyColl, unsaved>>
    BY DEF Enqueue
  <2>. QED
    BY <2>1, <2>2, <2>3
<1>2. Excused' = Excused
  BY <1>1 DEF Excused
<1>3. \A q \in Pet : StageOf(q)' = StageOf(q)
  BY <1>1 DEF StageOf
<1>4. Stage' = Stage
  BY <1>3 DEF Stage
<1>. QED
  BY <1>1, <1>2, <1>4 DEF PromiseStep, Promise!vars

\* The busy answer excuses the petition, which is still held.
LEMMA AnswerBusyRefines ==
  ASSUME IInv, NEW p \in Pet, AnswerBusy(p) PROVE PromiseStep
<1>1. /\ serve[p] = "enqueue" /\ p \in petColl
      /\ answer'[p] = 500
      /\ \A q \in Pet \ {p} : serve'[q] = serve[q] /\ answer'[q] = answer[q]
      /\ UNCHANGED <<petColl, replyColl, unsaved>>
  <2>1. serve \in [Pet -> ServeStates] /\ \E S : answer \in [Pet -> S]
    BY DEF IInv, TypeOK, ServeType
  <2>2. serve[p] = "enqueue" /\ p \in petColl
    BY DEF AnswerBusy, IInv, InFlightStored
  <2>3. /\ serve' = [serve EXCEPT ![p] = "remove"]
        /\ answer' = [answer EXCEPT ![p] = 500]
        /\ UNCHANGED <<petColl, replyColl, unsaved>>
    BY DEF AnswerBusy
  <2>. QED
    BY <2>1, <2>2, <2>3
<1>2. Excused' = Excused \cup {p}
  BY <1>1 DEF Excused
<1>3. \A q \in Pet : StageOf(q)' = StageOf(q)
  BY <1>1 DEF StageOf
<1>4. Stage' = Stage /\ Stage[p] = "held"
  BY <1>1, <1>3 DEF Stage, StageOf
<1>5. Promise!Excuse(p)
  BY <1>1, <1>2, <1>4 DEF Promise!Excuse
<1>. QED
  BY <1>5 DEF PromiseStep, Promise!Next

\* A removed petition is dropped: its client was told, or its reply was
\* inserted or lost.
LEMMA RemoveRefines ==
  ASSUME IInv, NEW p \in Pet, p \in petColl, Replied(p) \/ p \in Excused,
         petColl' = petColl \ {p}, serve'[p] \notin {"idle", "insert"},
         \A q \in Pet \ {p} : serve'[q] = serve[q],
         UNCHANGED <<replyColl, unsaved, answer>>
  PROVE  PromiseStep
<1>1. \A q \in Pet \ {p} : StageOf(q)' = StageOf(q)
  BY DEF StageOf
<1>2. StageOf(p) = "held" /\ StageOf(p)' = "dropped"
  BY DEF StageOf
<1>3. Stage' = [Stage EXCEPT ![p] = "dropped"] /\ Stage[p] = "held"
  BY <1>1, <1>2 DEF Stage
<1>4. Excused' = Excused
  BY DEF Excused
<1>5. Promise!Drop(p)
  BY <1>3, <1>4 DEF Promise!Drop, Replied
<1>. QED
  BY <1>5 DEF PromiseStep, Promise!Next

\* A Remove without effect changes nothing of the promise.
LEMMA KeepRefines ==
  ASSUME NEW p \in Pet, p \in petColl,
         \A q \in Pet \ {p} : serve'[q] = serve[q],
         UNCHANGED <<petColl, replyColl, unsaved, answer>>
  PROVE  PromiseStep
<1>1. \A q \in Pet : StageOf(q)' = StageOf(q)
  BY DEF StageOf
<1>2. Stage' = Stage /\ Excused' = Excused
  BY <1>1 DEF Stage, Excused
<1>. QED
  BY <1>2 DEF PromiseStep, Promise!vars

LEMMA RemoveRefusedRefines ==
  ASSUME IInv, NEW p \in Pet, RemoveRefused(p) PROVE PromiseStep
<1>1. /\ p \in petColl /\ answer[p] = 500 /\ serve'[p] = "done"
      /\ \A q \in Pet \ {p} : serve'[q] = serve[q]
      /\ petColl' = petColl \ {p} \/ petColl' = petColl
      /\ UNCHANGED <<replyColl, unsaved, answer>>
  <2>1. serve \in [Pet -> ServeStates]
    BY DEF IInv, TypeOK, ServeType
  <2>2. serve[p] = "remove" /\ answer[p] = 500 /\ p \in petColl
    BY DEF RemoveRefused, IInv, RemoveInv, InFlightStored
  <2>3. /\ serve' = [serve EXCEPT ![p] = "done"]
        /\ UNCHANGED <<replyColl, unsaved, answer>>
    BY DEF RemoveRefused
  <2>4. petColl' = petColl \ {p} \/ petColl' = petColl
    BY DEF RemoveRefused
  <2>. QED
    BY <2>1, <2>2, <2>3, <2>4
<1>2. p \in Excused
  BY <1>1 DEF Excused
<1>3. CASE petColl' = petColl \ {p}
  BY <1>1, <1>2, <1>3, RemoveRefines
<1>4. CASE petColl' = petColl
  BY <1>1, <1>4, KeepRefines
<1>. QED
  BY <1>1, <1>3, <1>4

LEMMA RemovePetitionRefines ==
  ASSUME IInv, NEW c \in Consumers, RemovePetition(c) PROVE PromiseStep
<1> DEFINE p == job[c]
<1>1. /\ relay[c] = "remove" /\ p \in Pet
      /\ petColl' = petColl \ {p} \/ petColl' = petColl
      /\ UNCHANGED <<replyColl, serve, unsaved, answer>>
  <2>1. relay[c] = "remove"
    BY DEF RemovePetition
  <2>2. p \in Pet
    BY <2>1 DEF IInv, TypeOK, RelayType, Relaying, Working
  <2>3. petColl' = petColl \ {p} \/ petColl' = petColl
    BY DEF RemovePetition
  <2>4. UNCHANGED <<replyColl, serve, unsaved, answer>>
    BY DEF RemovePetition
  <2>. QED
    BY <2>1, <2>2, <2>3, <2>4
<1>2. Worked(p)
  BY <1>1 DEF Worked, Relaying, Working
<1>3. p \in petColl
  BY <1>1, <1>2 DEF IInv, InFlightStored
<1>4. Replied(p) \/ p \in Excused
  BY <1>1 DEF IInv, RemoveInv, Excused
<1>5. serve'[p] \notin {"idle", "insert"}
  BY <1>1, <1>3 DEF IInv, FreshInv
<1>6. CASE petColl' = petColl \ {p}
  BY <1>1, <1>3, <1>4, <1>5, <1>6, RemoveRefines
<1>7. CASE petColl' = petColl
  BY <1>1, <1>3, <1>7, KeepRefines
<1>. QED
  BY <1>1, <1>6, <1>7

\* The reply is added to a petition that is held, or excuses it.
LEMMA InsertReplyRefines ==
  ASSUME IInv, NEW c \in Consumers, InsertReply(c) PROVE PromiseStep
<1> DEFINE p == job[c]
<1>1. /\ relay[c] = "replies" /\ p \in Pet /\ result[c] \in Kinds
      /\ UNCHANGED <<petColl, serve, answer>>
      /\ \/ /\ replyColl' = [replyColl EXCEPT ![p] = Append(@, result[c])]
            /\ unsaved' = unsaved
         \/ replyColl' = replyColl /\ unsaved' = unsaved \cup {p}
  <2>1. relay[c] = "replies"
    BY DEF InsertReply
  <2>2. p \in Pet /\ result[c] \in Kinds
    BY <2>1 DEF IInv, TypeOK, RelayType, Relaying, Working
  <2>3. UNCHANGED <<petColl, serve, answer>>
    BY DEF InsertReply
  <2>4. \/ /\ replyColl' = [replyColl EXCEPT ![p] = Append(@, result[c])]
           /\ unsaved' = unsaved
        \/ replyColl' = replyColl /\ unsaved' = unsaved \cup {p}
    <3>1. \E o \in Outcomes :
            /\ replyColl' = IF Applied(o)
                              THEN [replyColl EXCEPT ![p] = Append(@, result[c])]
                              ELSE replyColl
            /\ unsaved' = IF Applied(o) THEN unsaved ELSE unsaved \cup {p}
      BY DEF InsertReply
    <3>. QED
      BY <3>1
  <2>. QED
    BY <2>1, <2>2, <2>3, <2>4
<1>2. p \in petColl
  BY <1>1 DEF IInv, InFlightStored, Worked, Relaying, Working
<1>3. Stage' = Stage
  BY <1>1 DEF Stage, StageOf
<1>4. Stage[p] = "held"
  BY <1>1, <1>2 DEF Stage, StageOf
<1>5. CASE /\ replyColl' = [replyColl EXCEPT ![p] = Append(@, result[c])]
           /\ unsaved' = unsaved
  <2>1. Excused' = Excused
    BY <1>1, <1>5 DEF Excused
  <2>2. Promise!Reply(p, result[c])
    BY <1>3, <1>4, <1>5, <2>1 DEF Promise!Reply
  <2>. QED
    BY <1>1, <2>2 DEF PromiseStep, Promise!Next
<1>6. CASE replyColl' = replyColl /\ unsaved' = unsaved \cup {p}
  <2>1. Excused' = Excused \cup {p}
    BY <1>1, <1>6 DEF Excused
  <2>2. Promise!Excuse(p)
    BY <1>3, <1>4, <1>6, <2>1 DEF Promise!Excuse
  <2>. QED
    BY <1>1, <2>2 DEF PromiseStep, Promise!Next
<1>. QED
  BY <1>1, <1>5, <1>6

\* Every step of Gridas is a step of the promise or a stutter of it.
LEMMA StepRefines == ASSUME IInv, [Next]_vars PROVE PromiseStep
<1> DEFINE Same == UNCHANGED <<petColl, replyColl, unsaved, serve, answer>>
           Survives == UNCHANGED <<petColl, replyColl, unsaved, answer>>
<1>1. CASE \/ Start \/ Recover \/ StopListener \/ StopConsumer
           \/ UNCHANGED vars
  <2>1. ASSUME Start PROVE Same
    BY <2>1 DEF Start
  <2>2. ASSUME Recover PROVE Same
    BY <2>2 DEF Recover, Reenqueue, RecoverReturns
  <2>3. ASSUME StopListener \/ StopConsumer PROVE Same
    BY <2>3 DEF StopListener, StopConsumer
  <2>4. ASSUME UNCHANGED vars PROVE Same
    BY <2>4 DEF vars
  <2>. QED
    BY <1>1, <2>1, <2>2, <2>3, <2>4, Stutters
<1>2. ASSUME NEW p \in Pet, Arrive(p) \/ ServeHTTP(p) PROVE PromiseStep
  BY <1>2, ArriveRefines, InsertPetitionRefines, EnqueueRefines,
     AnswerBusyRefines, RemoveRefusedRefines
  DEF ServeHTTP
<1>3. ASSUME NEW c \in Consumers, Relay(c) PROVE PromiseStep
  <2>1. ASSUME OuterSelect(c) \/ WaitEnds(c) PROVE Same
    BY <2>1 DEF OuterSelect, WaitEnds
  <2>2. ASSUME Take(c) PROVE Same
    BY <2>2 DEF Take
  <2>3. ASSUME Attempt(c) PROVE Same
    BY <2>3 DEF Attempt
  <2>4. ASSUME MakeReply(c) \/ InsertError(c) PROVE Same
    BY <2>4 DEF MakeReply, InsertError
  <2>5. CASE InsertReply(c) \/ RemovePetition(c)
    BY <2>5, InsertReplyRefines, RemovePetitionRefines
  <2>. QED
    BY <1>3, <2>1, <2>2, <2>3, <2>4, <2>5, Stutters DEF Relay
<1>4. CASE RecoverFails \/ Exit \/ Crash \/ \E c \in Consumers : ReplyPanics(c)
  <2>1. ASSUME RecoverFails PROVE Halt /\ Survives
    BY <2>1 DEF RecoverFails
  <2>2. ASSUME Exit \/ Crash PROVE Halt /\ Survives
    BY <2>2 DEF Exit, Crash
  <2>3. ASSUME NEW c \in Consumers, ReplyPanics(c) PROVE Halt /\ Survives
    BY <2>3 DEF ReplyPanics
  <2>. QED
    BY <1>4, <2>1, <2>2, <2>3, HaltRefines
<1>. QED
  BY <1>1, <1>2, <1>3, <1>4 DEF Next, Retired

\* Gridas implements the store-and-forward promise.
THEOREM Refinement == Spec => Implements
<1>1. Init => Promise!Init
  BY InitRefines
<1>2. IInv /\ [Next]_vars => [Promise!Next]_(Promise!vars)
  BY StepRefines DEF PromiseStep
<1>. QED
  BY <1>1, <1>2, Invariance, PTL DEF Spec, Implements, Promise!Spec
=============================================================================
