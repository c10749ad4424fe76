------------------------------- MODULE Gridas -------------------------------
(***************************************************************************)
(* A gridas process with its restarts: main() of gridas/gridas.go composes *)
(* the Listener, the Consumer and the Recoverer.                           *)
(***************************************************************************)
EXTENDS Listener, Consumer, Recoverer

\* Mutant: the consumer is not started before the recoverer.
StartWithoutConsumer ==
    /\ main = "down"
    /\ runs < MaxRuns
    /\ runs' = runs + 1
    /\ main' = "recovering"
    /\ UNCHANGED <<dbVars, reqChan, seen, endChan, stopping, serve, answer,
                   workVars, attempts, unsaved, crashes, faults>>

\* main() up to the call of Recover: the goroutines of the consumer run, and
\* the channel is empty.
Start ==
    /\ main = "down"
    /\ runs < MaxRuns
    /\ runs' = runs + 1
    /\ main' = "recovering"
    /\ relay' = [c \in Consumers |-> "loop"]
    /\ UNCHANGED <<dbVars, reqChan, seen, endChan, stopping, serve, answer,
                   job, retry, result, late, attempts, unsaved, crashes,
                   faults>>

\* The goroutine of onEnd got a signal: listener.Stop(), then consumer.Stop().
StopListener ==
    /\ main = "serving"
    /\ ~stopping
    /\ stopping' = TRUE
    /\ UNCHANGED <<dbVars, reqChan, main, seen, endChan, serve, answer,
                   workVars, historyVars, faults>>

StopConsumer ==
    /\ stopping
    /\ ~endChan
    /\ endChan' = TRUE
    /\ UNCHANGED <<dbVars, reqChan, main, seen, stopping, serve, answer,
                   workVars, historyVars, faults>>

\* Mutant: main returns without waiting for the goroutines.
ExitAtOnce ==
    /\ main = "serving"
    /\ endChan
    /\ Halt
    /\ UNCHANGED <<dbVars, answer, historyVars, faults>>

\* c.wg.Wait() and finalDone <- true; main receives it and returns, whatever
\* the requests still being served.
Exit ==
    /\ main = "serving"
    /\ \A c \in Consumers : relay[c] = "done"
    /\ Halt
    /\ UNCHANGED <<dbVars, answer, historyVars, faults>>

\* The process is killed, or the machine goes down.
Crash ==
    /\ main # "down"
    /\ crashes < MaxCrashes
    /\ crashes' = crashes + 1
    /\ Halt
    /\ UNCHANGED <<dbVars, answer, attempts, unsaved, runs, faults>>

\* Nobody starts it again.
Retired == main = "down" /\ runs = MaxRuns /\ UNCHANGED vars

Next ==
    \/ Start
    \/ Recover
    \/ RecoverFails
    \/ \E p \in Pet : Arrive(p) \/ ServeHTTP(p)
    \/ \E c \in Consumers : Relay(c) \/ ReplyPanics(c)
    \/ StopListener
    \/ StopConsumer
    \/ Exit
    \/ Crash
    \/ Retired

\* Goroutines that can run do run, and a target host answers or fails in the
\* end. Nothing says that a client sends a request, a signal comes, or that
\* anybody starts the process again.
Fairness ==
    /\ WF_vars(Recover)
    /\ WF_vars(StopConsumer)
    /\ WF_vars(Exit)
    /\ \A p \in Pet : WF_vars(ServeHTTP(p))
    /\ \A c \in Consumers : WF_vars(Relay(c))

Spec == Init /\ [][Next]_vars

FairSpec == Spec /\ Fairness

----------------------------------------------------------------------------
(* Safety                                                                  *)

\* A goroutine is inside process().
Relaying(c) == relay[c] \in Working

DbType ==
    /\ petColl \subseteq Pet
    /\ replyColl \in [Pet -> Seq(Kinds)]
    /\ errColl \in [Pet -> SUBSET Kinds]

ChannelType ==
    /\ reqChan \in Seq(Pet)
    /\ Len(reqChan) <= QueueSize

MainType ==
    /\ main \in MainStates
    /\ seen \subseteq Pet
    /\ endChan \in BOOLEAN
    /\ stopping \in BOOLEAN

ServeType ==
    /\ serve \in [Pet -> ServeStates]
    /\ answer \in [Pet -> {0, 200, 400, 500, 503}]

RelayType ==
    /\ relay \in [Consumers -> RelayStates]
    /\ job \in [Consumers -> Pet \cup {NoPet}]
    /\ \A c \in Consumers : Relaying(c) => job[c] \in Pet
    /\ retry \in [Consumers -> 0..Retries]
    /\ result \in [Consumers -> Kinds]
    /\ late \in [Consumers -> Nat]

HistoryType ==
    /\ attempts \in [Pet -> Nat]
    /\ unsaved \subseteq Pet
    /\ runs \in Nat
    /\ crashes \in Nat
    /\ faults \in Nat

\* Every variable keeps its type; the channel keeps its capacity, and a
\* goroutine inside process() has a petition.
TypeOK ==
    /\ DbType
    /\ ChannelType
    /\ MainType
    /\ ServeType
    /\ RelayType
    /\ HistoryType

Queued(p) == \E i \in 1..Len(reqChan) : reqChan[i] = p
Worked(p) == \E c \in Consumers : Relaying(c) /\ job[c] = p
Replied(p) == replyColl[p] # <<>>

\* What went wrong so far.
Mishaps == crashes + faults

\* A petition on its way to a target host is stored: while it is in the
\* channel, in process(), or between its Insert and the select of ServeHTTP, a
\* crash leaves it for the recoverer, and a Remove finds its document.
InFlightStored ==
    \A p \in Pet :
        Queued(p) \/ Worked(p) \/ serve[p] \in {"enqueue", "remove"}
            => p \in petColl

\* A petition is never twice in the channel and the goroutines together, what
\* the comment of Recover() warns of: the recoverer, the listener and a
\* restart never hand over the same petition again while it is being relayed.
NoDoubleDispatch ==
    /\ \A i, j \in 1..Len(reqChan) : reqChan[i] = reqChan[j] => i = j
    /\ \A c \in Consumers :
         Relaying(c) =>
             /\ ~Queued(job[c])
             /\ \A d \in Consumers \ {c} :
                  Relaying(d) => job[d] # job[c]

\* A petition whose id was given to the client is still stored or has a reply,
\* whatever crashes, stops and database errors there were, unless the insert
\* of its reply was lost: process() then removes the petition all the same.
AcceptedNotLost ==
    \A p \in Pet :
        answer[p] = 200 => p \in petColl \/ Replied(p) \/ p \in unsaved

\* A petition is relayed again only because of a crash or of a database
\* error, and each of these adds at most one reply to the collection.
DuplicateBound ==
    \A p \in Pet : Len(replyColl[p]) <= 1 + Mishaps

\* A target host sees at most Retries + 1 requests each time its petition is
\* relayed.
AttemptBound ==
    \A p \in Pet : attempts[p] <= (Retries + 1) * (1 + Mishaps)

\* Without database errors, every erroneous reply in the responses collection
\* is in the errors collection too, also when process() died half way.
ErrorsRecorded ==
    faults = 0 =>
        \A p \in Pet : \A i \in 1..Len(replyColl[p]) :
            Erroneous(replyColl[p][i]) => replyColl[p][i] \in errColl[p]

\* Without crashes and database errors, stopping the process loses and
\* repeats nothing: what is left in the collection was never sent to its
\* target host, and every other accepted petition has just one reply.
CleanStop ==
    crashes = 0 /\ faults = 0 /\ main = "down" =>
        \A p \in Pet :
            /\ p \in petColl => attempts[p] = 0 /\ ~Replied(p)
            /\ answer[p] = 200 /\ p \notin petColl => Len(replyColl[p]) = 1

\* A request refused by a ServeHTTP that ended in the running process leaves
\* nothing to relay, if the database reported no error. (A stop before the
\* Remove of the busy branch leaves the petition to the next recoverer.)
RefusedForgotten ==
    runs = 1 /\ main = "serving" /\ faults = 0 =>
        \A p \in Pet :
            serve[p] = "done" /\ answer[p] # 200 =>
                p \notin petColl /\ attempts[p] = 0

\* Once endChan is closed a goroutine takes at most one petition more: the
\* inner select of relay() may still choose the channel, the outer never.
LateBound == \A c \in Consumers : late[c] <= 1

----------------------------------------------------------------------------
(* The inductive invariant: what the code relies on from one step to the    *)
(* next.                                                                    *)

\* The flags and the goroutines follow main().
PhaseInv ==
    /\ main # "serving" =>
         /\ ~stopping
         /\ \A p \in Pet : serve[p] \in {"idle", "done"}
    /\ main = "down" => reqChan = <<>> /\ seen = {}
    /\ \A c \in Consumers : main = "down" <=> relay[c] = "off"
    /\ endChan => stopping

\* A request that has not reached the collection has left no trace.
FreshInv ==
    \A p \in Pet :
        serve[p] \in {"idle", "insert"} =>
            /\ p \notin petColl
            /\ p \notin unsaved
            /\ replyColl[p] = <<>>
            /\ answer[p] = 0

\* Whoever still has to hand a petition over is the only one who has it.
HandOverInv ==
    \A p \in Pet :
        serve[p] \in {"enqueue", "remove"}
        \/ (main = "recovering" /\ p \in petColl \ seen)
            => ~Queued(p) /\ ~Worked(p)

\* process() removes a petition after the insert of its reply, done or lost,
\* and the busy branch before any goroutine has seen it.
RemoveInv ==
    /\ \A c \in Consumers :
         relay[c] = "remove" => Replied(job[c]) \/ job[c] \in unsaved
    /\ \A p \in Pet : serve[p] = "enqueue" => answer[p] = 0
    /\ \A p \in Pet : serve[p] = "remove" => answer[p] = 500

\* One reply per relay of the petition: only a goroutine about to remove it,
\* a crash and a database error account for a reply more than removals.
ReplyInv ==
    \A p \in Pet :
        /\ Len(replyColl[p]) <= 1 + Mishaps
        /\ \/ Len(replyColl[p]) <= Mishaps
           \/ p \notin petColl
           \/ \E c \in Consumers : relay[c] = "remove" /\ job[c] = p

\* A goroutine that took a petition after the stop does not wait again.
LateInv ==
    \A c \in Consumers :
        /\ ~endChan => late[c] = 0
        /\ late[c] <= 1
        /\ relay[c] = "wait" => late[c] = 0

\* The inductive invariant, from which the proofs take InFlightStored,
\* NoDoubleDispatch, AcceptedNotLost, DuplicateBound and LateBound.
IInv ==
    /\ TypeOK
    /\ PhaseInv
    /\ FreshInv
    /\ InFlightStored
    /\ HandOverInv
    /\ NoDoubleDispatch
    /\ RemoveInv
    /\ AcceptedNotLost
    /\ ReplyInv
    /\ LateInv

----------------------------------------------------------------------------
(* The abstract specification                                              *)

\* What the clients are promised, seen through the database and the answers.
StageOf(p) ==
    CASE p \in petColl -> "held"
      [] p \notin petColl /\ serve[p] \in {"idle", "insert"} -> "fresh"
      [] OTHER -> "dropped"

Stage == [p \in Pet |-> StageOf(p)]

Excused == unsaved \cup {p \in Pet : answer[p] = 500}

Promise == INSTANCE StoreAndForward
    WITH stage <- Stage, replies <- replyColl, excused <- Excused

\* Gridas implements the store-and-forward promise: no petition is stored
\* again once removed, replies belong to stored petitions, and a petition is
\* removed only after its reply, a lost insert or an answer 500.
Implements == Promise!Spec

----------------------------------------------------------------------------
(* Liveness                                                                *)

\* In a process that stays up and is not asked to stop, a petition whose id
\* was given to the client gets its reply, the insert of the reply failing
\* apart. Unsendable petitions are left out: see PetitionDeleted.
EventuallyReplied ==
    <>[](main = "serving" /\ ~stopping) =>
        \A p \in Pet \ Unsendable :
            answer[p] = 200 ~> Replied(p) \/ p \in unsaved

\* A stop always ends: the goroutines of the consumer leave their loops,
\* whatever is in the channel, and main returns.
StopEnds == stopping ~> main = "down"

\* Recover() ends, also when there are more petitions than the channel holds,
\* because the consumer is started before it.
RecoverEnds == main = "recovering" ~> main # "recovering"

----------------------------------------------------------------------------
(* What comments of the code say and the code does not do: the runs named   *)
(* after these properties violate them.                                     *)

\* consumer.go:15-17: the consumer saves the answer and deletes the petition
\* after that. So an accepted petition is stored or has a reply.
SavedBeforeDeleted ==
    \A p \in Pet : answer[p] = 200 => p \in petColl \/ Replied(p)

\* reply.go:33: newReply returns the reply for the petition, the response and
\* the possible error.
NewReplyReturns ==
    [][\A c \in Consumers :
         relay[c] = "reply" => relay'[c] \in {"reply", "errors", "replies"}]_vars

\* consumer.go:15-17 again: a petition taken from the channel is deleted in
\* the end.
PetitionDeleted ==
    <>[](main = "serving" /\ ~stopping) =>
        \A p \in Pet : Queued(p) ~> p \notin petColl
=============================================================================
