---------------------------- MODULE GridasState ----------------------------
(***************************************************************************)
(* The state shared by the components of one gridas process: the MongoDB   *)
(* collections that survive it, the channel reqChan through which the      *)
(* Listener and the Recoverer hand petitions to the Consumer, the program  *)
(* counters of its goroutines, and what the clients and the target hosts   *)
(* have seen.                                                              *)
(*                                                                         *)
(* A petition is identified with the client request it was made from: a    *)
(* client that tries again sends another request, which gets a fresh uuid. *)
(***************************************************************************)
EXTENDS Naturals, Sequences

CONSTANTS
    Pet,          \* the client requests, each with the id of its petition
    NoPet,        \* no petition
    Consumers,    \* the goroutines of the consumer (cfg.Consumers of them)
    QueueSize,    \* capacity of reqChan (cfg.QueueSize)
    Retries,      \* cfg.Retries
    Endings,      \* how the target hosts of this instance end a request
    Unsendable,   \* accepted requests that http.NewRequest refuses to rebuild
    CutShort,     \* requests whose response may break off inside its body
    MaxRuns,      \* bound: how many times the process is started
    MaxCrashes,   \* bound: kills of the process from outside
    MaxFaults     \* bound: database operations that report an error

ASSUME ConstantsAssumption ==
    /\ QueueSize \in Nat
    /\ Retries \in Nat
    /\ MaxRuns \in Nat
    /\ MaxCrashes \in Nat
    /\ MaxFaults \in Nat
    /\ Endings \subseteq {"error", "busy", "bad", "good"}
    /\ Unsendable \subseteq Pet
    /\ CutShort \subseteq Pet
    /\ NoPet \notin Pet

VARIABLES
    petColl,      \* ids in the petitions collection of this instance
    replyColl,    \* per id, the replies in the responses collection, in order
    errColl,      \* per id, the kinds of reply in the errors collection
    reqChan,      \* the buffered channel of main
    endChan,      \* TRUE when the consumer's endChan is closed
    stopping,     \* the listener's flag
    main,         \* where main() is
    seen,         \* ids the recoverer's cursor has returned
    serve,        \* per request, where its ServeHTTP goroutine is
    relay,        \* per consumer goroutine, where it is
    job,          \* per consumer goroutine, the petition in process()
    retry,        \* per consumer goroutine, failed attempts of doRequest
    result,       \* per consumer goroutine, how doRequest ended
    answer,       \* history: status code the client got, 0 for none
    attempts,     \* history: calls of Client.Do for a petition
    unsaved,      \* history: petitions with a failed insert of their reply
    late,         \* history: petitions a goroutine took after the stop
    runs,         \* history: times the process was started
    crashes,      \* history: times it died without being stopped
    faults        \* history: database operations that reported an error

dbVars      == <<petColl, replyColl, errColl>>
procVars    == <<main, seen, endChan, stopping>>
workVars    == <<relay, job, retry, result, late>>
historyVars == <<attempts, unsaved, runs, crashes>>
vars == <<dbVars, reqChan, procVars, serve, answer, workVars, historyVars,
          faults>>

----------------------------------------------------------------------------

\* How doRequest can end: a transport error, status 503, any other status
\* outside 200..299, a status in 200..299.
Kinds == {"error", "busy", "bad", "good"}

\* consumer.go tests resp.StatusCode < 200 || >= 300, or err != nil.
Erroneous(kind) == kind # "good"

MainStates  == {"down", "recovering", "serving"}
ServeStates == {"idle", "insert", "enqueue", "remove", "done"}
\* A goroutine is inside process() in the Working states.
Working     == {"request", "reply", "errors", "replies", "remove"}
RelayStates == Working \cup {"off", "loop", "wait", "done"}

\* What a write can do: succeed; fail without effect; take effect at the
\* server although the driver reports an error (the connection died before
\* the answer to getLastError). The error makes the caller Refresh the shared
\* session, which drops its reserved socket: later writes may fail or not
\* anyhow, so the session has no state here.
Outcomes == {"ok", "failed", "unacked"}
Applied(o) == o # "failed"

Operation(o) ==
    /\ o # "ok" => faults < MaxFaults
    /\ faults' = IF o = "ok" THEN faults ELSE faults + 1

----------------------------------------------------------------------------
(* The channel *)

\* A goroutine of the consumer has received p: it runs process(p) up to the
\* outcome of p.Request(). A petition that cannot be rebuilt is only logged:
\* it stays in the petitions collection.
Receive(c, p) ==
    /\ relay' = [relay EXCEPT ![c] = IF p \in Unsendable THEN "loop"
                                                         ELSE "request"]
    /\ job'   = [job   EXCEPT ![c] = IF p \in Unsendable THEN NoPet ELSE p]
    /\ late'  = [late  EXCEPT ![c] = IF endChan THEN @ + 1 ELSE @]

\* reqChan <- p: into the buffer, or, in an unbuffered channel, straight to a
\* goroutine blocked in the select of relay().
Send(p) ==
    \/ /\ Len(reqChan) < QueueSize
       /\ reqChan' = Append(reqChan, p)
       /\ UNCHANGED <<relay, job, late>>
    \/ /\ QueueSize = 0
       /\ \E c \in Consumers : relay[c] = "wait" /\ Receive(c, p)
       /\ UNCHANGED reqChan

\* The default branch of a select that sends. A goroutine in "wait" may not
\* be blocked yet, so with no buffer this branch is always possible.
ChannelFull == Len(reqChan) >= QueueSize

----------------------------------------------------------------------------
(* The process *)

\* The process is gone, with its goroutines, its channels and its flags.
\* Requests being served never get an answer.
Halt ==
    /\ main' = "down"
    /\ reqChan' = <<>>
    /\ endChan' = FALSE
    /\ stopping' = FALSE
    /\ seen' = {}
    /\ serve' = [p \in Pet |-> IF serve[p] = "idle" THEN "idle" ELSE "done"]
    /\ relay' = [c \in Consumers |-> "off"]
    /\ job' = [c \in Consumers |-> NoPet]
    /\ retry' = [c \in Consumers |-> 0]
    /\ result' = [c \in Consumers |-> "good"]
    /\ late' = [c \in Consumers |-> 0]

Init ==
    /\ petColl = {}
    /\ replyColl = [p \in Pet |-> <<>>]
    /\ errColl = [p \in Pet |-> {}]
    /\ reqChan = <<>>
    /\ endChan = FALSE
    /\ stopping = FALSE
    /\ main = "down"
    /\ seen = {}
    /\ serve = [p \in Pet |-> "idle"]
    /\ relay = [c \in Consumers |-> "off"]
    /\ job = [c \in Consumers |-> NoPet]
    /\ retry = [c \in Consumers |-> 0]
    /\ result = [c \in Consumers |-> "good"]
    /\ answer = [p \in Pet |-> 0]
    /\ attempts = [p \in Pet |-> 0]
    /\ unsaved = {}
    /\ late = [c \in Consumers |-> 0]
    /\ runs = 0
    /\ crashes = 0
    /\ faults = 0
============================================================================
