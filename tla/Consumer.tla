------------------------------ MODULE Consumer ------------------------------
(***************************************************************************)
(* The Consumer (consumer.go, with newReply of reply.go): a pool of        *)
(* goroutines running relay(). Each takes a petition from reqChan, makes   *)
(* the request with retries, stores the reply and then removes the         *)
(* petition, until the channel endChan is closed.                          *)
(***************************************************************************)
EXTENDS GridasState

Goto(c, state) == relay' = [relay EXCEPT ![c] = state]

----------------------------------------------------------------------------
(* relay(): the outer select gives endChan precedence, the inner one does  *)
(* not.                                                                    *)

\* Mutant: relay() with the inner select only.
SingleSelect(c) ==
    /\ relay[c] = "loop"
    /\ Goto(c, "wait")
    /\ UNCHANGED <<dbVars, reqChan, procVars, serve, answer, job, retry,
                   result, late, historyVars, faults>>

\* The outer select: leave the loop, or fall into the inner select.
OuterSelect(c) ==
    /\ relay[c] = "loop"
    /\ Goto(c, IF endChan THEN "done" ELSE "wait")
    /\ UNCHANGED <<dbVars, reqChan, procVars, serve, answer, job, retry,
                   result, late, historyVars, faults>>

\* The inner select, case req := <-c.GetFrom.
Take(c) ==
    /\ relay[c] = "wait"
    /\ reqChan # <<>>
    /\ reqChan' = Tail(reqChan)
    /\ Receive(c, Head(reqChan))
    /\ UNCHANGED <<dbVars, procVars, serve, answer, retry, result,
                   historyVars, faults>>

\* Mutant: relay() with the outer select only.
NeverEnds(c) == FALSE

\* The inner select, case <-c.endChan.
WaitEnds(c) ==
    /\ relay[c] = "wait"
    /\ endChan
    /\ Goto(c, "done")
    /\ UNCHANGED <<dbVars, reqChan, procVars, serve, answer, job, retry,
                   result, late, historyVars, faults>>

----------------------------------------------------------------------------
(* process()                                                               *)

\* Mutant: the loop of doRequest runs once too often.
AttemptOnceMore(c) ==
    /\ relay[c] = "request"
    /\ attempts' = [attempts EXCEPT ![job[c]] = @ + 1]
    /\ \/ /\ retry[c] <= Retries
          /\ retry' = [retry EXCEPT ![c] = @ + 1]
          /\ UNCHANGED <<relay, result>>
       \/ \E kind \in Endings :
            /\ kind \in {"error", "busy"} => retry[c] > Retries
            /\ result' = [result EXCEPT ![c] = kind]
            /\ Goto(c, "reply")
            /\ UNCHANGED retry
    /\ UNCHANGED <<dbVars, reqChan, procVars, serve, answer, job, late,
                   unsaved, runs, crashes, faults>>

\* One call of Client.Do in doRequest. A transport error or a 503 is tried
\* again, after a sleep, while retries are left.
Attempt(c) ==
    /\ relay[c] = "request"
    /\ attempts' = [attempts EXCEPT ![job[c]] = @ + 1]
    /\ \/ /\ retry[c] < Retries
          /\ retry' = [retry EXCEPT ![c] = @ + 1]
          /\ UNCHANGED <<relay, result>>
       \/ \E kind \in Endings :
            /\ kind \in {"error", "busy"} => retry[c] = Retries
            /\ result' = [result EXCEPT ![c] = kind]
            /\ Goto(c, "reply")
            /\ UNCHANGED retry
    /\ UNCHANGED <<dbVars, reqChan, procVars, serve, answer, job, late,
                   unsaved, runs, crashes, faults>>

\* Mutant: the petition is removed as soon as the host has answered.
MakeReplyAndRemove(c) ==
    /\ relay[c] = "reply"
    /\ petColl' = petColl \ {job[c]}
    /\ Goto(c, IF Erroneous(result[c]) THEN "errors" ELSE "replies")
    /\ UNCHANGED <<replyColl, errColl, reqChan, procVars, serve, answer, job,
                   retry, result, late, historyVars, faults>>

\* Mutant: only transport errors go to the errors collection.
RecordErrorsOnly(c) ==
    /\ relay[c] = "reply"
    /\ Goto(c, IF result[c] = "error" THEN "errors" ELSE "replies")
    /\ UNCHANGED <<dbVars, reqChan, procVars, serve, answer, job, retry,
                   result, late, historyVars, faults>>

\* newReply: the reply is made from the error or from the response read whole.
MakeReply(c) ==
    /\ relay[c] = "reply"
    /\ Goto(c, IF Erroneous(result[c]) THEN "errors" ELSE "replies")
    /\ UNCHANGED <<dbVars, reqChan, procVars, serve, answer, job, retry,
                   result, late, historyVars, faults>>

\* Mutant: the removal of the petition is deferred to the end of process(),
\* and so done by the panic too.
PanicsRemoving(c) ==
    /\ relay[c] = "reply"
    /\ result[c] # "error"
    /\ job[c] \in CutShort
    /\ Halt
    /\ crashes' = crashes + 1
    /\ petColl' = petColl \ {job[c]}
    /\ UNCHANGED <<replyColl, errColl, answer, attempts, unsaved, runs, faults>>

\* newReply: reading the body fails. It then calls e.Error() on e, which is
\* nil on this path: the panic takes the whole process down.
ReplyPanics(c) ==
    /\ relay[c] = "reply"
    /\ result[c] # "error"
    /\ job[c] \in CutShort
    /\ Halt
    /\ crashes' = crashes + 1
    /\ UNCHANGED <<dbVars, answer, attempts, unsaved, runs, faults>>

\* errColl.Insert(reply); an error is logged and processing goes on.
InsertError(c) ==
    /\ relay[c] = "errors"
    /\ \E o \in Outcomes :
         /\ Operation(o)
         /\ errColl' = IF Applied(o)
                         THEN [errColl EXCEPT ![job[c]] = @ \cup {result[c]}]
                         ELSE errColl
    /\ Goto(c, "replies")
    /\ UNCHANGED <<petColl, replyColl, reqChan, procVars, serve, answer, job,
                   retry, result, late, historyVars>>

\* replyColl.Insert(reply); here too an error is only logged.
InsertReply(c) ==
    /\ relay[c] = "replies"
    /\ \E o \in Outcomes :
         /\ Operation(o)
         /\ replyColl' = IF Applied(o)
                           THEN [replyColl EXCEPT ![job[c]] =
                                     Append(@, result[c])]
                           ELSE replyColl
         /\ unsaved' = IF Applied(o) THEN unsaved ELSE unsaved \cup {job[c]}
    /\ Goto(c, "remove")
    /\ UNCHANGED <<petColl, errColl, reqChan, procVars, serve, answer, job,
                   retry, result, late, attempts, runs, crashes>>

\* petColl.Remove; whatever it returns, process() is over.
RemovePetition(c) ==
    /\ relay[c] = "remove"
    /\ \E o \in Outcomes :
         /\ Operation(o)
         /\ petColl' = IF Applied(o) THEN petColl \ {job[c]} ELSE petColl
    /\ Goto(c, "loop")
    /\ job' = [job EXCEPT ![c] = NoPet]
    /\ retry' = [retry EXCEPT ![c] = 0]
    /\ result' = [result EXCEPT ![c] = "good"]
    /\ UNCHANGED <<replyColl, errColl, reqChan, procVars, serve, answer, late,
                   historyVars>>

\* What a goroutine does by itself, the panic apart.
Relay(c) ==
    \/ OuterSelect(c)
    \/ Take(c)
    \/ WaitEnds(c)
    \/ Attempt(c)
    \/ MakeReply(c)
    \/ InsertError(c)
    \/ InsertReply(c)
    \/ RemovePetition(c)
=============================================================================
