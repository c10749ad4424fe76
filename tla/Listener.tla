------------------------------ MODULE Listener ------------------------------
(***************************************************************************)
(* The Listener (listener.go): one ServeHTTP goroutine per client request. *)
(* It stores the petition, then hands it to the consumer through reqChan   *)
(* without ever blocking; when the channel has no room it answers "busy"   *)
(* and takes the petition out of the collection again.                     *)
(***************************************************************************)
EXTENDS GridasState

\* The client is answered with code before p reached the collection.
Refuse(p, code) ==
    /\ serve' = [serve EXCEPT ![p] = "done"]
    /\ answer' = [answer EXCEPT ![p] = code]

\* Mutant: the HTTP server is started before Recover() has returned.
ArriveDuringRecovery(p) ==
    /\ main # "down"
    /\ serve[p] = "idle"
    /\ serve' = [serve EXCEPT ![p] = "insert"]
    /\ UNCHANGED <<dbVars, reqChan, procVars, answer, workVars, historyVars,
                   faults>>

\* ServeHTTP starts: Stopped() is read once; then newPetition() fails or not
\* (missing or unsupported headers, broken body).
Arrive(p) ==
    /\ main = "serving"
    /\ serve[p] = "idle"
    /\ \/ stopping /\ Refuse(p, 503)
       \/ ~stopping /\ Refuse(p, 400)
       \/ /\ ~stopping
          /\ serve' = [serve EXCEPT ![p] = "insert"]
          /\ UNCHANGED answer
    /\ UNCHANGED <<dbVars, reqChan, procVars, workVars, historyVars, faults>>

\* Mutant: no return after the 500.
InsertAndGoOn(p) ==
    /\ serve[p] = "insert"
    /\ \E o \in Outcomes :
         /\ Operation(o)
         /\ petColl' = IF Applied(o) THEN petColl \cup {p} ELSE petColl
    /\ serve' = [serve EXCEPT ![p] = "enqueue"]
    /\ UNCHANGED <<replyColl, errColl, reqChan, procVars, answer, workVars,
                   historyVars>>

\* petColl.Insert(relayedRequest), and the 500 with a ref when it fails.
InsertPetition(p) ==
    /\ serve[p] = "insert"
    /\ \E o \in Outcomes :
         /\ Operation(o)
         /\ petColl' = IF Applied(o) THEN petColl \cup {p} ELSE petColl
         /\ IF o = "ok"
              THEN /\ serve' = [serve EXCEPT ![p] = "enqueue"]
                   /\ UNCHANGED answer
              ELSE Refuse(p, 500)
    /\ UNCHANGED <<replyColl, errColl, reqChan, procVars, workVars,
                   historyVars>>

\* The send case of the select; the client gets the id of its petition.
Enqueue(p) ==
    /\ serve[p] = "enqueue"
    /\ Send(p)
    /\ serve' = [serve EXCEPT ![p] = "done"]
    /\ answer' = [answer EXCEPT ![p] = 200]
    /\ UNCHANGED <<dbVars, procVars, retry, result, historyVars, faults>>

\* Mutant: the refused petition is left in the collection.
AnswerBusyAndReturn(p) ==
    /\ serve[p] = "enqueue"
    /\ ChannelFull
    /\ Refuse(p, 500)
    /\ UNCHANGED <<dbVars, reqChan, procVars, workVars, historyVars, faults>>

\* Its default case, up to the answer.
AnswerBusy(p) ==
    /\ serve[p] = "enqueue"
    /\ ChannelFull
    /\ serve' = [serve EXCEPT ![p] = "remove"]
    /\ answer' = [answer EXCEPT ![p] = 500]
    /\ UNCHANGED <<dbVars, reqChan, procVars, workVars, historyVars, faults>>

\* petColl.Remove of the petition that was refused.
RemoveRefused(p) ==
    /\ serve[p] = "remove"
    /\ \E o \in Outcomes :
         /\ Operation(o)
         /\ petColl' = IF Applied(o) THEN petColl \ {p} ELSE petColl
    /\ serve' = [serve EXCEPT ![p] = "done"]
    /\ UNCHANGED <<replyColl, errColl, reqChan, procVars, answer, workVars,
                   historyVars>>

\* A request that has started to be served.
ServeHTTP(p) ==
    \/ InsertPetition(p)
    \/ Enqueue(p)
    \/ AnswerBusy(p)
    \/ RemoveRefused(p)
=============================================================================
