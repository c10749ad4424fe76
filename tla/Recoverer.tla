----------------------------- MODULE Recoverer -----------------------------
(***************************************************************************)
(* The Recoverer (recoverer.go): before the HTTP server is started, main   *)
(* sends every petition left in the collection to reqChan again, blocking  *)
(* while the channel has no room.                                          *)
(***************************************************************************)
EXTENDS GridasState

\* Mutant: a cursor that returns a document again.
ReenqueueAgain(p) ==
    /\ main = "recovering"
    /\ p \in petColl
    /\ Send(p)
    /\ seen' = seen \cup {p}
    /\ UNCHANGED <<dbVars, main, endChan, stopping, serve, answer, retry,
                   result, historyVars, faults>>

\* iter.Next(&p) and SendTo <- &paux. The cursor returns every document once;
\* documents it has not returned yet cannot be removed meanwhile.
Reenqueue(p) ==
    /\ main = "recovering"
    /\ p \in petColl \ seen
    /\ Send(p)
    /\ seen' = seen \cup {p}
    /\ UNCHANGED <<dbVars, main, endChan, stopping, serve, answer, retry,
                   result, historyVars, faults>>

\* Mutant: only the first document is recovered.
RecoverOne ==
    /\ main = "recovering"
    /\ petColl # {} => seen # {}
    /\ main' = "serving"
    /\ UNCHANGED <<dbVars, reqChan, seen, endChan, stopping, serve, answer,
                   workVars, historyVars, faults>>

\* The cursor is exhausted: Recover returns nil, main starts the HTTP server
\* and installs the handler of SIGINT and SIGTERM.
RecoverReturns ==
    /\ main = "recovering"
    /\ petColl \subseteq seen
    /\ main' = "serving"
    /\ UNCHANGED <<dbVars, reqChan, seen, endChan, stopping, serve, answer,
                   workVars, historyVars, faults>>

\* The cursor fails: Recover returns the error and main calls os.Exit(-1).
RecoverFails ==
    /\ main = "recovering"
    /\ faults < MaxFaults
    /\ faults' = faults + 1
    /\ Halt
    /\ UNCHANGED <<dbVars, answer, historyVars>>

Recover == (\E p \in Pet : Reenqueue(p)) \/ RecoverReturns
============================================================================
