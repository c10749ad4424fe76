---------------------------- MODULE MCOperations ----------------------------
(***************************************************************************)
(* What mgo does with the connections it has, each module by itself, in    *)
(* one run: `part' says which one moves, the others stay in their initial  *)
(* state. The properties are those of the modules.                         *)
(***************************************************************************)
EXTENDS MgoIter, MgoGridFS, MgoTxn, MgoTarjan, MCTxnCases

CONSTANTS r1, r2

VARIABLES
    part,
    graph  \* what MgoTarjan sorts

----------------------------------------------------------------------------
\* Queries for five documents, in batches of up to three.
Limited == {Prefetch(Limit(Find, n), p) :
                n \in {1, -2, 3, MinInt32}, p \in {0, 2, 4}}
Batched == {Batch(Prefetch(Limit(Find, n), p), k) :
                n \in {2, 3, 4}, p \in {0, 2, 4}, k \in {1, 3}}
           \cup {Batch(Prefetch(Find, p), k) :
                p \in {0, 2, 4}, k \in {1, 3}}
Others == {Prefetch(Find, p) : p \in {0, 1, 4}}
          \cup {TailOf(Prefetch(Find, 1)),
                TailOf(Batch(Find, 2)),
                TailOf(Limit(Find, 2)),
                Unreserved(Prefetch(Find, 4)),
                Unreserved(Batch(Prefetch(Limit(Find, 4), 2), 2)),
                Dying(Batch(Find, 2))}
Asking == Limited \cup Batched \cup Others

\* Two transactions that a runner flushes and is killed at, or two runners.
Cases == KilledCases(r1) \cup JointCases(r1, r2)

\* Every graph of dependencies between three transactions.
Dependencies == [{1, 2, 3} -> SUBSET {1, 2, 3}]
Independent == [t \in {1, 2, 3} |-> {}]

----------------------------------------------------------------------------
\* At rest, a part with several initial states is in one of them.
Init ==
    /\ part \in {"iter", "gridfs", "txn", "tarjan"}
    /\ IterInit
    /\ part # "iter" => initial = Prefetch(Find, 0)
    /\ GridInit
    /\ part # "gridfs" => file.idOk
    /\ TxnInit
    /\ part # "txn" => scenario = Case(Move, {r1}, 2)
    /\ graph \in Dependencies
    /\ part # "tarjan" => graph = Independent

Next ==
    /\ \/ part = "iter" /\ IterNext /\ UNCHANGED <<gridVars, txnVars>>
       \/ part = "gridfs" /\ GridNext /\ UNCHANGED <<iterVars, txnVars>>
       \/ part = "txn" /\ TxnNext /\ UNCHANGED <<iterVars, gridVars>>
    /\ UNCHANGED <<part, graph>>

vars == <<part, iterVars, gridVars, txnVars, graph>>

\* The fairness of each module, while it is the one that moves.
Fairness ==
    /\ WF_iterVars(part = "iter" /\ ServerReplies)
    /\ WF_iterVars(part = "iter" /\ (DocArrives \/ EmptyReplyArrives))
    /\ WF_iterVars(part = "iter" /\ NextRuns)
    /\ SF_iterVars(part = "iter" /\ TimesOut)
    /\ WF_gridVars(part = "gridfs" /\ Working)

Spec == Init /\ [][Next]_vars /\ Fairness /\ TxnFairness

----------------------------------------------------------------------------
\* MgoTarjan: the components of every graph, in the order flusher.run needs.
TarjanCorrect == part = "tarjan" => TarjanSorts(graph)

\* MgoIter (NextReturns), MgoGridFS (CallsEnd) and MgoTxn (TxnsEnd): a Next, a
\* Read, Write or Close, and a transaction that was begun come to an end.
Begun ==
    \/ part = "iter" /\ user = "next" /\ Fits(initial) /\ ~initial.late
    \/ part = "gridfs" /\ doing # Free /\ file.idOk
    \/ part = "txn" /\ \E t \in {1, 2} : txn[t].s # "none" /\ ~Done(txn[t].s)
Ended ==
    \/ part = "iter" /\ user = "idle"
    \/ part = "gridfs" /\ doing = Free
    \/ part = "txn" /\ \A t \in {1, 2} : txn[t].s # "none" => Done(txn[t].s)
OperationsEnd == Begun ~> Ended
=============================================================================
