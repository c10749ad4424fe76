----------------------------- MODULE MCTxnCases -----------------------------
(***************************************************************************)
(* What the transactions of the runs do: two transactions on two documents *)
(* that meet in every way the flusher treats differently.                  *)
(***************************************************************************)
EXTENDS Naturals, Sequences, TLC

Op(doc, kind, assert) == [doc |-> doc, kind |-> kind, assert |-> assert]
Both(live, first, second) == [live |-> live, ops |-> <<first, second>>]

\* Both update both documents, each starting with the other's second.
Crossing == Both({1, 2},
                 <<Op(1, "update", "fresh"), Op(2, "update", "none")>>,
                 <<Op(2, "update", "exists"), Op(1, "update", "none")>>)
\* Both update the same document, one of them twice.
SameDoc == Both({1, 2},
                <<Op(1, "update", "fresh"), Op(2, "update", "none")>>,
                <<Op(1, "update", "fresh"), Op(1, "update", "none")>>)
BothInsert == Both({}, <<Op(1, "insert", "missing")>>, <<Op(1, "insert", "missing")>>)
RemoveUpdate == Both({1}, <<Op(1, "remove", "exists")>>, <<Op(1, "update", "exists")>>)
RemoveInsert == Both({1}, <<Op(1, "remove", "exists")>>, <<Op(1, "insert", "missing")>>)
\* One moves a document to another key, the other relies on the new key being free.
Move == Both({1},
             <<Op(1, "remove", "none"), Op(2, "insert", "missing")>>,
             <<Op(1, "update", "none"), Op(2, "assert", "missing")>>)

Case(both, runners, kills) ==
    [live |-> both.live, ops |-> both.ops, runners |-> runners, kills |-> kills]

\* One runner killed up to twice, or two that run together.
KilledCases(r) == {Case(both, {r}, 2) :
    both \in {Crossing, SameDoc, BothInsert, RemoveUpdate, RemoveInsert, Move}}
JointCases(r, s) == {Case(both, {r, s}, 0) : both \in {SameDoc, RemoveInsert}}
CycleCases(r, s) == {Case(Crossing, {r, s}, 0)}
=============================================================================
