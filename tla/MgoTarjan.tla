------------------------------ MODULE MgoTarjan ------------------------------
(***************************************************************************)
(* tarjanSort (mgo/txn/tarjan.go): the strongly connected components of    *)
(* the successor relation of transactions, in the one order every flusher  *)
(* agrees on.  Transactions are numbers, in the order of their ids; the    *)
(* recursive strongConnect threads the record data.                        *)
(***************************************************************************)
EXTENDS Integers, Sequences, FiniteSets, SequencesExt

\* index counts from 1; nodes[i] is the node with index i.
NoData == [nodes |-> <<>>, stack |-> <<>>, index |-> << >>, output |-> <<>>]

Sorted(S) == SetToSortSeq(S, <)

RECURSIVE StrongConnect(_, _, _), Visit(_, _, _, _)

\* The loop over the successors: the component of what is on the stack grows.
Visit(data, succ, node, todo) ==
  IF todo = <<>> THEN data
  ELSE LET s == Head(todo)
           seen == s \in DOMAIN data.index
           after == IF seen THEN data ELSE StrongConnect(data, succ, s)
           i == after.index[s]
           other == IF seen THEN i ELSE after.nodes[i].lowlink
           lower == /\ ~seen \/ after.nodes[i].stacked
                    /\ other < after.nodes[node].lowlink
       IN Visit(IF lower THEN [after EXCEPT !.nodes[node].lowlink = other] ELSE after,
                succ, node, Tail(todo))

\* Mutant: the root is forgotten on the stack.
OutputKeepingRoot(data, node) ==
  LET top == CHOOSE k \in DOMAIN data.stack : data.index[data.stack[k]] = node
      component == SubSeq(data.stack, top, Len(data.stack))
  IN [data EXCEPT !.output = Append(@, Reverse(component)),
                  !.stack = SubSeq(@, 1, top - 1)]

\* The root of a component takes it off the stack, the latest first.
Output(data, node) ==
  LET top == CHOOSE k \in DOMAIN data.stack : data.index[data.stack[k]] = node
      component == SubSeq(data.stack, top, Len(data.stack))
  IN [data EXCEPT !.output = Append(@, Reverse(component)),
                  !.stack = SubSeq(@, 1, top - 1),
                  !.nodes = [i \in DOMAIN @ |->
                     IF \E id \in Range(component) : data.index[id] = i
                       THEN [@[i] EXCEPT !.stacked = FALSE] ELSE @[i]]]

StrongConnect(data, succ, id) ==
  LET node == Len(data.nodes) + 1
      entered == [data EXCEPT
        !.nodes = Append(@, [lowlink |-> node, stacked |-> TRUE]),
        !.stack = Append(@, id),
        !.index = [k \in DOMAIN @ \cup {id} |-> IF k = id THEN node ELSE @[k]]]
      left == Visit(entered, succ, node, Sorted(succ[id]))
  IN IF left.nodes[node].lowlink = node THEN Output(left, node) ELSE left

TarjanSort(succ) ==
  LET connect(data, id) == IF id \in DOMAIN data.index THEN data
                           ELSE StrongConnect(data, succ, id)
  IN FoldLeft(connect, NoData, Sorted(DOMAIN succ)).output

----------------------------------------------------------------------------
(* What it has to be, by reachability.                                     *)

\* The transitive closure, one more node allowed in between at each step.
Reaches(succ) ==
  LET through(paths, via) == [p \in (DOMAIN succ) \X (DOMAIN succ) |->
        paths[p] \/ (paths[<<p[1], via>>] /\ paths[<<via, p[2]>>])]
  IN FoldLeft(through, [p \in (DOMAIN succ) \X (DOMAIN succ) |-> p[2] \in succ[p[1]]],
              Sorted(DOMAIN succ))

\* Each transaction is in one component; components are exactly the mutually
\* dependent transactions; one comes after every component it precedes, so
\* that flusher.run, going backwards, applies predecessors first.
TarjanSorts(succ) ==
  LET out == TarjanSort(succ)
      path == Reaches(succ)
      same(a, b) == a = b \/ (path[<<a, b>>] /\ path[<<b, a>>])
  IN
  /\ \A id \in DOMAIN succ : Cardinality({i \in DOMAIN out : id \in Range(out[i])}) = 1
  /\ \A i \in DOMAIN out : \A a \in Range(out[i]), b \in DOMAIN succ :
       (b \in Range(out[i])) <=> same(a, b)
  /\ \A i, j \in DOMAIN out : i < j =>
       \A a \in Range(out[i]), b \in Range(out[j]) : ~path[<<a, b>>]

=============================================================================
