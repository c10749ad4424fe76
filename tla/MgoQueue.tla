------------------------------- MODULE MgoQueue -------------------------------
(***************************************************************************)
(* The queue of documents an Iter has received (mgo/queue.go): a ring that *)
(* is unrolled into a larger one when it is full.  It doubles from         *)
(* FirstCap on, and grows by a quarter from SlowCap on (8 and 1024 in the  *)
(* code).                                                                  *)
(***************************************************************************)
EXTENDS Integers, Sequences

CONSTANTS Elements, Nothing, FirstCap, SlowCap, MaxElems

ASSUME QueueAssumption ==
  /\ Nothing \notin Elements
  /\ FirstCap \in Nat \ {0} /\ SlowCap \in Nat /\ SlowCap >= 4

VARIABLES elems, nelems, popi, pushi, popped
queueVars == <<elems, nelems, popi, pushi, popped>>

Cap == Len(elems)

QueueInit == elems = <<>> /\ nelems = 0 /\ popi = 0 /\ pushi = 0 /\ popped = Nothing

NewCap == IF Cap = 0 THEN FirstCap
          ELSE IF Cap < SlowCap THEN Cap * 2 ELSE Cap + Cap \div 4

\* The elements before popi keep their places, those from popi on go to the
\* end of the new ring (when popi is 0 all keep their places).
ExpandElems ==
  LET moved == IF popi = 0 THEN Cap ELSE popi
      gap == NewCap - Cap
  IN [i \in 1 .. NewCap |-> IF i <= moved THEN elems[i]
                            ELSE IF i <= moved + gap THEN Nothing ELSE elems[i - gap]]

\* Mutant: the elements move, popi does not.
ExpandPopiStay == popi

ExpandPopi == IF popi = 0 THEN 0 ELSE NewCap - (Cap - popi)
ExpandPushi == IF popi = 0 THEN Cap ELSE pushi

Push(e) ==
  LET full == nelems = Cap
      ring == IF full THEN ExpandElems ELSE elems
      at == IF full THEN ExpandPushi ELSE pushi
  IN
  /\ nelems < MaxElems
  /\ elems' = [ring EXCEPT ![at + 1] = e]
  /\ nelems' = nelems + 1
  /\ pushi' = (at + 1) % Len(ring)
  /\ popi' = IF full THEN ExpandPopi ELSE popi
  /\ UNCHANGED popped

Pop ==
  \/ /\ nelems = 0
     /\ popped' = Nothing
     /\ UNCHANGED <<elems, nelems, popi, pushi>>
  \/ /\ nelems > 0
     /\ popped' = elems[popi + 1]
     /\ elems' = [elems EXCEPT ![popi + 1] = Nothing]
     /\ nelems' = nelems - 1
     /\ popi' = (popi + 1) % Cap
     /\ UNCHANGED pushi

QueueNext == Pop \/ \E e \in Elements : Push(e)
QueueSpec == QueueInit /\ [][QueueNext]_queueVars

----------------------------------------------------------------------------
\* The elements from popi on, around the ring.
Content == [i \in 1 .. nelems |-> elems[((popi + i - 1) % Cap) + 1]]

\* The ring is a first-in first-out queue, through every wrap and growth: no
\* element is lost, doubled or overtaken when the ring is unrolled.
Queue == INSTANCE Fifo WITH content <- Content
QueueIsFifo == Queue!Spec

\* The places not between popi and pushi are cleared for the collector, and
\* the three counters agree.
QueueInv ==
  /\ nelems <= Cap
  /\ Cap > 0 => /\ popi \in 0 .. Cap - 1 /\ pushi \in 0 .. Cap - 1
                /\ pushi = (popi + nelems) % Cap
  /\ \A i \in 1 .. Cap : elems[i] = Nothing <=>
       \A k \in 0 .. nelems - 1 : i # ((popi + k) % Cap) + 1
=============================================================================
