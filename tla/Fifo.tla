--------------------------------- MODULE Fifo ---------------------------------
(* What mgo's queue promises: elements come out in the order they went in,   *)
(* each once, and an empty queue gives nothing.                              *)
EXTENDS Sequences
CONSTANTS Elements, Nothing
VARIABLES content, popped
Init == content = <<>> /\ popped = Nothing
Push(e) == content' = Append(content, e) /\ UNCHANGED popped
Pop == \/ /\ content # <<>>
          /\ popped' = Head(content)
          /\ content' = Tail(content)
       \/ content = <<>> /\ popped' = Nothing /\ UNCHANGED content
Next == Pop \/ \E e \in Elements : Push(e)
Spec == Init /\ [][Next]_<<content, popped>>
=============================================================================
