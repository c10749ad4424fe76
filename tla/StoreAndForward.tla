-------------------------- MODULE StoreAndForward --------------------------
(***************************************************************************)
(* What gridas promises of each request, without processes, channels,      *)
(* crashes or restarts: the petition is held until it has a reply, or      *)
(* until its client knows, or an operator can know from the log, that it   *)
(* may have none.                                                          *)
(***************************************************************************)
EXTENDS Naturals, Sequences

CONSTANTS Pet, Kinds

VARIABLES
    stage,     \* "fresh" before it is stored, "held", "dropped" for good
    replies,   \* replies that can be asked for
    excused    \* requests answered with an error, or with a lost reply

vars == <<stage, replies, excused>>

Init ==
    /\ stage = [p \in Pet |-> "fresh"]
    /\ replies = [p \in Pet |-> <<>>]
    /\ excused = {}

\* Requests that never will be stored: refused, or gone with the process.
Refuse(S) ==
    /\ \A p \in S : stage[p] = "fresh"
    /\ stage' = [p \in Pet |-> IF p \in S THEN "dropped" ELSE stage[p]]
    /\ \E E \in SUBSET S : excused' = excused \cup E
    /\ UNCHANGED replies

Hold(p) ==
    /\ stage[p] = "fresh"
    /\ stage' = [stage EXCEPT ![p] = "held"]
    /\ excused' \in {excused, excused \cup {p}}
    /\ UNCHANGED replies

Reply(p, kind) ==
    /\ stage[p] = "held"
    /\ replies' = [replies EXCEPT ![p] = Append(@, kind)]
    /\ UNCHANGED <<stage, excused>>

Excuse(p) ==
    /\ stage[p] = "held"
    /\ excused' = excused \cup {p}
    /\ UNCHANGED <<stage, replies>>

Drop(p) ==
    /\ stage[p] = "held"
    /\ replies[p] # <<>> \/ p \in excused
    /\ stage' = [stage EXCEPT ![p] = "dropped"]
    /\ UNCHANGED <<replies, excused>>

Next ==
    \/ \E S \in SUBSET Pet : Refuse(S)
    \/ \E p \in Pet :
         \/ Hold(p)
         \/ Excuse(p)
         \/ Drop(p)
         \/ \E kind \in Kinds : Reply(p, kind)

Spec == Init /\ [][Next]_vars
============================================================================
