----------------------------- MODULE MCRestarts -----------------------------
(***************************************************************************)
(* Two systems in one run: one request through many runs of the process,   *)
(* with every outcome, crashes and database errors; and several requests   *)
(* around a stop that nothing disturbs. The properties are those of        *)
(* Gridas, for the constants of whichever it is or for larger ones.        *)
(***************************************************************************)
EXTENDS Gridas, TLC

CONSTANT p1           \* the only request of the first system

VARIABLE undisturbed  \* which of the two it is

Stopped == INSTANCE Gridas
    WITH Retries <- 0, Endings <- {"good"}, CutShort <- {},
         MaxRuns <- 2, MaxCrashes <- 0, MaxFaults <- 0

RestartsInit == Init /\ undisturbed \in BOOLEAN

RestartsNext ==
    /\ \/ undisturbed /\ Stopped!Next
       \/ ~undisturbed /\ Next /\ \A p \in Pet \ {p1} : serve'[p] = serve[p]
    /\ UNCHANGED undisturbed

RestartsSpec == RestartsInit /\ [][RestartsNext]_<<vars, undisturbed>>

ConsumerSymmetry == Permutations(Consumers)
=============================================================================
