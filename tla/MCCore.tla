------------------------------- MODULE MCCore -------------------------------
(***************************************************************************)
(* Two systems in one run: the one of the cfg file, whose channel has a    *)
(* buffer, and one with an unbuffered channel, where a send meets a        *)
(* goroutine or is refused. The properties are those of Gridas; none but   *)
(* TypeOK looks at QueueSize, and what is in no buffer is in a buffer too. *)
(***************************************************************************)
EXTENDS Gridas, TLC

VARIABLE unbuffered   \* which of the two it is

Rendezvous == INSTANCE Gridas
    WITH QueueSize <- 0, CutShort <- {}, MaxFaults <- 0

CoreInit == Init /\ unbuffered \in BOOLEAN

CoreNext ==
    /\ \/ ~unbuffered /\ Next
       \/ unbuffered /\ Rendezvous!Next
    /\ UNCHANGED unbuffered

CoreSpec == CoreInit /\ [][CoreNext]_<<vars, unbuffered>>

ConsumerSymmetry == Permutations(Consumers)
=============================================================================
