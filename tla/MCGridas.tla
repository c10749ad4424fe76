------------------------------ MODULE MCGridas ------------------------------
EXTENDS Gridas, TLC
ConsumerSymmetry == Permutations(Consumers)
=============================================================================
