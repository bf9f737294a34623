------------------------------ MODULE MCTunFlow -----------------------------
EXTENDS TunFlow, TLC

Symmetry == Permutations(Flow)
=============================================================================
