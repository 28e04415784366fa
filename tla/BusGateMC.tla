------------------------------ MODULE BusGateMC ------------------------------
\* Values for the run of BusGate.
EXTENDS BusGate, TLC

Symmetry == Permutations(Nodes) \cup Permutations(Address)
=============================================================================
