------------------------------ MODULE MCRelay ------------------------------
EXTENDS RelayProps, TLC
Symmetry == Permutations(Conns) \cup Permutations(PeerIds) \cup Permutations(Codes)
=============================================================================
