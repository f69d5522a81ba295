-------------------------- MODULE MCSessionDetail --------------------------
EXTENDS SessionDetail, TLC

CONSTANTS c1, c2

Alike == Permutations(Clients)
=============================================================================
