---------------------------- MODULE MCSessionView ----------------------------
EXTENDS SessionView, TLC

CONSTANTS s1, s2, none

Alike == Permutations(Sessions)
=============================================================================
