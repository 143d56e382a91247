-------------------------- MODULE MCProfileAssigner --------------------------
EXTENDS ProfileAssigner, TLC

CONSTANTS s1, s2, p1, p2, w1, w2
=============================================================================
