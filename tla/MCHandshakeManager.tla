------------------------- MODULE MCHandshakeManager -------------------------
EXTENDS HandshakeManager, TLC

CONSTANTS h1, h2, h3, h4, a1, a2, i1, i2, i3, r1, r2, s1, p1, p2, m1, m2

HostSymmetry == Permutations(Host)
Symmetry == Permutations(Host) \cup Permutations(Index)

OnePeer == [m \in Stage0 |-> a1]
InOrder == [m \in Stage0 |-> IF m = m1 THEN 1 ELSE 2]
NoStage0 == [m \in {} |-> a1]
NoTime == [m \in {} |-> 0]
=============================================================================
