---------------------------- MODULE MCTicketKeys ----------------------------
EXTENDS TicketKeys, TLC

CONSTANTS k1, k2

\* The first key, a rotation that keeps it behind the new key, and one that drops it.
Rotation == {<<k1>>, <<k2, k1>>, <<k2>>}

Symmetry == Permutations(Threads) \cup Permutations(Addresses)
=============================================================================
