-------------------------- MODULE MCOwnerServices --------------------------
EXTENDS OwnerServices, TLC

CONSTANTS s1, s2, k1, k2

MCSessions == {s1, s2}
MCKeys == {k1, k2}
MCSymmetry == Permutations(MCSessions) \cup Permutations(MCKeys)
\* The first stop, below the entry, the first and the last target.
MCLevels == {-4, -1, 4, 12}
=============================================================================
