-------------------------- MODULE MCOwnerCommands --------------------------
EXTENDS OwnerCommands, TLC

CONSTANTS r1, r2, r3, k1, k2

MCRequests == {r1, r2, r3}
MCKeys == {k1, k2}
MCSymmetry == Permutations(MCRequests) \cup Permutations(MCKeys)
=============================================================================
