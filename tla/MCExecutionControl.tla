------------------------- MODULE MCExecutionControl -------------------------
\* Two sessions: every hazard here is one session against another.
EXTENDS ExecutionControl, TLC
CONSTANTS s1, s2
MCSessions == {s1, s2}
MCSymmetry == Permutations(MCSessions)
=============================================================================
