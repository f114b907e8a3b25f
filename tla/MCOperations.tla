---------------------------- MODULE MCOperations ----------------------------
EXTENDS Operations

OwnProcess == [s \in Sessions |-> IF s = 1 THEN "p" ELSE "q"]

\* hours of trading: one contract of FORTS and two perpetuals, one of them with a gap
Hours == [forts |-> {1, 3}, perp |-> {1, 2, 3}, thin |-> {1, 2}]
Lanes == [i \in Instruments |-> IF i = "forts" THEN "forts" ELSE "crypto"]
SomeSignals == {<<"forts", 1>>, <<"perp", 1>>, <<"perp", 2>>}
=============================================================================
