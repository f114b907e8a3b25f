-------------------------- MODULE MCExecutionWorkers --------------------------
\* Every intent has a venue/account/instrument of its own.
EXTENDS ExecutionWorkers

OwnTuple == [i \in Intents |-> i]
=============================================================================
