------------------------------ MODULE Operations ------------------------------
(***************************************************************************)
(* The connections of the workers (TupleLock), the retention of files      *)
(* (RetentionAttempts) and the market lane of the scheduler (MarketLane)   *)
(* side by side.  They share no state here: every behavior is a behavior   *)
(* of one of the Parts.                                                    *)
(***************************************************************************)
EXTENDS TupleLock, FiniteSets

CONSTANTS
  Parts,                               \* of "connections", "retention" and "market"
  Runners, Configs, MaxPeriod, Budget, \* RetentionAttempts
  Instruments, LaneOf, Trading, Loaded, Signals, Horizon, MaxFaults  \* MarketLane

VARIABLES
  part,
  period, intents, outcomes, lock, up, at, attempt, done, deleted,    \* RetentionAttempts
  bars, faults, turn, scanMark, shadowMark, lost, scanned, shadows, pairs     \* MarketLane

Retention == INSTANCE RetentionAttempts
Market == INSTANCE MarketLane WITH None <- NoOne

\* an attempt and a count of deleted files are told from nothing
ASSUME RetentionAssumption ==
  /\ Budget \in Nat /\ MaxPeriod \in Nat \ {0}
  /\ NoOne \notin Nat /\ NoOne \notin Runners /\ NoOne \notin Configs \X (1 .. MaxPeriod)

\* hours are counted from 1, so that 0 stands for no bar
ASSUME MarketAssumption ==
  /\ IsFiniteSet(Instruments) /\ Loaded \in Nat /\ Horizon \in Nat /\ MaxFaults \in Nat
  /\ \A i \in Instruments : Trading[i] \subseteq Nat \ {0}

retentionVars == <<period, intents, outcomes, lock, up, at, attempt, done, deleted>>
marketVars == <<bars, faults, turn, scanMark, shadowMark, lost, scanned, shadows, pairs>>

AllInit == part \in Parts /\ Init /\ Retention!Init /\ Market!Init

AllNext ==
  /\ UNCHANGED part
  /\ IF part = "connections" THEN Next ELSE UNCHANGED vars
  /\ IF part = "retention" THEN Retention!Next ELSE UNCHANGED retentionVars
  /\ IF part = "market" THEN Market!Next ELSE UNCHANGED marketVars

AllSpec == AllInit /\ [][AllNext]_<<part, vars, retentionVars, marketVars>>

-----------------------------------------------------------------------------
\* Properties of RetentionAttempts and MarketLane, where they are explained.
DeletionsAccounted == Retention!DeletionsAccounted
NoBarSleeps == Market!NoBarSleeps
EvidenceIsHonest == Market!EvidenceIsHonest
PairOnSameBars == Market!PairOnSameBars
OperationsTypeOK == TypeOK /\ Retention!TypeOK /\ Market!TypeOK
=============================================================================
