---------------------------- MODULE OwnerCommands ----------------------------
(***************************************************************************)
(* The creation of intents (ExecutionIntents), the owner's commands for an *)
(* open trade (ManualControls), the confirmation of CANARY -> LIVE         *)
(* (LiveActivation) and the lane of provider transactions (LighterActions) *)
(* side by side.  The rows of one are not read by another here: every      *)
(* behavior is a behavior of one of them.                                  *)
(***************************************************************************)
EXTENDS ExecutionIntents

CONSTANTS
  Controlled, Askers, Exposure, Stop, MaxStop,   \* ManualControls, its Intents first
  Confirmers, Previews,                          \* LiveActivation
  Callers, Orders, Cancels, MaxNonce             \* LighterActions

VARIABLES
  part,
  state, commands, locked, step, ask,            \* ManualControls
  live, previews, holder, stage, confirm,        \* LiveActivation
  binding, lane, turn, call, next, taken, wire   \* LighterActions

Controls == INSTANCE ManualControls WITH Intents <- Controlled
Activation == INSTANCE LiveActivation WITH LiveKeys <- Keys
Lighter == INSTANCE LighterActions WITH stage <- turn

\* requests and keys are told from the absence of one, keys from previews
ASSUME NamesAssumption ==
  /\ None \notin Requests /\ None \notin Keys
  /\ Previews \cap Keys = {}

ASSUME BoundsAssumption ==
  /\ MaxSnapshot \in Nat \ {0} /\ MaxNow \in Nat \ {0} /\ MaxQuantity \in Nat \ {0}
  /\ Exposure \in Nat /\ Stop \in Nat /\ MaxStop \in Nat /\ MaxNonce \in Nat

ASSUME FiniteAssumption == IsFiniteSet(Requests) /\ IsFiniteSet(Controlled)

controlsVars == <<state, commands, locked, step, ask>>
activationVars == <<live, previews, holder, stage, confirm>>
lighterVars == <<binding, lane, turn, call, next, taken, wire>>

AllInit ==
  /\ part \in {"intents", "controls", "activation", "lighter"}
  /\ Init /\ Controls!Init /\ Activation!Init /\ Lighter!Init

AllNext ==
  /\ UNCHANGED part
  /\ IF part = "intents" THEN Next ELSE UNCHANGED vars
  /\ IF part = "controls" THEN Controls!Next ELSE UNCHANGED controlsVars
  /\ IF part = "activation" THEN Activation!Next ELSE UNCHANGED activationVars
  /\ IF part = "lighter" THEN Lighter!Next ELSE UNCHANGED lighterVars

AllSpec == AllInit /\ [][AllNext]_<<part, vars, controlsVars, activationVars, lighterVars>>

-----------------------------------------------------------------------------
\* The type invariants of the four modules: rows, locks and requests are well formed.
CommandsTypeOK == TypeOK /\ Controls!TypeOK /\ Activation!TypeOK /\ Lighter!TypeOK

\* Properties of ManualControls, LiveActivation and LighterActions, where they are explained.
OneCommandByIdea == Controls!OnePendingByIdea /\ Controls!AnswersNameTheirCommand
OneConfirmation == Activation!OneConfirmation
OneTransactionPerAction == Lighter!OneTransactionPerAction
NoBlindResend == Lighter!NoBlindResend
=============================================================================
