--------------------------- MODULE ExecutionDomain ---------------------------
(***************************************************************************)
(* The vocabulary of the durable execution core and the table of the       *)
(* structurally possible state changes: server/app/execution/enums.py and  *)
(* domain.py.  A constant module: no state, no behaviour.                  *)
(***************************************************************************)

PreSubmit == {"INTENT_CREATED", "RISK_APPROVED", "READY_TO_SUBMIT"}

Uncertain == {"SUBMITTING", "AMBIGUOUS", "RECONCILING"}

SafetyClaimable ==
  Uncertain \cup {"ACKNOWLEDGED", "PROTECTION_PENDING", "EMERGENCY_FLATTEN"}

Claimable == PreSubmit \cup SafetyClaimable

States ==
  Claimable \cup {"PARTIALLY_FILLED", "FILLED", "PROTECTED", "MANAGING",
                  "EXITING", "CLOSED", "REJECTED", "CANCELLED", "FAILED"}

KillLevels ==
  {"CLEAR", "HALT_NEW_ENTRIES", "CANCEL_PENDING_ENTRIES", "FLATTEN_ALL"}

(* The transition table; a state it does not name has no successor.        *)
Allowed ==
  [s \in States |->
    CASE s = "INTENT_CREATED"     -> {"RISK_APPROVED", "CANCELLED", "FAILED"}
      [] s = "RISK_APPROVED"      -> {"READY_TO_SUBMIT", "CANCELLED", "FAILED"}
      [] s = "READY_TO_SUBMIT"    -> {"SUBMITTING", "CANCELLED", "FAILED"}
      [] s = "SUBMITTING"         -> {"ACKNOWLEDGED", "AMBIGUOUS", "REJECTED", "FAILED"}
      [] s = "AMBIGUOUS"          -> {"RECONCILING"}
      [] s = "RECONCILING"        -> {"ACKNOWLEDGED", "READY_TO_SUBMIT", "REJECTED", "FAILED"}
      [] s = "ACKNOWLEDGED"       -> {"PARTIALLY_FILLED", "FILLED", "CANCELLED", "REJECTED", "FAILED"}
      [] s = "PARTIALLY_FILLED"   -> {"FILLED", "PROTECTION_PENDING", "EXITING", "EMERGENCY_FLATTEN", "FAILED"}
      [] s = "FILLED"             -> {"PROTECTION_PENDING", "EXITING", "EMERGENCY_FLATTEN", "FAILED"}
      [] s = "PROTECTION_PENDING" -> {"PROTECTED", "EMERGENCY_FLATTEN", "FAILED"}
      [] s = "PROTECTED"          -> {"MANAGING", "EXITING", "EMERGENCY_FLATTEN", "FAILED"}
      [] s = "MANAGING"           -> {"EXITING", "EMERGENCY_FLATTEN", "FAILED"}
      [] s = "EXITING"            -> {"CLOSED", "EMERGENCY_FLATTEN", "FAILED"}
      [] s = "EMERGENCY_FLATTEN"  -> {"CLOSED", "FAILED"}
      [] OTHER                    -> {}]

(* transition_execution_state validates one change; a handler may make two *)
(* of them before it commits (ACKNOWLEDGED -> PARTIALLY_FILLED ->           *)
(* PROTECTION_PENDING), so a session moves along one or two table edges.   *)
Within2(s) == Allowed[s] \cup UNION {Allowed[t] : t \in Allowed[s]}
=============================================================================
