-------------------------- MODULE ExecutionLifecycle --------------------------
(***************************************************************************)
(* One execution intent from its creation to a protected position or an    *)
(* emergency close: process_execution_intent and everything it calls       *)
(* (server/app/execution/service.py), run by process_next_intent           *)
(* (worker.py), against the broker of module Venue.                        *)
(*                                                                         *)
(* A pass of the worker is cut at its port calls: between two of them the  *)
(* broker, the owner's kill switch and a crash may act.  The session ses   *)
(* holds what the pass has written, row what PostgreSQL has: a commit      *)
(* copies ses to row, a crash loses ses, and the finally block of          *)
(* process_next_intent commits ses when the pass returns or raises.        *)
(*                                                                         *)
(* One worker serves the intent here; module ExecutionWorkers is about     *)
(* several.  Time is abstract: retry = "later" says that next_retry_at    *)
(* lies in the future; aged counts the lots, in the order they filled,     *)
(* whose fill is at least _PROTECTION_SLA old.  A pass reads the clock     *)
(* once, at its start, so a lot only ages between passes.                  *)
(***************************************************************************)
EXTENDS ExecutionDomain, Venue

CONSTANT
  Errors   \* what a failed post raises in the adapter: "TIMEOUT" stands for
           \* TimeoutError and ConnectionError, "ERROR" for any other exception

ASSUME ErrorsAssumption == Errors \subseteq {"TIMEOUT", "ERROR"}

VARIABLES
  row,    \* the committed rows of the intent
  ses,    \* the same rows as the session of the running pass sees them
  pc,     \* the port call the running pass is about to make, or "idle"
  kill,   \* the persisted kill-switch level
  aged    \* lots that have been filled for longer than the protection SLA

workerVars == <<row, ses, pc, kill, aged>>
vars == <<entry, stops, flat, row, ses, pc, kill, aged>>

Calls == {"idle", "pre", "submit", "recover", "fillsAck", "fillsPending",
          "arm", "rearm", "check", "settle", "manage", "flatten", "flatCheck"}

(* The columns the control flow reads.  entryId: whether the entry order   *)
(* row has a provider id.  confirmed: the quantity of the last MATCHED event.    *)
(* stopLots, stopId: the protection row (no row while stopLots = 0).       *)
(* flatLots: quantity of the emergency order row (no row while 0).         *)
Rows == [state : States, entryId : {"none", "known"}, fills : 0 .. Planned,
         confirmed : 0 .. Planned, stopLots : 0 .. Planned,
         stopId : StopIds \cup {NoStop}, flatLots : 0 .. Planned,
         retry : {"due", "later"}]

TypeOK ==
  /\ VenueTypeOK
  /\ row \in Rows /\ ses \in Rows
  /\ pc \in Calls
  /\ kill \in KillLevels
  /\ aged \in 0 .. Planned

NewIntent == [state |-> "INTENT_CREATED", entryId |-> "none", fills |-> 0,
              confirmed |-> 0, stopLots |-> 0, stopId |-> NoStop,
              flatLots |-> 0, retry |-> "due"]

Init ==
  /\ VenueInit
  /\ row = NewIntent /\ ses = NewIntent
  /\ pc = "idle" /\ kill = "CLEAR" /\ aged = 0

(* ------------------------ how a pass goes on --------------------------- *)
Commit(s, next) == row' = s /\ ses' = s /\ pc' = next
Flush(s, next) == ses' = s /\ pc' = next /\ UNCHANGED row

\* the pass ends: its own commit, or the one in the finally block
Done(s) == Commit(s, "idle")
Later(s) == [s EXCEPT !.retry = "later"]
Retry(s) == Done(Later(s))
Raise == Done(ses)

\* the process dies at its port call
Dies == ses' = row /\ pc' = "idle" /\ UNCHANGED row

Quiet == UNCHANGED <<entry, stops, flat>>
Still == UNCHANGED <<kill, aged>>

(* --------------------------- taking the intent ------------------------- *)
(* claim_next_intent takes a due intent of a claimable state, the entry     *)
(* ones only if the level read before the claim is not HALT_NEW_ENTRIES.    *)
Due(states) == pc = "idle" /\ row.retry = "due" /\ row.state \in states

StartPreSubmit ==
  /\ Due(PreSubmit) /\ kill = "CLEAR"
  /\ Flush([row EXCEPT !.state = "READY_TO_SUBMIT"], "pre")
  /\ Quiet /\ Still

\* mutant: the kill switch also cancels intents whose order may exist
CancelUncertain ==
  /\ Due(PreSubmit \cup Uncertain) /\ kill \in {"CANCEL_PENDING_ENTRIES", "FLATTEN_ALL"}
  /\ Done([row EXCEPT !.state = "CANCELLED"])
  /\ Quiet /\ Still

\* _apply_pre_submit_kill_switch
CancelPending ==
  /\ Due(PreSubmit) /\ kill \in {"CANCEL_PENDING_ENTRIES", "FLATTEN_ALL"}
  /\ Done([row EXCEPT !.state = "CANCELLED"])
  /\ Quiet /\ Still

\* mutant: only the AMBIGUOUS intents are recovered, not the interrupted ones
StartRecoveryOfAmbiguous ==
  /\ Due({"AMBIGUOUS"})
  /\ Commit([row EXCEPT !.state = "RECONCILING"], "recover")
  /\ Quiet /\ Still

StartRecovery ==
  /\ Due(Uncertain)
  /\ Commit([row EXCEPT !.state = "RECONCILING"], "recover")
  /\ Quiet /\ Still

StartSafety ==
  /\ Due(SafetyClaimable \ Uncertain)
  /\ Flush(row, CASE row.state = "ACKNOWLEDGED" -> "fillsAck"
                  [] row.state = "PROTECTION_PENDING" -> "fillsPending"
                  [] row.state = "EMERGENCY_FLATTEN" -> "flatCheck")
  /\ Quiet /\ Still

(* ------------------------------ the entry ------------------------------ *)
Submitting(s) == [s EXCEPT !.state = "SUBMITTING", !.entryId = "none"]

\* reconcile_before_submit: everything but ABSENT is UNKNOWN
LookBeforeSubmit ==
  /\ pc = "pre"
  /\ \/ Retry(ses)
     \/ /\ ~Known(entry)
        /\ Commit(Submitting(ses), "submit")
  /\ Quiet /\ Still

Acknowledged(s) ==
  [s EXCEPT !.state = "ACKNOWLEDGED", !.entryId = "known", !.retry = "due"]

Ambiguous(s) == [s EXCEPT !.state = "AMBIGUOUS"]

NotFound(s) == [s EXCEPT !.state = "READY_TO_SUBMIT", !.entryId = "none"]

\* _KillSwitchGuardedPort.submit reads the level under the control lock
SubmitBlocked ==
  /\ pc = "submit" /\ kill # "CLEAR"
  /\ Retry(Ambiguous(ses))
  /\ Quiet /\ Still

SubmitAcked ==
  /\ pc = "submit" /\ kill = "CLEAR"
  /\ PostEntry("arrived")
  /\ Commit(Acknowledged(ses), "fillsAck")
  /\ UNCHANGED <<stops, flat>> /\ Still

SubmitFails ==
  /\ pc = "submit" /\ kill = "CLEAR"
  /\ \E fate \in Fates : PostEntry(fate)
  /\ \/ "TIMEOUT" \in Errors /\ Retry(Ambiguous(ses))
     \/ "ERROR" \in Errors /\ Raise
     \/ Dies
  /\ UNCHANGED <<stops, flat>> /\ Still

\* _recover_uncertain_submission
RecoverSubmission ==
  /\ pc = "recover"
  /\ \/ Retry(ses)
     \/ ~Known(entry) /\ Retry(NotFound(ses))
     \/ Known(entry) /\ Commit(Acknowledged(ses), "fillsAck")
  /\ Quiet /\ Still

(* -------------------------------- fills -------------------------------- *)
\* consume_fills raises when the order cannot be read: the pass is over
ReadFillsFails ==
  /\ pc \in {"fillsAck", "fillsPending"}
  /\ Raise
  /\ Quiet /\ Still

\* mutant: fills that were captured before are added once more
SeenAgain(s) == IF s.entryId = "known" THEN s.fills + entry.filled ELSE s.fills

\* _capture_fills adds the fills not yet known; without id it reads none
Seen(s) == IF s.entryId = "known" THEN entry.filled ELSE s.fills

\* _capture_fills, then _ensure_protection_row: it only ever grows
Captured(s) ==
  [s EXCEPT !.fills = Seen(s),
            !.stopLots = IF Seen(s) > @ THEN Seen(s) ELSE @]

Opened(s) == [s EXCEPT !.state = "PROTECTION_PENDING", !.retry = "due"]

ReadFillsAfterAck ==
  /\ pc = "fillsAck"
  /\ IF Seen(ses) = 0
     THEN Retry(ses)
     ELSE Commit(Opened(Captured(ses)), "arm")
  /\ Quiet /\ Still

ReadFillsWhilePending ==
  /\ pc = "fillsPending"
  /\ Commit(Captured(ses), "check")
  /\ Quiet /\ Still

(* ----------------------------- the emergency --------------------------- *)
\* _protection_sla_expired: some captured, unconfirmed lot is too old
SlaExpired(s) ==
  /\ s.confirmed < s.stopLots
  /\ s.confirmed < s.fills /\ s.confirmed < aged

\* mutant: the emergency order is sized by the plan, not by the fills
FlatteningPlanned(s) ==
  [s EXCEPT !.state = "EMERGENCY_FLATTEN", !.flatLots = Planned]

\* _begin_emergency_flatten up to its port call
Flattening(s) ==
  [s EXCEPT !.state = "EMERGENCY_FLATTEN", !.flatLots = s.fills]

BeginFlatten(s) == Commit(Flattening(s), "flatten")

\* _submit_emergency_flatten: ack, ambiguous and error all wait for a retry
PostFlatten ==
  /\ pc = "flatten"
  /\ \/ PostFlat(ses.flatLots, "arrived") /\ Retry(ses)
     \/ \E fate \in Fates :
          /\ PostFlat(ses.flatLots, fate)
          /\ (Errors # {} /\ Retry(ses)) \/ Dies
  /\ UNCHANGED <<entry, stops>> /\ Still

Closed(s) == [s EXCEPT !.state = "CLOSED", !.retry = "due"]

\* mutant: an unreadable emergency order is posted again
LookUpFlattenBlindly ==
  /\ pc = "flatCheck"
  /\ \/ flat.at # "filled" /\ Commit(ses, "flatten")
     \/ flat.at = "filled" /\ Done(Closed(ses))
  /\ Quiet /\ Still

\* mutant: a missing emergency order is only waited for
LookUpFlattenPatiently ==
  /\ pc = "flatCheck"
  /\ \/ flat.at # "filled" /\ Retry(ses)
     \/ flat.at = "filled" /\ Done(Closed(ses))
  /\ Quiet /\ Still

\* _resume_emergency_flatten
LookUpFlatten ==
  /\ pc = "flatCheck"
  /\ \/ Retry(ses)
     \/ ~Known(flat) /\ Commit(ses, "flatten")
     \/ Known(flat) /\ flat.at # "filled" /\ Retry(ses)
     \/ flat.at = "filled" /\ Done(Closed(ses))
  /\ Quiet /\ Still

(* ----------------------------- protection ------------------------------ *)
Armed(s, id) == [s EXCEPT !.stopId = id]

\* after an ACK: read back at once, or in a later pass (reconcile_after_arm)
AfterArm(id) ==
  IF pc = "arm" THEN Commit(Armed(ses, id), "check") ELSE Retry(Armed(ses, id))

\* _arm_or_resume_protection, the failures of arm_protection
ArmFails ==
  \/ /\ "TIMEOUT" \in Errors
     /\ IF SlaExpired(ses) THEN BeginFlatten(ses) ELSE Retry(ses)
  \/ "ERROR" \in Errors /\ BeginFlatten(ses)
  \/ Dies

ArmStop ==
  /\ pc \in {"arm", "rearm"}
  /\ LET have == AlreadyArmed(ses.stopLots) IN
     \/ /\ have = ses.stopLots
        /\ \E id \in Legs : AfterArm(id)
        /\ UNCHANGED stops
     \/ \E id \in StopIds, delta \in 1 .. ses.stopLots :
          /\ have + delta = ses.stopLots
          /\ \/ PostStop(id, delta, "arrived") /\ AfterArm(id)
             \/ \E fate \in Fates : PostStop(id, delta, fate) /\ ArmFails
     \/ UNCHANGED stops /\ ArmFails
     \/ have > ses.stopLots /\ BeginFlatten(ses) /\ UNCHANGED stops
  /\ UNCHANGED <<entry, flat>> /\ Still

\* mutant: the evidence is recorded for the first protected fill only
ConfirmedOnce(s, id) ==
  [s EXCEPT !.confirmed = IF @ = 0 THEN s.stopLots ELSE @, !.stopId = id]

\* mutant: the evidence of an expansion records the lots it added
ConfirmedDelta(s, id) ==
  [s EXCEPT !.confirmed = s.stopLots - @, !.stopId = id]

\* _finish_protected: settled at once when every planned lot is captured
Confirmed(s, id) ==
  [s EXCEPT !.confirmed = s.stopLots, !.stopId = id]

Protected(s) == [s EXCEPT !.state = "PROTECTED", !.retry = "due"]

\* _resume_protection with an exact match, and with anything else
IsExact(read) ==
  read.outcome = "MATCHED" /\ ses.stopId \in {NoStop, read.id}

CheckExact(read) ==
  /\ IsExact(read)
  /\ IF ses.fills >= Planned
     THEN Commit(Protected(Confirmed(ses, read.id)), "manage")
     ELSE Flush(Confirmed(ses, read.id), "settle")

Unarmed(s) == [s EXCEPT !.stopId = NoStop]

\* mutant: an expired SLA is not looked at after a read-back
CheckFailsForever(outcome) ==
  IF outcome = "MISSING" THEN Commit(Unarmed(ses), "rearm") ELSE Retry(ses)

\* mutant: a missing stop closes the position at once
CheckFailsRashly(outcome) ==
  IF outcome = "MISSING" THEN BeginFlatten(ses) ELSE Retry(ses)

CheckFails(outcome) ==
  IF SlaExpired(ses) THEN BeginFlatten(ses)
  ELSE IF outcome = "MISSING"
       THEN Commit(Unarmed(ses),
                   IF ses.stopLots > ses.confirmed /\ ses.confirmed > 0
                   THEN "arm" ELSE "rearm")
       ELSE Retry(ses)

CheckProtection ==
  /\ pc = "check"
  /\ \/ LET read == ReadProtection(ses.stopLots, ses.stopId) IN
          CheckExact(read) \/ (~IsExact(read) /\ CheckFails(read.outcome))
     \/ CheckFails("UNKNOWN")
  /\ Quiet /\ Still

\* _entry_is_settled asks for the entry order only after the stop was matched
SettleEntry ==
  /\ pc = "settle"
  /\ \/ Known(entry) /\ Terminal(entry) /\ Commit(Protected(ses), "manage")
     \/ ~(Known(entry) /\ Terminal(entry)) /\ Retry(ses)
     \/ Retry(ses)
  /\ Quiet /\ Still

\* port.reconcile and manage_until_close do nothing at T-Invest
StartManaging ==
  /\ pc = "manage"
  /\ Done([ses EXCEPT !.state = "MANAGING"])
  /\ Quiet /\ Still

(* ----------------------- crash, clock and owner ------------------------ *)
Crash == pc # "idle" /\ Dies /\ Quiet /\ Still

RetryFallsDue ==
  /\ pc = "idle" /\ row.retry = "later"
  /\ Done([row EXCEPT !.retry = "due"])
  /\ Quiet /\ Still

LotAges ==
  /\ pc = "idle" /\ aged < entry.filled
  /\ aged' = aged + 1
  /\ Quiet /\ UNCHANGED <<row, ses, pc, kill>>

\* set_ and clear_execution_kill_switch hold the control lock
OwnerSetsKillSwitch ==
  /\ kill' \in KillLevels \ {kill}
  /\ Quiet /\ UNCHANGED <<row, ses, pc, aged>>

(* ------------------------------------------------------------------------ *)
WorkerNext ==
  \/ StartPreSubmit \/ CancelPending \/ StartRecovery \/ StartSafety
  \/ LookBeforeSubmit \/ SubmitBlocked \/ SubmitAcked \/ SubmitFails
  \/ RecoverSubmission
  \/ ReadFillsFails \/ ReadFillsAfterAck \/ ReadFillsWhilePending
  \/ ArmStop \/ CheckProtection \/ SettleEntry \/ StartManaging
  \/ PostFlatten \/ LookUpFlatten

BrokerNext == VenueNext /\ UNCHANGED workerVars

Next ==
  \/ WorkerNext \/ BrokerNext
  \/ Crash \/ RetryFallsDue \/ LotAges \/ OwnerSetsKillSwitch

Spec == Init /\ [][Next]_vars

(* ------------------------------- fairness ------------------------------ *)
(* Something calls process_next_intent again and again, retries fall due   *)
(* and time passes.  A pass may crash or be answered with an error at any  *)
(* call; strong fairness says that a call made again and again is not      *)
(* failed every time.                                                      *)
Running == WF_vars(WorkerNext) /\ WF_vars(RetryFallsDue) /\ SF_vars(LotAges)

FairSpec ==
  /\ Spec /\ Running
  /\ SF_vars(ReadFillsWhilePending) /\ SF_vars(CheckProtection)
  /\ SF_vars(SettleEntry)
  /\ SF_vars(RecoverSubmission /\ row'.state # "RECONCILING")

\* the broker answers everything but the read of the fills
FillReadsDownSpec ==
  Spec /\ Running /\ SF_vars(CheckProtection) /\ SF_vars(SettleEntry)

\* the emergency order gets through, and the broker fills what it accepted
CloseSpec ==
  /\ Spec /\ Running
  /\ SF_vars(PostFlatten /\ Known(flat)')
  /\ WF_vars(FlatFills /\ UNCHANGED workerVars)
  /\ SF_vars(LookUpFlatten /\ pc' = "flatten")
  /\ SF_vars(LookUpFlatten /\ row'.state = "CLOSED")

(* --------------------------- what must hold ---------------------------- *)
(* A durable PROTECTED or MANAGING row never runs ahead of the evidence:   *)
(* the last MATCHED read-back covers every captured lot and names a stop   *)
(* order (_finish_protected; "protection is never considered active until  *)
(* the provider state is reconciled").                                     *)
ProtectedMeansConfirmed ==
  row.state \in {"PROTECTED", "MANAGING"} =>
    /\ 0 < row.fills /\ row.confirmed = row.fills /\ row.stopLots = row.fills
    /\ row.stopId # NoStop

(* No blind replay (process_execution_intent): whenever a pass stands      *)
(* before a post, the broker has no earlier order that the post repeats.   *)
NoBlindReplay ==
  /\ pc = "submit" => ~Known(entry)
  /\ pc = "flatten" => ~Known(flat)

(* However often arming is retried after lost answers, crashes and partial *)
(* fills, the working stops never cover more lots than were bought, and a  *)
(* pass arms only while they leave some captured lot uncovered: it never   *)
(* doubles a stop whose answer was lost ("only an authoritative MISSING    *)
(* result makes a repair safe").                                           *)
StopsWithinFills ==
  /\ LotsOf(Legs) <= entry.filled
  /\ pc \in {"arm", "rearm"} => LotsOf(Legs) < ses.stopLots

(* The emergency order never sells more lots than were bought by then,     *)
(* however often it is posted, lost, delayed and looked up, and whatever   *)
(* fills, triggers or is dropped meanwhile (_begin_ and                    *)
(* _resume_emergency_flatten size it by the captured fills).  Nothing is   *)
(* said of the working stops, which no handler cancels before it.          *)
FlattenWithinFills == flat.at # "none" => flat.lots <= entry.filled

(* What the broker holds of an intent that no worker claims again has a    *)
(* working stop: no fill escapes between the last capture and the end      *)
(* (_entry_is_settled before MANAGING, _begin_emergency_flatten before     *)
(* CLOSED).                                                                *)
NoFillEscapes ==
  row.state \in {"PROTECTED", "MANAGING", "CLOSED"} => Position <= LotsOf(Legs)

(* Every change of the state a session makes is one or two edges of the    *)
(* transition table, so _advance never raises in the middle of a handler.  *)
OnlyAllowedSteps ==
  [][ses'.state \in {ses.state, row.state} \cup Within2(ses.state)]_vars

(* A position is closed by force only when some captured lot has stayed    *)
(* unconfirmed for the whole protection SLA ("cannot prove protection      *)
(* within the accepted 30-second SLA").                                    *)
FlattenOnlyAfterSla ==
  [][row'.state = "EMERGENCY_FLATTEN" /\ row.state # "EMERGENCY_FLATTEN"
     => SlaExpired(row')]_vars

(* The durable rows implement the contract of an intent: an intent that    *)
(* may have an order at the broker goes back only over an authoritative    *)
(* ABSENT, coverage is confirmed for all that is held or not at all, and a *)
(* guarded, closed or cancelled intent never moves again.                  *)
Phase ==
  CASE row.state \in PreSubmit -> "pending"
    [] row.state \in Uncertain -> "sent"
    [] row.state = "ACKNOWLEDGED" -> "known"
    [] row.state = "PROTECTION_PENDING" -> "open"
    [] row.state \in {"PROTECTED", "MANAGING"} -> "guarded"
    [] row.state = "EMERGENCY_FLATTEN" -> "closing"
    [] row.state = "CLOSED" -> "closed"
    [] row.state = "CANCELLED" -> "dropped"
    [] OTHER -> "impossible"

Contract == INSTANCE ExecutionContract
              WITH phase <- Phase, held <- row.fills, covered <- row.confirmed

ImplementsContract == Contract!Spec

(* Unless the SLA has run out, a position is closed by force only while    *)
(* its working stops leave some lot uncovered.                             *)
NoFlattenOfCovered ==
  [][row'.state = "EMERGENCY_FLATTEN" /\ row.state # "EMERGENCY_FLATTEN"
     => SlaExpired(row') \/ LotsOf(Legs)' < row'.stopLots]_vars

(* A captured lot without confirmed protection does not stay so: it is     *)
(* confirmed, or the durable emergency flatten begins.                     *)
NakedIsResolved ==
  (row.state = "PROTECTION_PENDING" /\ row.confirmed < row.fills)
    ~> (row.confirmed = row.fills \/ row.state = "EMERGENCY_FLATTEN")

(* An uncertain submission does not stay uncertain                         *)
(* (_recover_uncertain_submission), whatever the owner does meanwhile.     *)
SubmissionResolves == (row.state \in Uncertain) ~> (row.state \notin Uncertain)

(* A durable emergency flatten ends in CLOSED.                             *)
EmergencyCloses == (row.state = "EMERGENCY_FLATTEN") ~> (row.state = "CLOSED")
=============================================================================
